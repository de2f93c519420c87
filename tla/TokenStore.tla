------------------------------ MODULE TokenStore ------------------------------
(***************************************************************************)
(* The per-user token store (admin_cli.py) and the authenticator that      *)
(* follows it (auth.py).  Every command of mcpgw-admin is a process of its *)
(* own that reads the whole file and writes the whole file, with nothing   *)
(* to keep another command out in between; the server reloads both token   *)
(* files on the next request, and keeps what it has when one of them does  *)
(* not parse.                                                              *)
(*                                                                         *)
(* That a request sees the files as they stand when they parse is what     *)
(* module HotFile shows; here it is one step.                              *)
(*                                                                         *)
(* The file is a list; here it is the set of its entries.  The order would *)
(* only say which of an owner's tokens rotate and role take for the first, *)
(* and an owner has one, since mint refuses the second.                    *)
(***************************************************************************)
EXTENDS Naturals

CONSTANTS
  Operators,     \* processes that run a command of mcpgw-admin
  Owners,        \* pairs of an actor and a project
  AllowEmpty,    \* an identity provider is configured (allow_empty)
  MaxTokens,     \* how many tokens are made
  MaxCommands    \* how many commands are run

ASSUME TokenAssumption ==
  /\ AllowEmpty \in BOOLEAN
  /\ {MaxTokens, MaxCommands} \subseteq Nat

VARIABLES
  store,         \* the entries of GATEWAY_USER_TOKEN_FILE
  readable,      \* whether that file parses
  static,        \* GATEWAY_TOKEN_FILE: not configured, good, or broken by hand
  index,         \* the entries the server authenticates against
  command,       \* what each operator is doing
  tokens, commands,
  answered,      \* history: the rights the request just answered has, if one was
  withdrawn,     \* history: the rights a finished command has taken away
  lostUpdate     \* history: a command has written over what another had written

files == <<store, readable, static>>
tokenVars == <<files, index, command, tokens, commands, answered, withdrawn, lostUpdate>>

\* A token with or without the write role; a right is either of the two.
Entries == [token : 1 .. MaxTokens, owner : Owners, writer : BOOLEAN]
RightsOf(token) == {token} \X BOOLEAN
Kinds == {"mint", "rotate", "revoke", "grant", "degrade"}

TokenInit ==
  /\ store = {}
  /\ readable = TRUE
  /\ static \in IF AllowEmpty THEN {"none", "good"} ELSE {"good"}
  /\ index = {}
  /\ command = [o \in Operators |-> [kind |-> "none"]]
  /\ tokens = 0
  /\ commands = 0
  /\ answered = {}
  /\ withdrawn = {}
  /\ lostUpdate = FALSE

-------------------------------------------------------------------------------
(* mcpgw-admin. *)

\* _match
Matches(entry, owner) == entry.owner = owner

Of(entries, owner) == {e \in entries : Matches(e, owner)}

\* The entry of the owner that rotate and role change.
First(entries, owner) == CHOOSE e \in Of(entries, owner) : TRUE

\* Faulty variant: mint does not ask whether there is a token already.
AcceptsUnasked(kind, owner) == kind = "mint" \/ Of(store, owner) # {}

\* mint is for an owner without a token, every other command for one with.
Accepts(kind, owner) == kind = "mint" <=> Of(store, owner) = {}

\* _load and the checks on what it read; a file that does not parse, or an owner the
\* command is not for, ends the command.
Load(o, kind, owner) ==
  /\ command[o].kind = "none"
  /\ commands < MaxCommands
  /\ kind \in {"mint", "rotate"} => tokens < MaxTokens
  /\ commands' = commands + 1
  /\ IF readable /\ Accepts(kind, owner)
     THEN /\ command' = [command EXCEPT ![o] =
               [kind |-> kind, owner |-> owner, read |-> store, token |-> tokens + 1]]
          /\ tokens' = IF kind \in {"mint", "rotate"} THEN tokens + 1 ELSE tokens
     ELSE UNCHANGED <<command, tokens>>
  /\ answered' = {}
  /\ UNCHANGED <<files, index, withdrawn, lostUpdate>>

\* What the command writes: the whole file as it read it, with its one change.
Written(c) ==
  LET e == First(c.read, c.owner)
      With(f) == (c.read \ {e}) \cup {f}
  IN  CASE c.kind = "mint" ->
             c.read \cup {[token |-> c.token, owner |-> c.owner, writer |-> FALSE]}
        [] c.kind = "rotate"  -> With([e EXCEPT !.token = c.token])
        [] c.kind = "revoke"  -> c.read \ Of(c.read, c.owner)
        [] c.kind = "grant"   -> With([e EXCEPT !.writer = TRUE])
        [] c.kind = "degrade" -> With([e EXCEPT !.writer = FALSE])

\* What it tells the operator is over.
Ends(c) ==
  LET mine == {e.token : e \in Of(c.read, c.owner)}
  IN  CASE c.kind = "mint" -> {}
        [] c.kind \in {"rotate", "revoke"} -> UNION {RightsOf(token) : token \in mine}
        [] c.kind = "grant" -> {}
        [] c.kind = "degrade" -> mine \X {TRUE}

\* ... and what it gives (back).
Grants(c) == IF c.kind = "grant" THEN {<<First(c.read, c.owner).token, TRUE>>} ELSE {}

\* _save: atomic, durable, and blind to what happened since _load.
Save(o) ==
  LET c == command[o]
  IN  /\ c.kind # "none"
      /\ store' = Written(c)
      /\ readable' = TRUE
      /\ answered' = {}
      /\ withdrawn' = (withdrawn \ Grants(c)) \cup Ends(c)
      /\ lostUpdate' = (lostUpdate \/ store # c.read)
      /\ command' = [command EXCEPT ![o] = [kind |-> "none"]]
      /\ UNCHANGED <<static, index, tokens, commands>>

\* Somebody edits a file by hand: it stops parsing, and is mended.
HandEdit ==
  /\ \/ readable' = ~readable /\ UNCHANGED static
     \/ /\ static # "none"
        /\ static' = IF static = "good" THEN "broken" ELSE "good"
        /\ UNCHANGED readable
  /\ answered' = {}
  /\ UNCHANGED <<store, index, command, tokens, commands, withdrawn, lostUpdate>>

-------------------------------------------------------------------------------
(* The authenticator. *)

\* _reload_claims succeeds: every source parses, and the merge is not empty -- unless
\* an identity provider makes that legitimate.
Loads == readable /\ static # "broken" /\ (AllowEmpty \/ static = "good" \/ store # {})

\* _maybe_reload: the new map, or the last good one.
Reload == index' = IF Loads THEN store ELSE index

\* authenticate_header on a token of the store, valid or not.
Authenticate(token) ==
  /\ Reload
  /\ answered' = {<<token, e.writer>> : e \in {f \in index' : f.token = token}}
  /\ UNCHANGED <<files, command, tokens, commands, withdrawn, lostUpdate>>

TokenNext ==
  \/ \E o \in Operators : \/ \E kind \in Kinds, owner \in Owners : Load(o, kind, owner)
                          \/ Save(o)
  \/ HandEdit
  \/ \E token \in 1 .. tokens : Authenticate(token)

-------------------------------------------------------------------------------
TokenTypeOK ==
  /\ store \subseteq Entries
  /\ readable \in BOOLEAN
  /\ static \in {"none", "good", "broken"}
  /\ index \subseteq Entries
  /\ command \in [Operators ->
       [kind : {"none"}]
         \cup [kind : Kinds, owner : Owners, read : SUBSET Entries, token : 1 .. MaxTokens + 1]]
  /\ tokens \in 0 .. MaxTokens
  /\ commands \in 0 .. MaxCommands
  /\ {answered, withdrawn} \subseteq SUBSET ((1 .. MaxTokens) \X BOOLEAN)
  /\ lostUpdate \in BOOLEAN

\* A right that a finished command took away -- a token revoked or rotated out, a role
\* removed -- is not honoured by any request from then on, unless a token file does not
\* parse (SECURITY.md says so) or a command has written over the work of another one
\* that ran at the same time, which nothing prevents.
RevokedIsRefused ==
  answered \cap withdrawn # {} => ~readable \/ static = "broken" \/ lostUpdate
===============================================================================

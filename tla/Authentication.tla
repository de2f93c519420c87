---------------------------- MODULE Authentication ----------------------------
(***************************************************************************)
(* Who a request comes from (CompositeAuthenticator in oidc.py): the token *)
(* files answer first, and only a bearer that they do not know and that    *)
(* looks like a signed token reaches the identity provider's keys.         *)
(*                                                                         *)
(* Module TokenStore is the files and those who change them, KeyCache the  *)
(* keys.  Every request, a login through the provider too, makes the       *)
(* server follow the token files.                                          *)
(***************************************************************************)
EXTENDS TokenStore, KeyCache

CONSTANT MaxWork   \* commands and logins, taken together

ASSUME WorkAssumption == MaxWork \in Nat

VARIABLE logins

vars == <<tokenVars, keyVars, logins>>

Init == TokenInit /\ KeyInit /\ logins = 0

\* The files do not know the bearer, which looks like a signed token.
Login(t, kid) ==
  /\ AllowEmpty
  /\ commands + logins < MaxWork
  /\ logins' = logins + 1
  /\ Reload
  /\ answered' = {}
  /\ Ask(t, kid)
  /\ UNCHANGED <<files, command, tokens, commands, withdrawn, lostUpdate>>

Next ==
  \/ /\ TokenNext
     /\ commands' + logins <= MaxWork
     /\ UNCHANGED <<keyVars, logins>>
  \/ \E t \in Threads, kid \in Kids \cup {NoKid} : Login(t, kid)
  \/ KeyNext /\ UNCHANGED <<tokenVars, logins>>

Spec == Init /\ [][Next]_vars

-------------------------------------------------------------------------------
TypeOK == TokenTypeOK /\ KeyTypeOK /\ logins \in 0 .. MaxWork
===============================================================================

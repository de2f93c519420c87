------------------------- MODULE AuthenticationProofs -------------------------
(***************************************************************************)
(* Proofs about Authentication: the token store and the provider's keys    *)
(* change in steps of their own, so each has an invariant of its own, and  *)
(* the invariant of the specification is both.                             *)
(***************************************************************************)
EXTENDS Authentication, TLAPS

-------------------------------------------------------------------------------
(* The invariants. *)

\* What a command still has to write is one change to an owner it is for.
Pending(o) == command[o].kind # "none"
Makes(o) == command[o].kind \in {"mint", "rotate"}
Meant(c) == c.kind = "mint" <=> Of(c.read, c.owner) = {}

\* A token about to be written is new: it is in no entry, was never taken away, and is
\* nobody else's.
Fresh(o) ==
  /\ \A e \in store : e.token # command[o].token
  /\ \A right \in withdrawn : right[1] # command[o].token
  /\ \A p \in Operators \ {o} : Makes(p) => command[p].token # command[o].token

\* As long as no command has written over the work of another, the store has one token
\* per owner, one owner per token, and no right that was taken away.
StoreInOrder ==
  /\ \A e, f \in store : e.owner = f.owner \/ e.token = f.token => e = f
  /\ \A e \in store :
       /\ e.token <= tokens
       /\ <<e.token, FALSE>> \notin withdrawn
       /\ e.writer => <<e.token, TRUE>> \notin withdrawn
  /\ \A right \in withdrawn : right[1] <= tokens
  /\ \A o \in Operators : Makes(o) => Fresh(o)

TokenInv ==
  /\ AllowEmpty \/ static # "none"
  /\ \A o \in Operators : Pending(o) => Meant(command[o])
  /\ \A o \in Operators : Makes(o) => command[o].token <= tokens
  /\ lostUpdate \/ StoreInOrder

\* No login is from the future.
OnTime == \A t \in Threads : login[t].step # "idle" => login[t].now <= clock

\* Two looks at the clock with more than a cool-down between them.
Apart(m, n) == m > n + Cooldown \/ n > m + Cooldown

\* The logins that fetch, and the one whose keys are in use, claimed their attempts more
\* than a cool-down apart.
Claims ==
  /\ claimed <= lastAttempt
  /\ \A t \in Fetching : login[t].now <= lastAttempt /\ Apart(login[t].now, claimed)
  /\ \A t, u \in Fetching : t # u => Apart(login[t].now, login[u].now)

\* The provider answers while the fetch is under way.
Underway ==
  \A t \in Threads : login[t].step = "store" =>
    login[t].now <= login[t].at /\ login[t].at <= clock

\* The keys in use were given while they were fetched; they were stored after the last
\* attempt was claimed, unless it came to nothing or is still under way.
InUse ==
  /\ claimed <= asked /\ asked <= fetchedAt
  /\ fetchedAt <= clock /\ lastAttempt <= clock
  /\ Fetching = {} => failing \/ fetchedAt >= lastAttempt

\* What KeysAgeOut says of a login, from its decision on.
Aged ==
  \A t \in Threads : login[t].step = "pick" =>
    fetchedAt >= login[t].now - Lifetime \/ failing \/ login[t].busy

KeyInv == OnTime /\ Claims /\ Underway /\ InUse /\ Aged

StoreInv == TokenTypeOK /\ TokenInv /\ RevokedIsRefused
LoginInv == KeyTypeOK /\ KeyInv
AInv == StoreInv /\ LoginInv /\ logins \in 0 .. MaxWork

-------------------------------------------------------------------------------
(* The token store. *)

\* The entry that rotate and role change is one of the owner's.
LEMMA FirstIsOne ==
  ASSUME NEW entries, NEW owner, Of(entries, owner) # {}
  PROVE  /\ First(entries, owner) \in entries
         /\ First(entries, owner).owner = owner
  BY DEF First, Of, Matches

\* A command that has read the file holds what it was told to do, and the entries.
LEMMA PendingIsTyped ==
  ASSUME TokenTypeOK, NEW o \in Operators, Pending(o)
  PROVE  command[o] \in [kind : Kinds, owner : Owners, read : SUBSET Entries,
                         token : 1 .. MaxTokens + 1]
  BY DEF TokenTypeOK, Pending

\* Reading the file changes nothing in it, and promises a token that is new.
LEMMA LoadKeeps ==
  ASSUME StoreInv, NEW o \in Operators, NEW kind \in Kinds, NEW owner \in Owners,
         Load(o, kind, owner)
  PROVE  StoreInv'
<1>1. CASE ~(readable /\ Accepts(kind, owner))
  <2>1. UNCHANGED <<files, index, command, tokens, withdrawn, lostUpdate>> /\ answered' = {}
    BY <1>1 DEF Load
  <2>2. TokenTypeOK'
    BY <2>1, TokenAssumption DEF StoreInv, TokenTypeOK, Load, files
  <2>3. TokenInv'
    BY <2>1 DEF StoreInv, TokenInv, StoreInOrder, Fresh, Pending, Makes, files
  <2> QED BY <2>1, <2>2, <2>3 DEF StoreInv, RevokedIsRefused
<1>2. CASE readable /\ Accepts(kind, owner)
  <2> DEFINE c == [kind |-> kind, owner |-> owner, read |-> store, token |-> tokens + 1]
  <2>1. /\ command' = [command EXCEPT ![o] = c]
        /\ tokens' = IF kind \in {"mint", "rotate"} THEN tokens + 1 ELSE tokens
        /\ UNCHANGED <<files, index, withdrawn, lostUpdate>>
        /\ answered' = {}
    BY <1>2 DEF Load
  <2>2. tokens \in Nat /\ MaxTokens \in Nat /\ tokens <= MaxTokens
    BY TokenAssumption DEF StoreInv, TokenTypeOK
  <2>3. tokens' \in 0 .. MaxTokens /\ tokens <= tokens'
    BY <2>1, <2>2 DEF Load
  <2>4. \A p \in Operators : command'[p] = IF p = o THEN c ELSE command[p]
    BY <2>1 DEF StoreInv, TokenTypeOK
  <2>5. TokenTypeOK'
    <3>1. c \in [kind : Kinds, owner : Owners, read : SUBSET Entries, token : 1 .. MaxTokens + 1]
      BY <2>2 DEF StoreInv, TokenTypeOK
    <3> HIDE DEF c
    <3>2. commands' \in 0 .. MaxCommands
      BY TokenAssumption DEF StoreInv, TokenTypeOK, Load
    <3> QED BY <2>1, <2>3, <3>1, <3>2 DEF StoreInv, TokenTypeOK, files
  <2>6. \A p \in Operators : Pending(p)' => Meant(command[p])'
    BY <2>4, <1>2 DEF StoreInv, TokenInv, Pending, Meant, Accepts
  <2>7. \A p \in Operators : Makes(p)' => (command[p].token <= tokens)'
    <3> SUFFICES ASSUME NEW p \in Operators, Makes(p)'
                 PROVE  command'[p].token <= tokens'
      OBVIOUS
    <3>1. CASE p = o
      BY <3>1, <2>1, <2>2, <2>4 DEF Makes
    <3>2. CASE p # o
      <4>1. Makes(p) /\ command'[p] = command[p]
        BY <3>2, <2>4 DEF Makes
      <4>2. command[p].token \in Nat
        BY <4>1, PendingIsTyped DEF StoreInv, Makes, Pending
      <4> QED BY <4>1, <4>2, <2>2, <2>3 DEF StoreInv, TokenInv
    <3> QED BY <3>1, <3>2
  <2>8. ASSUME ~lostUpdate PROVE StoreInOrder'
    <3>1. StoreInOrder
      BY <2>8 DEF StoreInv, TokenInv
    <3>2. \A e \in store : e.token \in Nat
      BY DEF StoreInv, TokenTypeOK, Entries
    <3>3. \A right \in withdrawn : right[1] \in Nat
      BY DEF StoreInv, TokenTypeOK
    <3>4. /\ \A e \in store' : e.token <= tokens'
          /\ \A right \in withdrawn' : right[1] <= tokens'
      <4>1. \A n \in Nat : n <= tokens => n <= tokens'
        BY <2>2, <2>3
      <4>2. store' = store /\ withdrawn' = withdrawn
        BY <2>1 DEF files
      <4>3. \A e \in store : e.token <= tokens
        BY <3>1 DEF StoreInOrder
      <4>4. \A right \in withdrawn : right[1] <= tokens
        BY <3>1 DEF StoreInOrder
      <4> QED BY <4>1, <4>2, <4>3, <4>4, <3>2, <3>3
    <3>5. ASSUME NEW p \in Operators, Makes(p)' PROVE Fresh(p)'
      <4>1. CASE p = o
        <5>1. command'[p].token = tokens + 1
          BY <4>1, <2>4
        <5>2. \A q \in Operators \ {o} : Makes(q)' =>
                 command'[q] = command[q] /\ command[q].token \in Nat /\ command[q].token <= tokens
          BY <2>4, PendingIsTyped DEF StoreInv, TokenInv, Makes, Pending
        <5>3. \A n \in Nat : n <= tokens => n # tokens + 1
          BY <2>2
        <5>4. \A e \in store : e.token # tokens + 1
          BY <5>3, <3>1, <3>2 DEF StoreInOrder
        <5>5. \A right \in withdrawn : right[1] # tokens + 1
          BY <5>3, <3>1, <3>3 DEF StoreInOrder
        <5>6. \A q \in Operators \ {o} : Makes(q)' => command'[q].token # tokens + 1
          BY <5>2, <5>3
        <5> QED BY <4>1, <5>1, <5>4, <5>5, <5>6, <2>1 DEF Fresh, files
      <4>2. CASE p # o
        <5>1. Makes(p) /\ command'[p] = command[p]
          BY <4>2, <3>5, <2>4 DEF Makes
        <5>2. command[p].token \in Nat /\ command[p].token <= tokens
          BY <5>1, PendingIsTyped DEF StoreInv, TokenInv, Makes, Pending
        <5>3. \A q \in Operators \ {p} : Makes(q)' => command'[q].token # command'[p].token
          <6> TAKE q \in Operators \ {p}
          <6>1. CASE q = o
            BY <6>1, <5>1, <5>2, <2>2, <2>4
          <6>2. CASE q # o
            BY <6>2, <5>1, <2>4, <3>1 DEF StoreInOrder, Fresh, Makes
          <6> QED BY <6>1, <6>2
        <5> QED BY <5>1, <5>3, <2>1, <3>1 DEF Fresh, StoreInOrder, files
      <4> QED BY <4>1, <4>2
    <3> QED BY <3>1, <3>4, <3>5, <2>1 DEF StoreInOrder, files
  <2>9. TokenInv'
    BY <2>1, <2>6, <2>7, <2>8 DEF StoreInv, TokenInv, files
  <2> QED BY <2>1, <2>5, <2>9 DEF StoreInv, RevokedIsRefused
<1> QED BY <1>1, <1>2

\* An entry goes, and another may come in its place: the token that comes is new or was
\* the one that went, its owner has no other, and only rights of what went are taken away.
Exchange(o, gone, came) ==
  /\ tokens' = tokens
  /\ \A p \in Operators : Makes(p)' => p # o /\ Makes(p) /\ command'[p] = command[p]
  /\ gone \subseteq store
  /\ store' = (store \ gone) \cup came
  /\ \A e, f \in came : e = f
  /\ \A e \in came :
       /\ e.token <= tokens
       /\ <<e.token, FALSE>> \notin withdrawn'
       /\ e.writer => <<e.token, TRUE>> \notin withdrawn'
       /\ \A f \in store \ gone : f.owner # e.owner /\ f.token # e.token
       /\ \A p \in Operators \ {o} : Makes(p) => command[p].token # e.token
  /\ \A right \in withdrawn' : right \in withdrawn \/ \E e \in gone : right[1] = e.token

\* Such an exchange leaves the store in order.
LEMMA OrderKept ==
  ASSUME StoreInOrder, NEW o \in Operators, NEW gone, NEW came, Exchange(o, gone, came)
  PROVE  StoreInOrder'
<1> USE DEF Exchange
<1>1. \A e, f \in store' : e.owner = f.owner \/ e.token = f.token => e = f
  <2>1. \A e, f \in store \ gone : e.owner = f.owner \/ e.token = f.token => e = f
    BY DEF StoreInOrder
  <2>2. \A e \in came, f \in store \ gone : f.owner # e.owner /\ f.token # e.token
    OBVIOUS
  <2>3. \A e, f \in came : e = f
    OBVIOUS
  <2>4. store' = (store \ gone) \cup came
    OBVIOUS
  <2> HIDE DEF Exchange
  <2> QED BY <2>1, <2>2, <2>3, <2>4
<1>2. ASSUME NEW e \in store'
      PROVE  /\ e.token <= tokens
             /\ <<e.token, FALSE>> \notin withdrawn'
             /\ e.writer => <<e.token, TRUE>> \notin withdrawn'
  <2>1. CASE e \in came
    BY <2>1
  <2>2. CASE e \in store \ gone
    <3>1. \A g \in gone : g.token # e.token
      BY <2>2 DEF StoreInOrder
    <3>2. \A w \in BOOLEAN : <<e.token, w>> \in withdrawn' => <<e.token, w>> \in withdrawn
      BY <3>1
    <3> QED BY <2>2, <3>2 DEF StoreInOrder
  <2> QED BY <2>1, <2>2
<1>3. \A right \in withdrawn' : right[1] <= tokens
  BY DEF StoreInOrder
<1>4. ASSUME NEW p \in Operators, Makes(p)' PROVE Fresh(p)'
  <2>1. p # o /\ Fresh(p) /\ command'[p] = command[p]
    BY <1>4 DEF StoreInOrder
  <2>2. \A e \in store' : e.token # command[p].token
    BY <2>1, <1>4 DEF Fresh
  <2>3. \A right \in withdrawn' : right[1] # command[p].token
    BY <2>1 DEF Fresh
  <2>4. \A q \in Operators \ {p} : Makes(q)' => command'[q].token # command'[p].token
    BY <2>1 DEF Fresh
  <2> QED BY <2>1, <2>2, <2>3, <2>4 DEF Fresh
<1> QED BY <1>1, <1>2, <1>3, <1>4 DEF StoreInOrder

\* A command writes entries, and ends and gives rights of them.
LEMMA WritesAreTyped ==
  ASSUME StoreInv, NEW o \in Operators, Pending(o)
  PROVE  /\ Written(command[o]) \subseteq Entries
         /\ Ends(command[o]) \subseteq (1 .. MaxTokens) \X BOOLEAN
<1> DEFINE c == command[o]
           m == First(c.read, c.owner)
<1>1. /\ c.kind \in Kinds /\ c.owner \in Owners /\ c.read \subseteq Entries
      /\ c.token \in 1 .. MaxTokens + 1
  BY PendingIsTyped DEF StoreInv
<1>2. c.kind \in {"mint", "rotate"} => c.token \in 1 .. MaxTokens
  BY <1>1, TokenAssumption DEF StoreInv, TokenInv, TokenTypeOK, Makes
<1>3. c.kind # "mint" => m \in Entries
  BY <1>1, FirstIsOne DEF StoreInv, TokenInv, Meant
<1>4. {e.token : e \in Of(c.read, c.owner)} \subseteq 1 .. MaxTokens
  BY <1>1 DEF Of, Entries
<1>5. Ends(c) \subseteq (1 .. MaxTokens) \X BOOLEAN
  <2> DEFINE mine == {e.token : e \in Of(c.read, c.owner)}
  <2>1. CASE c.kind \in {"mint", "grant"}
    BY <2>1 DEF Ends
  <2>2. CASE c.kind \in {"rotate", "revoke"}
    <3>1. Ends(c) = UNION {RightsOf(token) : token \in mine}
      BY <2>2 DEF Ends
    <3> HIDE DEF mine
    <3>2. mine \subseteq 1 .. MaxTokens
      BY <1>4 DEF mine
    <3> QED BY <3>1, <3>2 DEF RightsOf
  <2>3. CASE c.kind = "degrade"
    <3>1. Ends(c) = mine \X {TRUE}
      BY <2>3 DEF Ends
    <3> HIDE DEF mine
    <3>2. mine \subseteq 1 .. MaxTokens
      BY <1>4 DEF mine
    <3> QED BY <3>1, <3>2
  <2> QED BY <2>1, <2>2, <2>3, <1>1 DEF Kinds
<1>6. Written(c) \subseteq Entries
  <2>1. CASE c.kind = "mint"
    <3>1. Written(c) = c.read \cup {[token |-> c.token, owner |-> c.owner, writer |-> FALSE]}
      BY <2>1 DEF Written
    <3>2. [token |-> c.token, owner |-> c.owner, writer |-> FALSE] \in Entries
      BY <2>1, <1>1, <1>2 DEF Entries
    <3> QED BY <3>1, <3>2, <1>1
  <2>2. CASE c.kind = "revoke"
    <3>1. Written(c) = c.read \ Of(c.read, c.owner)
      BY <2>2 DEF Written
    <3> QED BY <3>1, <1>1
  <2>3. CASE c.kind \in {"rotate", "grant", "degrade"}
    <3>1. [m EXCEPT !.token = c.token] \in Entries \/ c.kind # "rotate"
      <4> HIDE DEF m
      <4> QED BY <2>3, <1>2, <1>3 DEF Entries
    <3>2. [m EXCEPT !.writer = TRUE] \in Entries /\ [m EXCEPT !.writer = FALSE] \in Entries
      <4> HIDE DEF m
      <4> QED BY <2>3, <1>3 DEF Entries
    <3>3. PICK new \in Entries : Written(c) = (c.read \ {m}) \cup {new}
      <4>1. CASE c.kind = "rotate"
        BY <4>1, <3>1 DEF Written
      <4>2. CASE c.kind = "grant"
        BY <4>2, <3>2 DEF Written
      <4>3. CASE c.kind = "degrade"
        BY <4>3, <3>2 DEF Written
      <4> QED BY <2>3, <4>1, <4>2, <4>3
    <3> HIDE DEF m
    <3> QED BY <1>1, <3>3
  <2> QED BY <2>1, <2>2, <2>3, <1>1 DEF Kinds
<1> QED BY <1>5, <1>6

\* Writing the file keeps it in order, unless it writes over what another wrote.
LEMMA SaveKeeps ==
  ASSUME StoreInv, NEW o \in Operators, Save(o)
  PROVE  StoreInv'
<1> DEFINE c == command[o]
           m == First(c.read, c.owner)
<1>1. /\ c.kind \in Kinds /\ c.owner \in Owners /\ c.read \subseteq Entries
      /\ c.token \in 1 .. MaxTokens + 1 /\ Meant(c) /\ Pending(o)
  BY PendingIsTyped DEF StoreInv, TokenInv, Save, Pending
<1>2. /\ store' = Written(c)
      /\ withdrawn' = (withdrawn \ Grants(c)) \cup Ends(c)
      /\ lostUpdate' = (lostUpdate \/ store # c.read)
      /\ readable' = TRUE /\ answered' = {}
      /\ UNCHANGED <<static, index, tokens, commands>>
      /\ command' = [command EXCEPT ![o] = [kind |-> "none"]]
  BY DEF Save
<1>3. \A p \in Operators :
        command'[p] = IF p = o THEN [kind |-> "none"] ELSE command[p]
  BY <1>2 DEF StoreInv, TokenTypeOK
<1>4. TokenTypeOK'
  <2>1. Written(c) \subseteq Entries /\ Ends(c) \subseteq (1 .. MaxTokens) \X BOOLEAN
    BY <1>1, WritesAreTyped
  <2>2. lostUpdate' \in BOOLEAN
    BY <1>2 DEF StoreInv, TokenTypeOK
  <2>3. {answered', withdrawn'} \subseteq SUBSET ((1 .. MaxTokens) \X BOOLEAN)
    BY <1>2, <2>1 DEF StoreInv, TokenTypeOK
  <2>4. command' \in [Operators ->
          [kind : {"none"}]
            \cup [kind : Kinds, owner : Owners, read : SUBSET Entries,
                  token : 1 .. MaxTokens + 1]]
    BY <1>2 DEF StoreInv, TokenTypeOK
  <2> HIDE DEF c
  <2> QED BY <1>2, <2>1, <2>2, <2>3, <2>4 DEF StoreInv, TokenTypeOK
<1>5. \A p \in Operators :
        /\ Pending(p)' => p # o /\ Pending(p) /\ command'[p] = command[p]
        /\ Makes(p)' => p # o /\ Makes(p) /\ command'[p] = command[p]
  BY <1>3 DEF Pending, Makes
<1>6. ASSUME ~lostUpdate' PROVE StoreInOrder'
  <2>1. StoreInOrder /\ store = c.read
    BY <1>2, <1>6 DEF StoreInv, TokenInv
  <2>2. c.kind # "mint" => m \in store /\ m \in Entries /\ m.owner = c.owner /\ Of(store, c.owner) = {m}
    <3>1. c.kind # "mint" => m \in store /\ m.owner = c.owner
      BY <1>1, <2>1, FirstIsOne DEF Meant
    <3> QED BY <3>1, <2>1, <1>1 DEF Of, Matches, StoreInOrder
  <2>3. c.kind \in {"mint", "rotate"} =>
          /\ c.token <= tokens
          /\ \A e \in store : e.token # c.token
          /\ \A right \in withdrawn : right[1] # c.token
          /\ \A p \in Operators \ {o} : Makes(p) => command[p].token # c.token
    BY <2>1 DEF StoreInv, TokenInv, StoreInOrder, Fresh, Makes
  <2>4. CASE c.kind = "mint"
    <3> DEFINE n == [token |-> c.token, owner |-> c.owner, writer |-> FALSE]
    <3>1. store' = (store \ {}) \cup {n}
      BY <1>2, <2>1, <2>4 DEF Written
    <3>2. withdrawn' = withdrawn
      BY <1>2, <2>4 DEF Grants, Ends
    <3>3. \A f \in store : f.owner # c.owner
      BY <1>1, <2>1, <2>4 DEF Meant, Of, Matches
    <3>4. <<c.token, FALSE>> \notin withdrawn
      BY <2>3, <2>4
    <3>5. /\ n.token = c.token /\ n.owner = c.owner /\ n.writer = FALSE
      OBVIOUS
    <3> HIDE DEF n, c
    <3>9. Exchange(o, {}, {n})
      BY <1>2, <1>5, <2>1, <2>3, <2>4, <3>1, <3>2, <3>3, <3>4, <3>5 DEF Exchange
    <3> QED BY <2>1, <3>9, OrderKept
  <2>5. CASE c.kind = "rotate"
    <3> DEFINE n == [m EXCEPT !.token = c.token]
    <3>1. store' = (store \ {m}) \cup {n}
      BY <1>2, <2>1, <2>5 DEF Written
    <3>2. withdrawn' = withdrawn \cup RightsOf(m.token)
      <4>1. Grants(c) = {} /\ Ends(c) = UNION {RightsOf(token) : token \in {m.token}}
        BY <2>1, <2>2, <2>5 DEF Grants, Ends
      <4> QED BY <4>1, <1>2
    <3>3. n.token = c.token /\ n.owner = c.owner
      <4> HIDE DEF m
      <4> QED BY <2>2, <2>5 DEF Entries
    <3>4. \A w \in BOOLEAN : <<c.token, w>> \notin withdrawn'
      BY <3>2, <2>2, <2>3, <2>5 DEF RightsOf
    <3>5. \A right \in withdrawn' : right \in withdrawn \/ right[1] = m.token
      BY <3>2 DEF RightsOf
    <3>6. \A f \in store \ {m} : f.owner # c.owner
      BY <2>1, <2>2, <2>5 DEF StoreInOrder
    <3> HIDE DEF n, c, m
    <3>9. Exchange(o, {m}, {n})
      BY <1>2, <1>5, <2>1, <2>2, <2>3, <2>5, <3>1, <3>3, <3>4, <3>5, <3>6 DEF Exchange
    <3> QED BY <2>1, <3>9, OrderKept
  <2>6. CASE c.kind = "revoke"
    <3>1. store' = (store \ {m}) \cup {}
      BY <1>2, <2>1, <2>2, <2>6 DEF Written
    <3>2. withdrawn' = withdrawn \cup RightsOf(m.token)
      <4>1. Grants(c) = {} /\ Ends(c) = UNION {RightsOf(token) : token \in {m.token}}
        BY <2>1, <2>2, <2>6 DEF Grants, Ends
      <4> QED BY <4>1, <1>2
    <3>3. \A right \in withdrawn' : right \in withdrawn \/ right[1] = m.token
      BY <3>2 DEF RightsOf
    <3> HIDE DEF c, m
    <3>9. Exchange(o, {m}, {})
      BY <1>2, <1>5, <2>1, <2>2, <2>6, <3>1, <3>3 DEF Exchange
    <3> QED BY <2>1, <3>9, OrderKept
  <2>7. CASE c.kind = "grant"
    <3> DEFINE n == [m EXCEPT !.writer = TRUE]
    <3>1. store' = (store \ {m}) \cup {n}
      BY <1>2, <2>1, <2>7 DEF Written
    <3>2. withdrawn' = withdrawn \ {<<m.token, TRUE>>}
      BY <1>2, <2>1, <2>7 DEF Grants, Ends
    <3>3. n.token = m.token /\ n.owner = c.owner
      <4> HIDE DEF m
      <4> QED BY <2>2, <2>7 DEF Entries
    <3>4. m.token <= tokens /\ \A w \in BOOLEAN : <<m.token, w>> \notin withdrawn'
      BY <3>2, <2>1, <2>2, <2>7 DEF StoreInOrder
    <3>5. \A f \in store \ {m} : f.owner # c.owner /\ f.token # m.token
      BY <2>1, <2>2, <2>7 DEF StoreInOrder
    <3>6. \A p \in Operators : Makes(p) => command[p].token # m.token
      BY <2>1, <2>2, <2>7 DEF StoreInOrder, Fresh
    <3>7. \A right \in withdrawn' : right \in withdrawn
      BY <3>2
    <3> HIDE DEF n, c, m
    <3>9. Exchange(o, {m}, {n})
      BY <1>2, <1>5, <2>1, <2>2, <2>7, <3>1, <3>3, <3>4, <3>5, <3>6, <3>7 DEF Exchange
    <3> QED BY <2>1, <3>9, OrderKept
  <2>8. CASE c.kind = "degrade"
    <3> DEFINE n == [m EXCEPT !.writer = FALSE]
    <3>1. store' = (store \ {m}) \cup {n}
      BY <1>2, <2>1, <2>8 DEF Written
    <3>2. withdrawn' = withdrawn \cup {<<m.token, TRUE>>}
      <4>1. Grants(c) = {} /\ Ends(c) = {m.token} \X {TRUE}
        BY <2>1, <2>2, <2>8 DEF Grants, Ends
      <4> QED BY <4>1, <1>2
    <3>3. n.token = m.token /\ n.owner = c.owner /\ n.writer = FALSE
      <4> HIDE DEF m
      <4> QED BY <2>2, <2>8 DEF Entries
    <3>4. m.token <= tokens /\ <<m.token, FALSE>> \notin withdrawn'
      BY <3>2, <2>1, <2>2, <2>8 DEF StoreInOrder
    <3>5. \A f \in store \ {m} : f.owner # c.owner /\ f.token # m.token
      BY <2>1, <2>2, <2>8 DEF StoreInOrder
    <3>6. \A p \in Operators : Makes(p) => command[p].token # m.token
      BY <2>1, <2>2, <2>8 DEF StoreInOrder, Fresh
    <3>7. \A right \in withdrawn' : right \in withdrawn \/ right[1] = m.token
      <4> HIDE DEF m
      <4>1. SUFFICES ASSUME NEW right \in withdrawn', right \notin withdrawn
                     PROVE  right[1] = m.token
        OBVIOUS
      <4>2. right = <<m.token, TRUE>>
        BY <3>2, <4>1
      <4> QED BY <4>2
    <3> HIDE DEF n, c, m
    <3>9. Exchange(o, {m}, {n})
      BY <1>2, <1>5, <2>1, <2>2, <2>8, <3>1, <3>3, <3>4, <3>5, <3>6, <3>7 DEF Exchange
    <3> QED BY <2>1, <3>9, OrderKept
  <2> QED BY <1>1, <2>4, <2>5, <2>6, <2>7, <2>8 DEF Kinds
<1>7. TokenInv'
  <2>1. \A p \in Operators : Pending(p)' => Meant(command[p])'
    BY <1>5 DEF StoreInv, TokenInv, Meant
  <2> QED BY <2>1, <1>2, <1>5, <1>6 DEF StoreInv, TokenInv
<1> QED BY <1>2, <1>4, <1>7 DEF StoreInv, RevokedIsRefused

\* An edit by hand changes whether a file parses, and nothing a command relies on.
LEMMA HandEditKeeps ==
  ASSUME StoreInv, HandEdit
  PROVE  StoreInv'
<1>1. /\ readable' \in BOOLEAN /\ static' \in {"none", "good", "broken"}
      /\ static = "none" <=> static' = "none"
      /\ answered' = {}
      /\ UNCHANGED <<store, index, command, tokens, commands, withdrawn, lostUpdate>>
  BY DEF HandEdit, StoreInv, TokenTypeOK
<1>2. TokenTypeOK'
  BY <1>1 DEF StoreInv, TokenTypeOK
<1>3. TokenInv'
  BY <1>1 DEF StoreInv, TokenInv, StoreInOrder, Fresh, Pending, Makes
<1> QED BY <1>1, <1>2, <1>3 DEF StoreInv, RevokedIsRefused

\* A request that makes the server follow the files, whoever it comes from.
LEMMA ReloadTypes ==
  ASSUME StoreInv, Reload
  PROVE  index' \subseteq Entries
BY DEF StoreInv, TokenTypeOK, Reload

\* With both files readable and no update lost, the server has the store, and a request
\* is answered by an entry of it.
LEMMA AuthenticateKeeps ==
  ASSUME StoreInv, NEW token, Authenticate(token)
  PROVE  StoreInv'
<1>1. /\ UNCHANGED <<files, command, tokens, commands, withdrawn, lostUpdate>>
      /\ answered' = {<<token, e.writer>> : e \in {f \in index' : f.token = token}}
      /\ Reload
  BY DEF Authenticate
<1>2. TokenTypeOK'
  <2>1. index' \subseteq Entries
    BY <1>1, ReloadTypes
  <2>2. answered' \subseteq (1 .. MaxTokens) \X BOOLEAN
    BY <1>1, <2>1 DEF Entries
  <2> QED BY <1>1, <2>1, <2>2 DEF StoreInv, TokenTypeOK, files
<1>3. TokenInv'
  BY <1>1 DEF StoreInv, TokenInv, StoreInOrder, Fresh, Pending, Makes, files
<1>4. RevokedIsRefused'
  <2>1. SUFFICES ASSUME readable, static # "broken", ~lostUpdate
                 PROVE  answered' \cap withdrawn = {}
    BY <1>1 DEF RevokedIsRefused, files
  <2>2. StoreInOrder
    BY <2>1 DEF StoreInv, TokenInv
  <2>3. index' = store
    BY <1>1, <2>1 DEF Reload, Loads, StoreInv, TokenInv, TokenTypeOK
  <2>4. SUFFICES ASSUME NEW right \in answered' PROVE right \notin withdrawn
    OBVIOUS
  <2>5. PICK e \in store : e.token = token /\ right = <<token, e.writer>>
    BY <1>1, <2>3
  <2>6. e.writer \in BOOLEAN
    BY DEF StoreInv, TokenTypeOK, Entries
  <2>7. CASE e.writer
    <3>1. right = <<e.token, TRUE>>
      BY <2>5, <2>6, <2>7
    <3> QED BY <2>2, <2>7, <3>1 DEF StoreInOrder
  <2>8. CASE ~e.writer
    <3>1. right = <<e.token, FALSE>>
      BY <2>5, <2>6, <2>8
    <3> QED BY <2>2, <3>1 DEF StoreInOrder
  <2> QED BY <2>7, <2>8
<1> QED BY <1>2, <1>3, <1>4 DEF StoreInv

\* A login through the provider reloads the files, and answers with no right of theirs.
LEMMA LoginKeepsStore ==
  ASSUME StoreInv, NEW t, NEW kid, Login(t, kid)
  PROVE  StoreInv'
<1>1. /\ UNCHANGED <<files, command, tokens, commands, withdrawn, lostUpdate>>
      /\ answered' = {} /\ Reload
  BY DEF Login
<1>2. TokenTypeOK'
  BY <1>1, ReloadTypes DEF StoreInv, TokenTypeOK, files
<1>3. TokenInv'
  BY <1>1 DEF StoreInv, TokenInv, StoreInOrder, Fresh, Pending, Makes, files
<1> QED BY <1>1, <1>2, <1>3 DEF StoreInv, RevokedIsRefused

\* Nothing of the store depends on anything else.
LEMMA StoreKept ==
  ASSUME StoreInv, UNCHANGED tokenVars
  PROVE  StoreInv'
<1>1. UNCHANGED <<store, readable, static, index, command, tokens, commands, answered,
                  withdrawn, lostUpdate>>
  BY DEF tokenVars, files
<1> QED
  BY <1>1 DEF StoreInv, TokenTypeOK, TokenInv, StoreInOrder, Fresh, Pending, Makes,
              RevokedIsRefused

LEMMA TokenNextKeeps ==
  ASSUME StoreInv, TokenNext
  PROVE  StoreInv'
BY LoadKeeps, SaveKeeps, HandEditKeeps, AuthenticateKeeps DEF TokenNext

-------------------------------------------------------------------------------
(* The identity provider's keys. *)

\* What a login holds at each of its steps, and the numbers the invariant compares.
LEMMA LoginIsTyped ==
  ASSUME KeyTypeOK
  PROVE  /\ {clock, asked, claimed, fetchedAt, lastAttempt, Ttl, Cooldown, MaxClock} \subseteq Nat
         /\ \A t \in Threads :
              /\ login[t].step \in {"idle", "decide", "fetch", "store", "pick"}
              /\ login[t].step # "idle" =>
                   login[t].now \in 0 .. MaxClock /\ login[t].kid \in Kids \cup {NoKid}
              /\ login[t].step \in {"fetch", "store", "pick"} => login[t].busy \in BOOLEAN
              /\ login[t].step = "store" =>
                   login[t].at \in 0 .. MaxClock /\ login[t].got \in SUBSET Kids
<1>1. {clock, asked, claimed, fetchedAt, lastAttempt, Ttl, Cooldown, MaxClock} \subseteq Nat
  BY KeyAssumption DEF KeyTypeOK
<1>2. ASSUME NEW t \in Threads
      PROVE  /\ login[t].step \in {"idle", "decide", "fetch", "store", "pick"}
             /\ login[t].step # "idle" =>
                  login[t].now \in 0 .. MaxClock /\ login[t].kid \in Kids \cup {NoKid}
             /\ login[t].step \in {"fetch", "store", "pick"} => login[t].busy \in BOOLEAN
             /\ login[t].step = "store" =>
                  login[t].at \in 0 .. MaxClock /\ login[t].got \in SUBSET Kids
  <2> DEFINE l == login[t]
  <2>1. \/ l \in [step : {"idle"}]
        \/ l \in [step : {"decide"}, kid : Kids \cup {NoKid}, now : 0 .. MaxClock]
        \/ l \in [step : {"fetch", "pick"}, kid : Kids \cup {NoKid}, now : 0 .. MaxClock,
                  busy : BOOLEAN]
        \/ l \in [step : {"store"}, kid : Kids \cup {NoKid}, now : 0 .. MaxClock,
                  busy : BOOLEAN, got : SUBSET Kids, at : 0 .. MaxClock]
    BY DEF KeyTypeOK
  <2> HIDE DEF l
  <2>2. /\ l.step \in {"idle", "decide", "fetch", "store", "pick"}
        /\ l.step # "idle" => l.now \in 0 .. MaxClock /\ l.kid \in Kids \cup {NoKid}
        /\ l.step \in {"fetch", "store", "pick"} => l.busy \in BOOLEAN
        /\ l.step = "store" => l.at \in 0 .. MaxClock /\ l.got \in SUBSET Kids
    BY <2>1
  <2> QED BY <2>2 DEF l
<1> QED BY <1>1, <1>2

\* A login begins: it has just looked at the clock.
LEMMA AskKeeps ==
  ASSUME LoginInv, NEW t \in Threads, NEW kid \in Kids \cup {NoKid}, Ask(t, kid)
  PROVE  LoginInv'
<1> DEFINE l == [step |-> "decide", kid |-> kid, now |-> clock]
<1>1. /\ login[t].step = "idle" /\ login' = [login EXCEPT ![t] = l]
      /\ UNCHANGED <<clock, published, keys, asked, claimed, fetchedAt, lastAttempt, failing>>
  BY DEF Ask
<1>2. KeyTypeOK'
  <2>1. l \in [step : {"decide"}, kid : Kids \cup {NoKid}, now : 0 .. MaxClock]
    BY DEF LoginInv, KeyTypeOK
  <2> HIDE DEF l
  <2> QED BY <1>1, <2>1 DEF LoginInv, KeyTypeOK
<1>3. \A u \in Threads : login'[u] = IF u = t THEN l ELSE login[u]
  BY <1>1 DEF LoginInv, KeyTypeOK
<1>4. Fetching' = Fetching
  BY <1>1, <1>3 DEF Fetching
<1>5. OnTime'
  BY <1>1, <1>3, LoginIsTyped DEF LoginInv, KeyInv, OnTime
<1>6. Claims' /\ InUse' /\ Underway' /\ Aged'
  BY <1>1, <1>3, <1>4 DEF LoginInv, KeyInv, Claims, Fetching, InUse, Underway, Aged
<1> QED BY <1>2, <1>5, <1>6 DEF LoginInv, KeyInv

\* A login decides: if it is the one to fetch, the last attempt was more than a cool-down
\* ago; if not, the keys are no older than KeysAgeOut says.
LEMMA DecideKeeps ==
  ASSUME LoginInv, NEW t \in Threads, Decide(t)
  PROVE  LoginInv'
<1> DEFINE step == IF Mine(login[t]) THEN "fetch" ELSE "pick"
           l == [step |-> step, kid |-> login[t].kid, now |-> login[t].now,
                 busy |-> Fetching # {}]
<1>0. l.step = step /\ l.now = login[t].now /\ l.busy = (Fetching # {})
  <2>1. l.step = step /\ l.now = login[t].now
    OBVIOUS
  <2>2. l.busy = (Fetching # {})
    BY Zenon
  <2> QED BY <2>1, <2>2
<1>1. /\ login[t].step = "decide"
      /\ login' = [login EXCEPT ![t] = l]
      /\ lastAttempt' = IF Mine(login[t]) THEN login[t].now ELSE lastAttempt
      /\ UNCHANGED <<clock, published, keys, asked, claimed, fetchedAt, failing>>
  BY DEF Decide
<1>2. {clock, asked, claimed, fetchedAt, lastAttempt, Ttl, Cooldown, login[t].now} \subseteq Nat
  BY <1>1, LoginIsTyped DEF LoginInv
<1>3. \A u \in Threads : login'[u] = IF u = t THEN l ELSE login[u]
  BY <1>1 DEF LoginInv, KeyTypeOK
<1>4. KeyTypeOK'
  <2>1. l \in [step : {"fetch", "pick"}, kid : Kids \cup {NoKid}, now : 0 .. MaxClock,
               busy : BOOLEAN]
    <3>1. login[t].now \in 0 .. MaxClock /\ login[t].kid \in Kids \cup {NoKid}
      BY <1>1, LoginIsTyped DEF LoginInv
    <3>2. step \in {"fetch", "pick"}
      OBVIOUS
    <3> HIDE DEF step
    <3> QED BY <3>1, <3>2
  <2>2. lastAttempt' \in 0 .. MaxClock
    BY <1>1, LoginIsTyped DEF LoginInv, KeyTypeOK
  <2> HIDE DEF l
  <2> QED BY <1>1, <2>1, <2>2 DEF LoginInv, KeyTypeOK
<1>5. OnTime'
  BY <1>1, <1>3 DEF LoginInv, KeyInv, OnTime
<1>6. Underway'
  BY <1>1, <1>3 DEF LoginInv, KeyInv, Underway
<1>7. login[t].now <= clock
  BY <1>1 DEF LoginInv, KeyInv, OnTime
<1>8. CASE Mine(login[t])
  <2>1. login[t].now - lastAttempt > Cooldown
    BY <1>8 DEF Mine
  <2>2. t \notin Fetching /\ Fetching' = Fetching \cup {t}
    <3>1. login'[t].step = "fetch"
      <4> HIDE DEF l
      <4> QED BY <1>0, <1>3, <1>8
    <3>2. \A u \in Threads : u # t => login'[u] = login[u]
      BY <1>3
    <3> QED BY <1>1, <3>1, <3>2 DEF Fetching
  <2>3. \A u \in Fetching : /\ login'[u] = login[u] /\ login[u].now \in Nat
                            /\ login[u].now <= lastAttempt
    <3>1. \A u \in Fetching : login'[u] = login[u]
      <4> HIDE DEF l
      <4> QED BY <1>3, <2>2 DEF Fetching
    <3>2. \A u \in Fetching : login[u].now \in Nat
      BY LoginIsTyped DEF LoginInv, Fetching
    <3> QED BY <3>1, <3>2 DEF LoginInv, KeyInv, Claims
  <2>4. Claims'
    <3>1. /\ login'[t].now = login[t].now /\ lastAttempt' = login[t].now
          /\ claimed' = claimed /\ claimed <= lastAttempt
      BY <1>0, <1>1, <1>3, <1>8 DEF LoginInv, KeyInv, Claims
    <3>2. \A n \in Nat : n <= lastAttempt => n <= login[t].now /\ Apart(login[t].now, n) /\ Apart(n, login[t].now)
      BY <1>2, <2>1 DEF Apart
    <3>3. Apart(login[t].now, claimed) /\ claimed <= login[t].now
      BY <1>2, <3>1, <3>2
    <3>4. \A u \in Fetching : /\ login'[u].now <= lastAttempt'
                              /\ Apart(login'[u].now, login'[t].now)
                              /\ Apart(login'[t].now, login'[u].now)
                              /\ Apart(login'[u].now, claimed)
      BY <2>3, <3>1, <3>2 DEF LoginInv, KeyInv, Claims
    <3>5. \A u, v \in Fetching : u # v => Apart(login'[u].now, login'[v].now)
      BY <2>3 DEF LoginInv, KeyInv, Claims
    <3>6. login'[t].now <= lastAttempt'
      BY <1>2, <3>1
    <3>7. /\ claimed' <= lastAttempt'
          /\ \A u \in Fetching' : login'[u].now <= lastAttempt' /\ Apart(login'[u].now, claimed')
          /\ \A u, v \in Fetching' : u # v => Apart(login'[u].now, login'[v].now)
      BY <2>2, <3>1, <3>3, <3>4, <3>5, <3>6
    <3> QED BY <3>7 DEF Claims, Apart
  <2>5. InUse'
    BY <1>1, <1>2, <1>7, <1>8, <2>2 DEF LoginInv, KeyInv, InUse
  <2>6. Aged'
    BY <1>1, <1>3, <1>8 DEF LoginInv, KeyInv, Aged
  <2> QED BY <1>4, <1>5, <1>6, <2>4, <2>5, <2>6 DEF LoginInv, KeyInv
<1>9. CASE ~Mine(login[t])
  <2>1. Fetching' = Fetching
    BY <1>1, <1>3, <1>9 DEF Fetching
  <2>2. Claims' /\ InUse'
    BY <1>1, <1>3, <1>9, <2>1 DEF LoginInv, KeyInv, Claims, InUse, Fetching
  <2>3. fetchedAt >= login[t].now - Lifetime \/ failing \/ Fetching # {}
    <3>1. \/ login[t].now - fetchedAt <= Ttl
          \/ login[t].now - lastAttempt <= Cooldown
      BY <1>2, <1>9 DEF Mine, Stale
    <3>2. Fetching = {} => failing \/ fetchedAt >= lastAttempt
      BY DEF LoginInv, KeyInv, InUse
    <3>3. Lifetime \in Nat /\ Ttl <= Lifetime /\ Cooldown <= Lifetime
      BY <1>2 DEF Lifetime
    <3> QED BY <1>2, <3>1, <3>2, <3>3
  <2>4. Aged'
    <3>1. SUFFICES ASSUME NEW u \in Threads, login'[u].step = "pick"
                   PROVE  fetchedAt >= login'[u].now - Lifetime \/ failing \/ login'[u].busy
      BY <1>1 DEF Aged
    <3>2. CASE u # t
      BY <1>3, <3>1, <3>2 DEF LoginInv, KeyInv, Aged
    <3>3. CASE u = t
      <4>1. login'[t].now = login[t].now /\ login'[t].busy = (Fetching # {})
        <5> HIDE DEF l
        <5> QED BY <1>0, <1>3, Zenon
      <4>2. CASE Fetching # {}
        BY <3>3, <4>1, <4>2, Zenon
      <4>3. CASE Fetching = {}
        BY <2>3, <3>3, <4>1, <4>3
      <4> QED BY <4>2, <4>3
    <3> QED BY <3>2, <3>3
  <2> QED BY <1>4, <1>5, <1>6, <2>2, <2>4 DEF LoginInv, KeyInv
<1> QED BY <1>8, <1>9

\* The provider answers a login that fetches.
LEMMA FetchKeeps ==
  ASSUME LoginInv, NEW t \in Threads, Fetch(t)
  PROVE  LoginInv'
<1> DEFINE l == [step |-> "store", kid |-> login[t].kid, now |-> login[t].now,
                 busy |-> login[t].busy, got |-> published, at |-> clock]
<1>1. /\ login[t].step = "fetch"
      /\ login' = [login EXCEPT ![t] = l]
      /\ UNCHANGED <<clock, published, keys, asked, claimed, fetchedAt, lastAttempt, failing>>
  BY DEF Fetch
<1>2. \A u \in Threads : login'[u] = IF u = t THEN l ELSE login[u]
  BY <1>1 DEF LoginInv, KeyTypeOK
<1>3. KeyTypeOK'
  <2>1. l \in [step : {"store"}, kid : Kids \cup {NoKid}, now : 0 .. MaxClock,
               busy : BOOLEAN, got : SUBSET Kids, at : 0 .. MaxClock]
    <3>1. /\ login[t].now \in 0 .. MaxClock /\ login[t].kid \in Kids \cup {NoKid}
          /\ login[t].busy \in BOOLEAN
      BY <1>1, LoginIsTyped DEF LoginInv
    <3> QED BY <3>1 DEF LoginInv, KeyTypeOK
  <2> HIDE DEF l
  <2> QED BY <1>1, <2>1 DEF LoginInv, KeyTypeOK
<1>4. Fetching' = Fetching
  BY <1>1, <1>2 DEF Fetching
<1>5. OnTime'
  BY <1>1, <1>2 DEF LoginInv, KeyInv, OnTime
<1>6. Claims'
  BY <1>1, <1>2, <1>4 DEF LoginInv, KeyInv, Claims, Apart
<1>7. login[t].now <= clock /\ clock <= clock
  BY <1>1, LoginIsTyped DEF LoginInv, KeyInv, OnTime
<1>8. Underway'
  BY <1>1, <1>2, <1>7 DEF LoginInv, KeyInv, Underway
<1>9. InUse' /\ Aged'
  BY <1>1, <1>2, <1>4 DEF LoginInv, KeyInv, InUse, Aged
<1> QED BY <1>3, <1>5, <1>6, <1>8, <1>9 DEF LoginInv, KeyInv

\* A fetch that comes to nothing leaves the keys as they are, and says so.
LEMMA FetchFailsKeeps ==
  ASSUME LoginInv, NEW t \in Threads, FetchFails(t)
  PROVE  LoginInv'
<1> DEFINE l == [login[t] EXCEPT !.step = "pick"]
<1>1. /\ login[t].step = "fetch" /\ failing' = TRUE
      /\ login' = [login EXCEPT ![t] = l]
      /\ UNCHANGED <<clock, published, keys, asked, claimed, fetchedAt, lastAttempt>>
  BY DEF FetchFails, LoginInv, KeyTypeOK
<1>2. \A u \in Threads : login'[u] = IF u = t THEN l ELSE login[u]
  BY <1>1 DEF LoginInv, KeyTypeOK
<1>3. login[t] \in [step : {"fetch", "pick"}, kid : Kids \cup {NoKid}, now : 0 .. MaxClock,
                    busy : BOOLEAN]
  <2> DEFINE r == login[t]
  <2>1. \/ r \in [step : {"idle"}]
        \/ r \in [step : {"decide"}, kid : Kids \cup {NoKid}, now : 0 .. MaxClock]
        \/ r \in [step : {"fetch", "pick"}, kid : Kids \cup {NoKid}, now : 0 .. MaxClock,
                  busy : BOOLEAN]
        \/ r \in [step : {"store"}, kid : Kids \cup {NoKid}, now : 0 .. MaxClock,
                  busy : BOOLEAN, got : SUBSET Kids, at : 0 .. MaxClock]
    BY DEF LoginInv, KeyTypeOK
  <2>2. r.step = "fetch"
    BY <1>1
  <2> HIDE DEF r
  <2>3. r \in [step : {"fetch", "pick"}, kid : Kids \cup {NoKid}, now : 0 .. MaxClock,
               busy : BOOLEAN]
    BY <2>1, <2>2
  <2> QED BY <2>3 DEF r
<1>4. /\ l \in [step : {"fetch", "pick"}, kid : Kids \cup {NoKid}, now : 0 .. MaxClock,
                busy : BOOLEAN]
      /\ l.step = "pick" /\ l.now = login[t].now
  <2> DEFINE r == login[t]
  <2> HIDE DEF r
  <2>1. r \in [step : {"fetch", "pick"}, kid : Kids \cup {NoKid}, now : 0 .. MaxClock,
               busy : BOOLEAN]
    BY <1>3 DEF r
  <2>2. /\ [r EXCEPT !.step = "pick"] \in
             [step : {"fetch", "pick"}, kid : Kids \cup {NoKid}, now : 0 .. MaxClock,
              busy : BOOLEAN]
        /\ [r EXCEPT !.step = "pick"].step = "pick" /\ [r EXCEPT !.step = "pick"].now = r.now
    BY <2>1
  <2> QED BY <2>2 DEF r
<1> HIDE DEF l
<1>5. KeyTypeOK'
  BY <1>1, <1>4 DEF LoginInv, KeyTypeOK
<1>6. Fetching' = Fetching \ {t}
  BY <1>1, <1>2, <1>4 DEF Fetching
<1>7. OnTime' /\ Underway'
  BY <1>1, <1>2, <1>4 DEF LoginInv, KeyInv, OnTime, Underway
<1>8. Claims'
  <2>1. \A u \in Fetching' : u \in Fetching /\ login'[u] = login[u]
    BY <1>2, <1>6 DEF Fetching
  <2> QED BY <2>1, <1>1 DEF LoginInv, KeyInv, Claims, Apart
<1>9. InUse' /\ Aged'
  BY <1>1 DEF LoginInv, KeyInv, InUse, Aged
<1> QED BY <1>5, <1>7, <1>8, <1>9 DEF LoginInv, KeyInv

\* A login stores what it has: its attempt is a cool-down apart from the others still
\* under way, and what is stored now is young enough for every login that is to pick.
LEMMA StoreKeeps ==
  ASSUME LoginInv, NEW t \in Threads, Store(t)
  PROVE  LoginInv'
<1> DEFINE l == [step |-> "pick", kid |-> login[t].kid, now |-> login[t].now,
                 busy |-> login[t].busy]
<1>1. /\ login[t].step = "store"
      /\ keys' = login[t].got /\ asked' = login[t].at /\ fetchedAt' = clock
      /\ claimed' = login[t].now
      /\ failing' = FALSE
      /\ login' = [login EXCEPT ![t] = l]
      /\ UNCHANGED <<clock, published, lastAttempt>>
  BY DEF Store
<1>2. \A u \in Threads : login'[u] = IF u = t THEN l ELSE login[u]
  BY <1>1 DEF LoginInv, KeyTypeOK
<1>3. /\ login[t].now \in 0 .. MaxClock /\ login[t].kid \in Kids \cup {NoKid}
      /\ login[t].busy \in BOOLEAN
      /\ login[t].at \in 0 .. MaxClock /\ login[t].got \in SUBSET Kids
  BY <1>1, LoginIsTyped DEF LoginInv
<1>4. KeyTypeOK'
  <2>1. l \in [step : {"fetch", "pick"}, kid : Kids \cup {NoKid}, now : 0 .. MaxClock,
               busy : BOOLEAN]
    BY <1>3
  <2> HIDE DEF l
  <2> QED BY <1>1, <1>3, <2>1 DEF LoginInv, KeyTypeOK
<1>5. /\ {clock, Lifetime, lastAttempt, login[t].at, login[t].now} \subseteq Nat
      /\ t \in Fetching
  BY <1>1, <1>3, LoginIsTyped DEF LoginInv, Lifetime, Fetching
<1>6. /\ login[t].now <= login[t].at /\ login[t].at <= clock
      /\ login[t].now <= lastAttempt /\ lastAttempt <= clock
  BY <1>1, <1>5 DEF LoginInv, KeyInv, Claims, Underway, InUse
<1>7. Fetching' = Fetching \ {t} /\ \A u \in Fetching' : u # t /\ login'[u] = login[u]
  BY <1>2 DEF Fetching
<1>8. Claims'
  <2>1. /\ claimed' <= lastAttempt'
        /\ \A u \in Fetching' : login'[u].now <= lastAttempt' /\ Apart(login'[u].now, claimed')
        /\ \A u, v \in Fetching' : u # v => Apart(login'[u].now, login'[v].now)
    BY <1>1, <1>5, <1>6, <1>7 DEF LoginInv, KeyInv, Claims
  <2> QED BY <2>1 DEF Claims, Apart
<1>9. Underway'
  BY <1>1, <1>2 DEF LoginInv, KeyInv, Underway
<1>10. OnTime'
  BY <1>1, <1>2 DEF LoginInv, KeyInv, OnTime
<1>11. InUse'
  BY <1>1, <1>5, <1>6 DEF InUse
<1>12. Aged'
  <2>1. SUFFICES ASSUME NEW u \in Threads, login'[u].step = "pick"
                 PROVE  fetchedAt' >= login'[u].now - Lifetime
    BY DEF Aged
  <2>2. login'[u].now = login[u].now /\ login[u].step # "idle"
    BY <1>1, <1>2, <2>1
  <2>3. login[u].now <= clock /\ login[u].now \in Nat
    BY <2>2, LoginIsTyped DEF LoginInv, KeyInv, OnTime
  <2> QED BY <1>1, <1>5, <2>2, <2>3
<1> QED BY <1>4, <1>8, <1>9, <1>10, <1>11, <1>12 DEF LoginInv, KeyInv

\* A login that has its key, or is refused, is over.
LEMMA PickKeeps ==
  ASSUME LoginInv, NEW t \in Threads, Refuse(t) \/ \E key \in Kids : Pick(t, key)
  PROVE  LoginInv'
<1> DEFINE l == [step |-> "idle"]
<1>1. /\ login[t].step = "pick"
      /\ login' = [login EXCEPT ![t] = l]
      /\ UNCHANGED <<clock, published, keys, asked, claimed, fetchedAt, lastAttempt, failing>>
  BY DEF Pick, Refuse
<1>2. \A u \in Threads : login'[u] = IF u = t THEN l ELSE login[u]
  BY <1>1 DEF LoginInv, KeyTypeOK
<1>3. KeyTypeOK'
  BY <1>1 DEF LoginInv, KeyTypeOK
<1>4. Fetching' = Fetching
  BY <1>1, <1>2 DEF Fetching
<1>5. OnTime' /\ Underway' /\ Aged'
  BY <1>1, <1>2 DEF LoginInv, KeyInv, OnTime, Underway, Aged
<1>6. Claims' /\ InUse'
  BY <1>1, <1>2, <1>4 DEF LoginInv, KeyInv, Claims, InUse, Fetching
<1> QED BY <1>3, <1>5, <1>6 DEF LoginInv, KeyInv

\* Nothing but a fetch looks at what the provider publishes.
LEMMA RotateKeeps ==
  ASSUME LoginInv, NEW kid \in Kids, Rotate(kid)
  PROVE  LoginInv'
<1>1. UNCHANGED <<clock, keys, asked, claimed, fetchedAt, lastAttempt, failing, login>>
  BY DEF Rotate
<1>2. KeyTypeOK'
  BY <1>1 DEF LoginInv, KeyTypeOK, Rotate
<1> QED
  BY <1>1, <1>2 DEF LoginInv, KeyInv, OnTime, Claims, Fetching, Underway, InUse, Aged

\* The clock waits for nobody.
LEMMA TickKeeps ==
  ASSUME LoginInv, Tick
  PROVE  LoginInv'
<1>1. /\ clock < MaxClock /\ clock' = clock + 1
      /\ UNCHANGED <<published, keys, asked, claimed, fetchedAt, lastAttempt, failing, login>>
  BY DEF Tick
<1>2. {clock, fetchedAt, lastAttempt, MaxClock} \subseteq Nat
  BY LoginIsTyped DEF LoginInv
<1>3. clock' \in 0 .. MaxClock
  BY <1>1, <1>2
<1>4. KeyTypeOK'
  BY <1>1, <1>3 DEF LoginInv, KeyTypeOK
<1>5. OnTime'
  <2>1. SUFFICES ASSUME NEW t \in Threads, login[t].step # "idle"
                 PROVE  login[t].now <= clock'
    BY <1>1 DEF OnTime
  <2>2. login[t].now \in Nat /\ login[t].now <= clock
    BY <1>1, <2>1, LoginIsTyped DEF LoginInv, KeyInv, OnTime
  <2> QED BY <1>1, <1>2, <2>2
<1>6. Underway'
  <2>1. SUFFICES ASSUME NEW t \in Threads, login[t].step = "store"
                 PROVE  login[t].now <= login[t].at /\ login[t].at <= clock'
    BY <1>1 DEF Underway
  <2>2. login[t].at \in Nat
    BY <2>1, LoginIsTyped DEF LoginInv
  <2> QED BY <1>1, <1>2, <2>1, <2>2 DEF LoginInv, KeyInv, Underway
<1>7. Claims' /\ Aged'
  BY <1>1 DEF LoginInv, KeyInv, Claims, Fetching, Aged
<1>8. InUse'
  <2>1. fetchedAt <= clock' /\ lastAttempt <= clock'
    BY <1>1, <1>2 DEF LoginInv, KeyInv, InUse
  <2> QED BY <1>1, <2>1 DEF LoginInv, KeyInv, InUse, Fetching
<1> QED BY <1>4, <1>5, <1>6, <1>7, <1>8 DEF LoginInv, KeyInv

\* The keys depend on nothing of the store.
LEMMA KeysKept ==
  ASSUME LoginInv, UNCHANGED keyVars
  PROVE  LoginInv'
BY DEF keyVars, LoginInv, KeyTypeOK, KeyInv, OnTime, Claims, Fetching, Underway, InUse, Aged

LEMMA KeyNextKeeps ==
  ASSUME LoginInv, KeyNext
  PROVE  LoginInv'
BY DecideKeeps, FetchKeeps, FetchFailsKeeps, StoreKeeps, PickKeeps, RotateKeeps, TickKeeps
   DEF KeyNext

-------------------------------------------------------------------------------
(* The specification. *)

\* The state in which the process starts.
LEMMA InitIsGood == Init => AInv
<1> SUFFICES ASSUME Init PROVE AInv
  OBVIOUS
<1>1. StoreInv
  <2>1. TokenTypeOK
    <3>1. store = {} /\ index = {} /\ answered = {} /\ withdrawn = {}
      BY DEF Init, TokenInit
    <3>2. /\ readable = TRUE /\ lostUpdate = FALSE
          /\ static \in {"none", "good", "broken"}
      BY DEF Init, TokenInit
    <3>3. command \in [Operators -> [kind : {"none"}]]
      BY DEF Init, TokenInit
    <3>4. tokens \in 0 .. MaxTokens /\ commands \in 0 .. MaxCommands
      BY TokenAssumption DEF Init, TokenInit
    <3> QED BY <3>1, <3>2, <3>3, <3>4 DEF TokenTypeOK
  <2>2. TokenInv
    BY DEF Init, TokenInit, TokenInv, StoreInOrder, Pending, Makes
  <2> QED BY <2>1, <2>2 DEF StoreInv, RevokedIsRefused, Init, TokenInit
<1>2. LoginInv
  <2>1. clock \in 0 .. MaxClock /\ 0 \in 0 .. MaxClock /\ Lifetime \in Nat
    BY KeyAssumption DEF Init, KeyInit, Lifetime
  <2>2. KeyTypeOK
    BY <2>1 DEF Init, KeyInit, KeyTypeOK
  <2>3. KeyInv
    BY <2>1 DEF Init, KeyInit, KeyInv, OnTime, Claims, Fetching, Underway, InUse, Aged
  <2> QED BY <2>2, <2>3 DEF LoginInv
<1>3. logins \in 0 .. MaxWork
  BY WorkAssumption DEF Init
<1> QED BY <1>1, <1>2, <1>3 DEF AInv

\* Every step of the system keeps the invariant.
LEMMA StepIsGood == AInv /\ [Next]_vars => AInv'
<1> SUFFICES ASSUME AInv, [Next]_vars PROVE AInv'
  OBVIOUS
<1>1. CASE TokenNext /\ commands' + logins <= MaxWork /\ UNCHANGED <<keyVars, logins>>
  BY <1>1, TokenNextKeeps, KeysKept DEF AInv
<1>2. ASSUME NEW t \in Threads, NEW kid \in Kids \cup {NoKid}, Login(t, kid) PROVE AInv'
  <2>1. Ask(t, kid) /\ logins' = logins + 1 /\ commands + logins < MaxWork
    BY <1>2 DEF Login
  <2>2. logins' \in 0 .. MaxWork
    BY <2>1, WorkAssumption, TokenAssumption DEF AInv, StoreInv, TokenTypeOK
  <2> QED BY <1>2, <2>1, <2>2, LoginKeepsStore, AskKeeps DEF AInv
<1>3. CASE KeyNext /\ UNCHANGED <<tokenVars, logins>>
  BY <1>3, KeyNextKeeps, StoreKept DEF AInv
<1>4. CASE UNCHANGED vars
  BY <1>4, KeysKept, StoreKept DEF AInv, vars
<1> QED BY <1>1, <1>2, <1>3, <1>4 DEF Next

LEMMA Invariance == Spec => []AInv
BY InitIsGood, StepIsGood, PTL DEF Spec

\* The variables of the token store, of the keys and of the composition keep their types.
THEOREM AuthenticationTypes == Spec => []TypeOK
<1>1. AInv => TypeOK
  BY DEF AInv, StoreInv, LoginInv, TypeOK
<1> QED BY <1>1, Invariance, PTL

\* A right that a finished command took away is not honoured by any request from then
\* on, unless a token file does not parse or a command has written over another's work:
\* for any number of operators, owners, tokens and commands.
THEOREM RevokedIsRefusedHolds == Spec => []RevokedIsRefused
<1>1. AInv => RevokedIsRefused
  BY DEF AInv, StoreInv
<1> QED BY <1>1, Invariance, PTL

\* The keys in use are replaced by ones the provider gave earlier only when one of the
\* two fetches outlasted the cool-down: for any number of logins, however long they take
\* and however they overlap.
THEOREM KeysMoveForwardHolds == Spec => KeysMoveForward
<1>1. AInv /\ [Next]_vars =>
        [asked' < asked => \/ fetchedAt - claimed > Cooldown
                           \/ fetchedAt' - claimed' > Cooldown]_keyVars
  <2> SUFFICES ASSUME AInv, [Next]_vars, asked' < asked
               PROVE  \/ fetchedAt - claimed > Cooldown
                      \/ fetchedAt' - claimed' > Cooldown
    OBVIOUS
  <2>1. {clock, asked, claimed, fetchedAt, lastAttempt, Cooldown} \subseteq Nat
    BY LoginIsTyped DEF AInv, LoginInv
  <2>2. PICK t \in Threads : Store(t)
    <3>1. asked' # asked
      BY <2>1
    <3>2. CASE KeyNext
      BY <3>1, <3>2 DEF KeyNext, Decide, Fetch, FetchFails, Refuse, Pick, Rotate, Tick
    <3>3. CASE ~KeyNext
      BY <3>1, <3>3 DEF Next, Login, Ask, vars, keyVars
    <3> QED BY <3>2, <3>3
  <2>3. /\ asked' = login[t].at /\ fetchedAt' = clock /\ claimed' = login[t].now
        /\ login[t].now \in Nat /\ login[t].at \in Nat /\ t \in Fetching
    BY <2>2, LoginIsTyped DEF Store, AInv, LoginInv, Fetching
  <2>4. /\ login[t].now <= login[t].at
        /\ claimed <= lastAttempt /\ lastAttempt <= clock /\ asked <= fetchedAt
        /\ Apart(login[t].now, claimed)
    BY <2>2, <2>3 DEF Store, AInv, LoginInv, KeyInv, Underway, InUse, Claims
  <2>5. CASE claimed > login[t].now + Cooldown
    BY <2>1, <2>3, <2>4, <2>5
  <2>6. CASE login[t].now > claimed + Cooldown
    BY <2>1, <2>3, <2>4, <2>6
  <2> QED BY <2>4, <2>5, <2>6 DEF Apart
<1> QED BY <1>1, Invariance, PTL DEF Spec, KeysMoveForward

\* A login is checked against a key that the provider still published a lifetime -- or a
\* cool-down, if that is longer -- and the time of a fetch before it began, or later,
\* unless the last fetch failed or the keys were just being fetched by another login.
THEOREM KeysAgeOutHolds == Spec => KeysAgeOut
<1>1. ASSUME AInv, NEW t \in Threads, NEW key \in Kids, Pick(t, key)
      PROVE  \/ asked >= login[t].now - Lifetime - (fetchedAt - claimed)
             \/ failing
             \/ login[t].busy
  <2>1. /\ {asked, claimed, fetchedAt, Lifetime, login[t].now} \subseteq Nat
        /\ claimed <= asked
    BY <1>1, LoginIsTyped DEF Pick, AInv, LoginInv, KeyInv, InUse, Lifetime
  <2>2. fetchedAt >= login[t].now - Lifetime \/ failing \/ login[t].busy
    BY <1>1 DEF Pick, AInv, LoginInv, KeyInv, Aged
  <2> QED BY <2>1, <2>2
<1>2. AInv /\ [Next]_vars =>
        [\A t \in Threads, key \in Kids : Pick(t, key) =>
           \/ asked >= login[t].now - Lifetime - (fetchedAt - claimed)
           \/ failing
           \/ login[t].busy]_keyVars
  BY <1>1
<1> QED BY <1>2, Invariance, PTL DEF Spec, KeysAgeOut
===============================================================================

------------------------ MODULE ConfirmationStoreProofs ------------------------
(***************************************************************************)
(* Proofs about ConfirmationStore and, from there, about the gate in front *)
(* of it (WriteGate), for every number of principals, ids and threads and  *)
(* for every value of the caps and of the lifetime.                        *)
(***************************************************************************)
EXTENDS WriteGate, FiniteSetTheorems, SequenceTheorems, WellFoundedInduction, TLAPS

(***************************************************************************)
(* Lemmas about sequences, minima and the victims issue() picks.           *)
(***************************************************************************)

\* What Append adds, and what it leaves where it was.
LEMMA AppendFacts ==
  ASSUME NEW S, NEW s \in Seq(S), NEW e \in S
  PROVE  /\ Append(s, e) \in Seq(S)
         /\ Len(Append(s, e)) = Len(s) + 1
         /\ \A i \in 1 .. Len(s) : Append(s, e)[i] = s[i]
         /\ Append(s, e)[Len(s) + 1] = e
  OBVIOUS

\* A set of ids that is not empty has an oldest member.
LEMMA OldestFacts ==
  ASSUME NEW S \in SUBSET Nat, S # {}
  PROVE  Oldest(S) \in S /\ \A j \in S : Oldest(S) <= j
<1>1. PICK i \in S : \A j \in S : ~(<<j, i>> \in OpToRel(<, Nat))
  BY NatLessThanWellFounded, WFMin
<1>2. ASSUME NEW j \in S PROVE i <= j
  <2>1. j < i => <<j, i>> \in OpToRel(<, Nat)
    BY DEF OpToRel
  <2>2. ~(j < i)
    BY <2>1, <1>1, Zenon
  <2> QED
    BY <2>2
<1> QED
  BY <1>2 DEF Oldest

\* Every tuple the store was ever given is one.
LEMMA EntryFacts ==
  ASSUME TypeOK, NEW id \in 1 .. Len(entry)
  PROVE  /\ entry[id] \in Entries
         /\ entry[id].request \in Requests
         /\ Owner(id) \in Principals
         /\ entry[id].expiry \in Nat
<1>1. entry[id] \in Entries
  BY ElementOfSeq DEF TypeOK
<1>2. entry[id].request \in Requests /\ entry[id].expiry \in Nat
  BY <1>1 DEF Entries
<1> QED
  BY <1>1, <1>2, RequestsAssumption DEF Owner

\* A store that is not empty has an id that expires first.
LEMMA SoonestFacts ==
  ASSUME TypeOK, NEW S \in SUBSET (1 .. Len(entry)), S # {}
  PROVE  SoonestExpiry(S) \in S
<1> DEFINE expiries == {entry[i].expiry : i \in S}
           first == {i \in S : \A j \in S : entry[i].expiry <= entry[j].expiry}
<1>1. expiries \in SUBSET Nat /\ expiries # {}
  BY EntryFacts
<1>2. Oldest(expiries) \in expiries /\ \A e \in expiries : Oldest(expiries) <= e
  <2> HIDE DEF expiries
  <2> QED BY <1>1, OldestFacts
<1>3. first \in SUBSET Nat /\ first # {}
  <2>1. PICK i \in S : entry[i].expiry = Oldest(expiries)
    BY <1>2
  <2>2. i \in first
    BY <2>1, <1>2
  <2>3. S \subseteq Nat
    BY LenProperties DEF TypeOK
  <2> QED
    BY <2>2, <2>3
<1>4. Oldest(first) \in first
  <2> HIDE DEF first
  <2> QED BY <1>3, OldestFacts
<1> QED
  BY <1>4 DEF SoonestExpiry

-------------------------------------------------------------------------------
(***************************************************************************)
(* Type correctness and the agreement of the two indexes.                  *)
(***************************************************************************)

\* What issue() and verify() drop is pending, and verify() drops what it was shown.
LEMMA DroppedFacts ==
  ASSUME TypeOK, Bookkeeping, NEW p \in Principals, NEW now \in Nat
  PROVE  /\ Expired(now) \subseteq pending
         /\ OwnVictim(p, now) \subseteq owned[p] \ Expired(now)
         /\ TotalVictim(p, now) \subseteq pending \ (Expired(now) \cup OwnVictim(p, now))
         /\ Dropped(p, now) \subseteq pending
<1>1. owned[p] \subseteq pending /\ pending \in SUBSET (1 .. Len(entry)) /\ Len(entry) \in Nat
  BY LenProperties DEF TypeOK, Bookkeeping
<1>2. OwnVictim(p, now) \subseteq owned[p] \ Expired(now)
  <2> DEFINE held == owned[p] \ Expired(now)
  <2>1. held \in SUBSET Nat
    BY <1>1
  <2>2. CASE held = {}
    <3>1. ~(Cardinality(held) >= MaxPerPrincipal)
      BY <2>2, FS_EmptySet, CapsAssumption
    <3> QED
      BY <3>1 DEF OwnVictim
  <2>3. CASE held # {}
    <3>1. Oldest(held) \in held
      <4> HIDE DEF held
      <4> QED BY <2>1, <2>3, OldestFacts
    <3> QED
      BY <3>1 DEF OwnVictim
  <2> QED
    BY <2>2, <2>3
<1>3. TotalVictim(p, now) \subseteq pending \ (Expired(now) \cup OwnVictim(p, now))
  <2> DEFINE left == pending \ (Expired(now) \cup OwnVictim(p, now))
  <2>1. left \in SUBSET (1 .. Len(entry))
    BY <1>1
  <2>2. CASE left = {}
    <3>1. ~(Cardinality(left) >= MaxEntries)
      BY <2>2, FS_EmptySet, CapsAssumption
    <3> QED
      BY <3>1 DEF TotalVictim
  <2>3. CASE left # {}
    <3>1. SoonestExpiry(left) \in left
      <4> HIDE DEF left
      <4> QED BY <2>1, <2>3, SoonestFacts
    <3> QED
      BY <3>1 DEF TotalVictim
  <2> QED
    BY <2>2, <2>3
<1>4. Expired(now) \subseteq pending
  BY DEF Expired
<1> QED
  BY <1>1, <1>2, <1>3, <1>4 DEF Dropped

\* Dropping ids from both indexes leaves them in agreement.
LEMMA OwnedWithoutFacts ==
  ASSUME TypeOK, Bookkeeping, NEW gone \in SUBSET pending
  PROVE  /\ OwnedWithout(gone) \in [Principals -> SUBSET Nat]
         /\ \A p \in Principals :
              OwnedWithout(gone)[p] = {id \in pending \ gone : Owner(id) = p}
  BY DEF TypeOK, Bookkeeping, OwnedWithout

\* What a verify() that changes the store has found out about the id.
LEMMA VerdictFacts ==
  ASSUME NEW r, NEW provided
  PROVE  /\ Consumed(Verdict(r, provided)) =>
              /\ provided \in pending
              /\ Owner(provided) = r.principal
         /\ Verdict(r, provided) = "expired" => entry[provided].expiry <= clock
         /\ Verdict(r, provided) = "ok" =>
              /\ provided \in pending
              /\ entry[provided].request = r
  BY DEF Verdict, VerdictOver, Consumed, Owner

\* A step of issue(), with what it appends spelled out.
LEMMA IssueFacts ==
  ASSUME TypeOK, Bookkeeping, NEW th \in Threads, NEW r \in Requests, Issue(th, r)
  PROVE  /\ stamp[th] \in Nat
         /\ r.principal \in Principals
         /\ NewId \in Nat /\ NewId \notin 1 .. Len(entry)
         /\ entry' \in Seq(Entries)
         /\ Len(entry') = NewId /\ NewId <= MaxIds
         /\ \A id \in 1 .. Len(entry) : entry'[id] = entry[id]
         /\ entry'[NewId] = [request |-> r, expiry |-> stamp[th] + Ttl]
<1>1. stamp[th] \in Nat
  BY DEF Issue, TypeOK
<1>2. r.principal \in Principals
  BY RequestsAssumption
<1>3. [request |-> r, expiry |-> stamp[th] + Ttl] \in Entries
  BY <1>1, BoundsAssumption DEF Entries
<1>4. entry' = Append(entry, [request |-> r, expiry |-> stamp[th] + Ttl])
  BY DEF Issue
<1>5. entry \in Seq(Entries) /\ Len(entry) \in Nat
  BY LenProperties DEF TypeOK
<1>6. /\ entry' \in Seq(Entries)
      /\ Len(entry') = Len(entry) + 1
      /\ \A id \in 1 .. Len(entry) : entry'[id] = entry[id]
      /\ entry'[Len(entry) + 1] = [request |-> r, expiry |-> stamp[th] + Ttl]
  BY <1>3, <1>4, <1>5, AppendFacts
<1>7. Len(entry) + 1 <= MaxIds
  BY <1>5, BoundsAssumption DEF Issue
<1> QED
  BY <1>1, <1>2, <1>5, <1>6, <1>7 DEF NewId

\* An empty store is well formed.
LEMMA StoreInit == Init => TypeOK /\ Bookkeeping
<1> SUFFICES ASSUME Init PROVE TypeOK /\ Bookkeeping
  OBVIOUS
<1>1. entry \in Seq(Entries) /\ Len(entry) = 0
  BY EmptySeq DEF Init
<1>2. granted \in [Ids -> Seq(Requests)]
  BY EmptySeq DEF Init
<1>3. /\ pending = {} /\ boot = 0 /\ crowded \in BOOLEAN
      /\ owned \in [Principals -> SUBSET Nat]
      /\ stamp \in [Threads -> Nat \cup {NoStamp}]
      /\ clock \in Nat /\ latest \in Nat
  <2>1. clock \in Nat /\ latest \in Nat
    BY BoundsAssumption DEF Init
  <2>2. owned \in [Principals -> SUBSET Nat] /\ stamp \in [Threads -> Nat \cup {NoStamp}]
    BY DEF Init
  <2> QED
    BY <2>1, <2>2 DEF Init
<1>4. TypeOK
  BY <1>1, <1>2, <1>3, BoundsAssumption DEF TypeOK
<1>5. Bookkeeping
  BY DEF Init, Bookkeeping
<1> QED
  BY <1>4, <1>5

\* TypeOK and Bookkeeping are inductive together: the type of what is dropped
\* depends on the two indexes agreeing.
LEMMA StoreStep == TypeOK /\ Bookkeeping /\ [Next]_vars => (TypeOK /\ Bookkeeping)'
<1> SUFFICES ASSUME TypeOK, Bookkeeping, [Next]_vars PROVE (TypeOK /\ Bookkeeping)'
  OBVIOUS
<1>0. Len(entry) \in Nat
  BY LenProperties DEF TypeOK
<1>1. ASSUME NEW t \in 0 .. MaxClock, SetClock(t) PROVE (TypeOK /\ Bookkeeping)'
  BY <1>1, BoundsAssumption DEF SetClock, store, TypeOK, Bookkeeping, Owner
<1>2. ASSUME NEW th \in Threads, ReadClock(th) PROVE (TypeOK /\ Bookkeeping)'
  BY <1>2 DEF ReadClock, store, history, TypeOK, Bookkeeping, Owner
<1>3. ASSUME NEW th \in Threads, NEW r \in Requests, Issue(th, r)
      PROVE (TypeOK /\ Bookkeeping)'
  <2> DEFINE gone == Dropped(r.principal, stamp[th])
  <2>1. /\ stamp[th] \in Nat
        /\ r.principal \in Principals
        /\ NewId \in Nat /\ NewId \notin 1 .. Len(entry)
        /\ entry' \in Seq(Entries)
        /\ Len(entry') = NewId /\ NewId <= MaxIds
        /\ \A id \in 1 .. Len(entry) : entry'[id] = entry[id]
        /\ entry'[NewId] = [request |-> r, expiry |-> stamp[th] + Ttl]
    BY <1>3, IssueFacts
  <2>2. gone \in SUBSET pending
    BY <2>1, DroppedFacts
  <2>3. /\ OwnedWithout(gone) \in [Principals -> SUBSET Nat]
        /\ \A p \in Principals :
             OwnedWithout(gone)[p] = {id \in pending \ gone : Owner(id) = p}
    <3> HIDE DEF gone
    <3> QED BY <2>2, OwnedWithoutFacts
  <2>4. /\ pending' = (pending \ gone) \cup {NewId}
        /\ owned' = [OwnedWithout(gone) EXCEPT ![r.principal] = @ \cup {NewId}]
        /\ stamp' = [stamp EXCEPT ![th] = NoStamp]
        /\ crowded' \in BOOLEAN
        /\ UNCHANGED <<clock, granted, latest, boot>>
    BY <1>3 DEF Issue, TypeOK
  <2> HIDE DEF gone
  <2>5. pending' \subseteq 1 .. Len(entry')
    <3>1. pending \subseteq 1 .. Len(entry) /\ NewId = Len(entry) + 1
      BY DEF TypeOK, NewId
    <3>2. NewId \in 1 .. NewId /\ 1 .. Len(entry) \subseteq 1 .. NewId
      BY <1>0, <3>1
    <3> QED
      BY <2>1, <2>4, <3>1, <3>2
  <2>6. owned' \in [Principals -> SUBSET Nat]
    BY <2>1, <2>3, <2>4
  <2>7. boot' \in 0 .. Len(entry')
    BY <1>0, <2>1, <2>4 DEF TypeOK, NewId
  <2>8. TypeOK'
    BY <2>1, <2>4, <2>5, <2>6, <2>7 DEF TypeOK
  <2>9. ASSUME NEW p \in Principals
        PROVE owned'[p] = {id \in pending' : Owner(id)' = p}
    <3>1. \A id \in pending : Owner(id)' = Owner(id)
      BY <2>1 DEF Owner, TypeOK
    <3>2. \A id : id = NewId => Owner(id)' = r.principal
      BY <2>1 DEF Owner
    <3>3. owned'[p] = IF p = r.principal THEN OwnedWithout(gone)[p] \cup {NewId}
                                        ELSE OwnedWithout(gone)[p]
      BY <2>1, <2>3, <2>4
    <3> QED
      BY <2>3, <2>4, <3>1, <3>2, <3>3
  <2> QED
    BY <2>8, <2>9 DEF Bookkeeping
<1>4. ASSUME NEW r \in Requests, NEW provided \in Ids \cup {NoConfirm, Malformed},
             Verify(r, provided)
      PROVE (TypeOK /\ Bookkeeping)'
  <2> DEFINE gone == IF Consumed(Verdict(r, provided)) THEN {provided} ELSE {}
  <2>1. gone \in SUBSET pending
    BY VerdictFacts
  <2>2. /\ OwnedWithout(gone) \in [Principals -> SUBSET Nat]
        /\ \A p \in Principals :
             OwnedWithout(gone)[p] = {id \in pending \ gone : Owner(id) = p}
    <3> HIDE DEF gone
    <3> QED BY <2>1, OwnedWithoutFacts
  <2>3. /\ pending' = pending \ gone
        /\ owned' = OwnedWithout(gone)
        /\ UNCHANGED <<entry, clock, stamp, latest, boot, crowded>>
    BY <1>4 DEF Verify
  <2>4. granted' \in [Ids -> Seq(Requests)]
    <3>1. CASE Verdict(r, provided) = "ok"
      <4>1. provided \in Ids
        BY <1>0, <3>1, VerdictFacts, BoundsAssumption DEF TypeOK, Ids
      <4>2. granted' = [granted EXCEPT ![provided] = Append(@, r)]
        BY <1>4, <3>1 DEF Verify
      <4>3. Append(granted[provided], r) \in Seq(Requests)
        BY <4>1, AppendFacts DEF TypeOK
      <4> QED
        BY <4>1, <4>2, <4>3 DEF TypeOK
    <3>2. CASE Verdict(r, provided) # "ok"
      BY <1>4, <3>2 DEF Verify, TypeOK
    <3> QED
      BY <3>1, <3>2
  <2> HIDE DEF gone
  <2>5. TypeOK'
    BY <2>2, <2>3, <2>4 DEF TypeOK
  <2>6. Bookkeeping'
    BY <2>2, <2>3 DEF Bookkeeping, Owner
  <2> QED
    BY <2>5, <2>6
<1>5. CASE Restart
  <2>1. /\ pending' = {} /\ boot' = Len(entry) /\ crowded' = FALSE
        /\ owned' = [p \in Principals |-> {}]
        /\ stamp' = [th \in Threads |-> NoStamp]
        /\ UNCHANGED <<entry, clock, granted, latest>>
    BY <1>5 DEF Restart
  <2>2. TypeOK'
    <3>1. boot' \in 0 .. Len(entry)
      BY <1>0, <2>1
    <3> QED
      BY <2>1, <3>1 DEF TypeOK
  <2>3. Bookkeeping'
    BY <2>1 DEF Bookkeeping
  <2> QED
    BY <2>2, <2>3
<1>6. CASE UNCHANGED vars
  BY <1>6 DEF vars, store, history, TypeOK, Bookkeeping, Owner
<1> QED
  BY <1>1, <1>2, <1>3, <1>4, <1>5, <1>6 DEF Next

\* Everything the store keeps is of its type, and the list of each principal is exactly
\* what it has pending, whatever order issue(), verify() and restarts come in.
THEOREM TypeAndBookkeeping == Spec => [](TypeOK /\ Bookkeeping)
  BY StoreInit, StoreStep, PTL DEF Spec

-------------------------------------------------------------------------------
(***************************************************************************)
(* Single use, and the contract of ConfirmationBackend.                    *)
(***************************************************************************)

\* The requests of what the store was given: `bound` of the contract.
BoundTo == [id \in DOMAIN entry |-> entry[id].request]

\* `bound` grows with `entry`.
LEMMA BoundFacts ==
  ASSUME TypeOK
  PROVE  /\ BoundTo \in Seq(Requests)
         /\ Len(BoundTo) = Len(entry)
         /\ \A id \in 1 .. Len(entry) : BoundTo[id] = entry[id].request
<1>1. Len(entry) \in Nat /\ DOMAIN entry = 1 .. Len(entry)
  BY LenProperties DEF TypeOK
<1>2. \A id \in 1 .. Len(entry) : entry[id].request \in Requests
  BY EntryFacts
<1> QED
  BY <1>1, <1>2 DEF BoundTo

\* The promise is inductive given the types: an id that is still pending has
\* not been granted, so a grant is its first, and afterwards it is not pending.
LEMMA SingleUseStep == SingleUse /\ TypeOK /\ Bookkeeping /\ [Next]_vars => SingleUse'
<1> SUFFICES ASSUME SingleUse, TypeOK, Bookkeeping, [Next]_vars, NEW id \in Ids
             PROVE  \/ granted'[id] = << >>
                    \/ /\ id \in DOMAIN entry' /\ id \notin pending'
                       /\ granted'[id] = <<entry'[id].request>>
  BY DEF SingleUse, Contract!KeepsThePromise
<1>0. /\ Len(entry) \in Nat /\ DOMAIN entry = 1 .. Len(entry)
      /\ \/ granted[id] = << >>
         \/ /\ id \in DOMAIN entry /\ id \notin pending
            /\ granted[id] = <<entry[id].request>>
  BY LenProperties DEF SingleUse, Contract!KeepsThePromise, TypeOK
<1>1. ASSUME UNCHANGED <<pending, entry, granted>>
      PROVE  \/ granted'[id] = << >>
             \/ /\ id \in DOMAIN entry' /\ id \notin pending'
                /\ granted'[id] = <<entry'[id].request>>
  BY <1>0, <1>1
<1>2. ASSUME NEW th \in Threads, NEW r \in Requests, Issue(th, r)
      PROVE  \/ granted'[id] = << >>
             \/ /\ id \in DOMAIN entry' /\ id \notin pending'
                /\ granted'[id] = <<entry'[id].request>>
  <2>1. /\ NewId = Len(entry) + 1
        /\ entry' \in Seq(Entries)
        /\ Len(entry') = NewId
        /\ \A i \in 1 .. Len(entry) : entry'[i] = entry[i]
    BY <1>2, IssueFacts DEF NewId
  <2>2. granted' = granted /\ pending' \subseteq pending \cup {NewId}
    BY <1>2 DEF Issue
  <2>3. DOMAIN entry' = 1 .. NewId
    BY <2>1, LenProperties
  <2> QED
    BY <1>0, <2>1, <2>2, <2>3
<1>3. ASSUME NEW r \in Requests, NEW provided \in Ids \cup {NoConfirm, Malformed},
             Verify(r, provided)
      PROVE  \/ granted'[id] = << >>
             \/ /\ id \in DOMAIN entry' /\ id \notin pending'
                /\ granted'[id] = <<entry'[id].request>>
  <2>1. entry' = entry /\ pending' \subseteq pending
    BY <1>3 DEF Verify
  <2>2. CASE Verdict(r, provided) = "ok" /\ provided = id
    <3>1. id \in pending /\ entry[id].request = r
      BY <2>2, VerdictFacts
    <3>2. granted' = [granted EXCEPT ![id] = Append(@, r)] /\ pending' = pending \ {id}
      BY <1>3, <2>2 DEF Verify, Consumed
    <3>3. granted'[id] = Append(<< >>, r)
      BY <1>0, <3>1, <3>2 DEF TypeOK
    <3>4. Append(<< >>, r) = <<r>>
      OBVIOUS
    <3>5. id \in DOMAIN entry
      BY <1>0, <3>1 DEF TypeOK
    <3> QED
      BY <2>1, <3>1, <3>2, <3>3, <3>4, <3>5
  <2>3. CASE ~(Verdict(r, provided) = "ok" /\ provided = id)
    <3>1. granted'[id] = granted[id]
      BY <1>3, <2>3 DEF Verify, TypeOK
    <3> QED
      BY <1>0, <2>1, <3>1
  <2> QED
    BY <2>2, <2>3
<1>4. CASE Restart
  BY <1>0, <1>4 DEF Restart
<1>5. ASSUME \/ \E t \in 0 .. MaxClock : SetClock(t)
             \/ \E th \in Threads : ReadClock(th)
             \/ UNCHANGED vars
      PROVE  UNCHANGED <<pending, entry, granted>>
  BY <1>5 DEF SetClock, ReadClock, vars, store, history
<1> QED
  BY <1>1, <1>2, <1>3, <1>4, <1>5 DEF Next

\* No id says yes twice, or to a request other than the one it was issued for.
THEOREM SingleUseHolds == Spec => []SingleUse
<1>1. Init => SingleUse
  BY DEF Init, SingleUse, Contract!KeepsThePromise
<1> QED
  BY <1>1, SingleUseStep, TypeAndBookkeeping, PTL DEF Spec

\* The contract starts where the store does.
LEMMA ContractInitially == Init => Contract!ContractInit
<1> SUFFICES ASSUME Init PROVE Contract!ContractInit
  OBVIOUS
<1>1. [id \in DOMAIN entry |-> entry[id].request] = << >>
  BY DEF Init
<1> QED
  BY <1>1 DEF Init, Contract!ContractInit

\* Every step of the store is a step of the contract or none at all: issue() is
\* Prepare, the yes of verify() is Grant, an expiry and a restart are Forget.
LEMMA ContractStep ==
  TypeOK /\ Bookkeeping /\ TypeOK' /\ [Next]_vars
    => [Contract!ContractNext]_(Contract!cvars)
<1> SUFFICES ASSUME TypeOK, Bookkeeping, TypeOK', [Next]_vars
             PROVE  \/ Contract!ContractNext
                    \/ UNCHANGED <<BoundTo, pending, granted>>
  BY DEF Contract!cvars, BoundTo
<1>1. ASSUME NEW th \in Threads, NEW r \in Requests, Issue(th, r)
      PROVE  Contract!ContractNext
  <2> DEFINE gone == Dropped(r.principal, stamp[th])
  <2>1. /\ entry' \in Seq(Entries)
        /\ Len(entry') = NewId /\ NewId = Len(entry) + 1
        /\ \A i \in 1 .. Len(entry) : entry'[i] = entry[i]
        /\ entry'[NewId] = [request |-> r, expiry |-> stamp[th] + Ttl]
        /\ stamp[th] \in Nat /\ r.principal \in Principals
    BY <1>1, IssueFacts DEF NewId
  <2>2. gone \in SUBSET pending
    BY <2>1, DroppedFacts
  <2>3. pending' = (pending \ gone) \cup {NewId} /\ granted' = granted
    BY <1>1 DEF Issue
  <2>4. BoundTo' = Append(BoundTo, r)
    <3>1. BoundTo \in Seq(Requests) /\ Len(BoundTo) = Len(entry)
          /\ \A i \in 1 .. Len(entry) : BoundTo[i] = entry[i].request
      BY BoundFacts
    <3>2. BoundTo' \in Seq(Requests) /\ Len(BoundTo') = Len(entry')
          /\ \A i \in 1 .. Len(entry') : BoundTo'[i] = entry'[i].request
      <4>1. Len(entry') \in Nat /\ DOMAIN entry' = 1 .. Len(entry')
        BY <2>1, LenProperties
      <4>2. ASSUME NEW i \in 1 .. Len(entry') PROVE entry'[i].request \in Requests
        <5>1. entry'[i] \in Entries
          BY <2>1, ElementOfSeq
        <5> QED
          BY <5>1 DEF Entries
      <4> QED
        BY <4>1, <4>2 DEF BoundTo
    <3>3. /\ Append(BoundTo, r) \in Seq(Requests)
          /\ Len(Append(BoundTo, r)) = Len(entry) + 1
          /\ \A i \in 1 .. Len(entry) : Append(BoundTo, r)[i] = BoundTo[i]
          /\ Append(BoundTo, r)[Len(entry) + 1] = r
      BY <3>1, AppendFacts
    <3>4. Len(entry) \in Nat
      BY LenProperties DEF TypeOK
    <3>5. \A i \in 1 .. Len(entry) + 1 : BoundTo'[i] = Append(BoundTo, r)[i]
      BY <2>1, <3>1, <3>2, <3>3, <3>4
    <3> QED
      BY <2>1, <3>2, <3>3, <3>5, SeqEqual
  <2>5. Len(BoundTo') = NewId
    <3>1. BoundTo \in Seq(Requests) /\ Len(BoundTo) = Len(entry)
      BY BoundFacts
    <3> QED
      BY <2>1, <2>4, <3>1, AppendFacts
  <2>6. Contract!Prepare(r)
    <3> HIDE DEF gone
    <3> QED
      BY <2>2, <2>3, <2>4, <2>5 DEF Contract!Prepare, BoundTo
  <2> QED
    BY <2>6 DEF Contract!ContractNext
<1>2. ASSUME NEW r \in Requests, NEW provided \in Ids \cup {NoConfirm, Malformed},
             Verify(r, provided)
      PROVE  \/ Contract!ContractNext
             \/ UNCHANGED <<BoundTo, pending, granted>>
  <2>1. CASE Verdict(r, provided) = "ok"
    <3>1. provided \in pending /\ entry[provided].request = r
      BY <2>1, VerdictFacts
    <3>2. /\ granted' = [granted EXCEPT ![provided] = Append(@, r)]
          /\ pending' = pending \ {provided} /\ entry' = entry
      BY <1>2, <2>1 DEF Verify, Consumed
    <3>3. provided \in Ids /\ provided \in DOMAIN entry
      BY <3>1, LenProperties, BoundsAssumption DEF TypeOK, Ids
    <3>4. Contract!Grant(provided, r)
      BY <3>1, <3>2, <3>3 DEF Contract!Grant
    <3> QED
      BY <3>3, <3>4 DEF Contract!ContractNext
  <2>2. CASE Verdict(r, provided) = "expired"
    <3>1. provided \in pending
      BY <2>2, VerdictFacts DEF Consumed
    <3>2. granted' = granted /\ pending' = pending \ {provided} /\ entry' = entry
      BY <1>2, <2>2 DEF Verify, Consumed
    <3>3. Contract!Forget({provided})
      BY <3>2 DEF Contract!Forget
    <3> QED
      BY <3>1, <3>3 DEF Contract!ContractNext
  <2>3. CASE ~Consumed(Verdict(r, provided))
    BY <1>2, <2>3 DEF Verify, Consumed, BoundTo
  <2> QED
    BY <2>1, <2>2, <2>3 DEF Consumed
<1>3. CASE Restart
  <2>1. Contract!Forget(pending)
    BY <1>3 DEF Restart, Contract!Forget
  <2> QED
    BY <2>1 DEF Contract!ContractNext
<1>4. ASSUME \/ \E t \in 0 .. MaxClock : SetClock(t)
             \/ \E th \in Threads : ReadClock(th)
             \/ UNCHANGED vars
      PROVE  UNCHANGED <<BoundTo, pending, granted>>
  BY <1>4 DEF SetClock, ReadClock, vars, store, history, BoundTo
<1> QED
  BY <1>1, <1>2, <1>3, <1>4 DEF Next

\* The store keeps what ConfirmationBackend promises, for whoever calls it.
THEOREM ContractKept == Spec => KeepsContract
  BY ContractInitially, ContractStep, TypeAndBookkeeping, PTL
     DEF Spec, KeepsContract, Contract!ContractSpec

-------------------------------------------------------------------------------
(***************************************************************************)
(* The caps, and who loses an id to whom.                                  *)
(***************************************************************************)

LEMMA PendingFinite ==
  ASSUME TypeOK, NEW S \in SUBSET pending
  PROVE  IsFiniteSet(S) /\ Cardinality(S) \in Nat
<1>1. Len(entry) \in Nat /\ S \subseteq 1 .. Len(entry)
  BY LenProperties DEF TypeOK
<1>2. IsFiniteSet(1 .. Len(entry))
  BY <1>1, FS_Interval
<1> QED
  BY <1>1, <1>2, FS_Subset, FS_CardinalityType

\* A victim is given up exactly when there is no room for one more.
LEMMA RoomForOne ==
  ASSUME NEW S, IsFiniteSet(S), NEW cap \in Nat \ {0}, Cardinality(S) <= cap,
         NEW V, \/ V = {} /\ ~(Cardinality(S) >= cap)
                \/ \E v \in S : V = {v},
         NEW x, NEW T \in SUBSET ((S \ V) \cup {x})
  PROVE  Cardinality(T) <= cap
<1>1. Cardinality(S) \in Nat
  BY FS_CardinalityType
<1>2. IsFiniteSet(S \ V) /\ Cardinality(S \ V) \in Nat /\ Cardinality(S \ V) < cap
  <2>1. CASE V = {} /\ ~(Cardinality(S) >= cap)
    <3>1. S \ V = S
      BY <2>1
    <3> QED
      BY <1>1, <2>1, <3>1
  <2>2. ASSUME NEW v \in S, V = {v}
        PROVE  IsFiniteSet(S \ V) /\ Cardinality(S \ V) \in Nat /\ Cardinality(S \ V) < cap
    <3>1. IsFiniteSet(S \ {v}) /\ Cardinality(S \ {v}) = Cardinality(S) - 1
      BY FS_RemoveElement
    <3>2. Cardinality(S \ {v}) \in Nat
      BY <3>1, FS_CardinalityType
    <3> QED
      BY <1>1, <2>2, <3>1, <3>2
  <2> QED
    BY <2>1, <2>2
<1>3. /\ IsFiniteSet((S \ V) \cup {x})
      /\ Cardinality((S \ V) \cup {x}) <= cap
  <2> DEFINE U == S \ V
  <2>1. IsFiniteSet(U) /\ Cardinality(U) \in Nat /\ Cardinality(U) < cap
    BY <1>2
  <2> HIDE DEF U
  <2>2. IsFiniteSet(U \cup {x})
        /\ (Cardinality(U \cup {x}) = Cardinality(U) \/ Cardinality(U \cup {x}) = Cardinality(U) + 1)
    BY <2>1, FS_AddElement
  <2>3. IsFiniteSet(U \cup {x}) /\ Cardinality(U \cup {x}) <= cap
    BY <2>1, <2>2
  <2> QED
    BY <2>3 DEF U
<1>4. Cardinality(T) <= Cardinality((S \ V) \cup {x})
  BY <1>3, FS_Subset
<1>5. Cardinality(T) \in Nat /\ Cardinality((S \ V) \cup {x}) \in Nat
  BY <1>3, FS_Subset, FS_CardinalityType
<1> QED
  BY <1>3, <1>4, <1>5

\* Which way each of the two victims is chosen.
LEMMA VictimFacts ==
  ASSUME TypeOK, Bookkeeping, NEW p \in Principals, NEW now \in Nat
  PROVE  LET held == owned[p] \ Expired(now)
             left == pending \ (Expired(now) \cup OwnVictim(p, now))
         IN  /\ \/ OwnVictim(p, now) = {} /\ ~(Cardinality(held) >= MaxPerPrincipal)
                \/ /\ Cardinality(held) >= MaxPerPrincipal
                   /\ \E v \in held : OwnVictim(p, now) = {v} /\ \A j \in held : v <= j
             /\ \/ TotalVictim(p, now) = {} /\ ~(Cardinality(left) >= MaxEntries)
                \/ /\ Cardinality(left) >= MaxEntries
                   /\ \E v \in left : TotalVictim(p, now) = {v}
<1> DEFINE held == owned[p] \ Expired(now)
           left == pending \ (Expired(now) \cup OwnVictim(p, now))
<1>1. /\ OwnVictim(p, now) \subseteq held
      /\ TotalVictim(p, now) \subseteq left
      /\ held \in SUBSET Nat
  BY DroppedFacts DEF TypeOK
<1>2. \/ OwnVictim(p, now) = {} /\ ~(Cardinality(held) >= MaxPerPrincipal)
      \/ /\ Cardinality(held) >= MaxPerPrincipal
         /\ \E v \in held : OwnVictim(p, now) = {v} /\ \A j \in held : v <= j
  <2>1. CASE Cardinality(held) >= MaxPerPrincipal
    <3>1. OwnVictim(p, now) = {Oldest(held)}
      BY <2>1 DEF OwnVictim
    <3>2. Oldest(held) \in held
      BY <1>1, <3>1
    <3>3. \A j \in held : Oldest(held) <= j
      <4> HIDE DEF held
      <4> QED BY <1>1, <3>2, OldestFacts
    <3> QED
      BY <2>1, <3>1, <3>2, <3>3
  <2> QED
    BY <2>1 DEF OwnVictim
<1>3. \/ TotalVictim(p, now) = {} /\ ~(Cardinality(left) >= MaxEntries)
      \/ /\ Cardinality(left) >= MaxEntries
         /\ \E v \in left : TotalVictim(p, now) = {v}
  BY <1>1 DEF TotalVictim
<1> QED
  BY <1>2, <1>3

\* Both caps, for every number of principals and every size of the store.
THEOREM CapsHold == Spec => []Caps
<1>1. Init => Caps
  BY FS_EmptySet, CapsAssumption DEF Init, Caps, PerPrincipalCap, TotalCap
<1>2. Caps /\ TypeOK /\ Bookkeeping /\ Bookkeeping' /\ [Next]_vars => Caps'
  <2> SUFFICES ASSUME Caps, TypeOK, Bookkeeping, Bookkeeping', [Next]_vars PROVE Caps'
    OBVIOUS
  <2>1. ASSUME pending' \subseteq pending, entry' = entry PROVE Caps'
    <3>1. Cardinality(pending') <= MaxEntries
      <4>1. Cardinality(pending') <= Cardinality(pending) /\ Cardinality(pending') \in Nat
            /\ Cardinality(pending) \in Nat
        BY <2>1, PendingFinite, FS_Subset
      <4> QED
        BY <4>1, CapsAssumption DEF Caps, TotalCap
    <3>2. ASSUME NEW p \in Principals
          PROVE  Cardinality({id \in pending' : Owner(id)' = p}) <= MaxPerPrincipal
      <4> DEFINE before == {id \in pending : Owner(id) = p}
                 after == {id \in pending' : Owner(id)' = p}
      <4>1. after \subseteq before
        BY <2>1 DEF Owner
      <4>2. /\ IsFiniteSet(before)
            /\ Cardinality(before) \in Nat /\ Cardinality(after) \in Nat
        BY <4>1, PendingFinite
      <4>3. Cardinality(after) <= Cardinality(before)
        <5> HIDE DEF before, after
        <5> QED BY <4>1, <4>2, FS_Subset
      <4>4. Cardinality(before) <= MaxPerPrincipal
        BY DEF Caps, PerPrincipalCap
      <4> QED
        BY <4>2, <4>3, <4>4, CapsAssumption
    <3> QED
      BY <3>1, <3>2 DEF Caps, PerPrincipalCap, TotalCap
  <2>2. ASSUME NEW th \in Threads, NEW r \in Requests, Issue(th, r) PROVE Caps'
    <3> DEFINE p == r.principal
               now == stamp[th]
               held == owned[p] \ Expired(now)
               left == pending \ (Expired(now) \cup OwnVictim(p, now))
    <3>1. now \in Nat /\ p \in Principals
          /\ \A id \in 1 .. Len(entry) : entry'[id] = entry[id]
          /\ entry'[NewId] = [request |-> r, expiry |-> stamp[th] + Ttl]
      BY <2>2, IssueFacts
    <3>2. /\ pending' = (pending \ Dropped(p, now)) \cup {NewId}
          /\ owned' = [OwnedWithout(Dropped(p, now)) EXCEPT ![p] = @ \cup {NewId}]
      BY <2>2 DEF Issue
    <3>3. /\ \/ OwnVictim(p, now) = {} /\ ~(Cardinality(held) >= MaxPerPrincipal)
             \/ \E v \in held : OwnVictim(p, now) = {v}
          /\ \/ TotalVictim(p, now) = {} /\ ~(Cardinality(left) >= MaxEntries)
             \/ \E v \in left : TotalVictim(p, now) = {v}
      BY <3>1, VictimFacts
    <3>4. Dropped(p, now) \in SUBSET pending
      BY <3>1, DroppedFacts
    <3>5. \A q \in Principals : owned[q] = {id \in pending : Owner(id) = q}
      BY DEF Bookkeeping
    <3>6. \A q \in Principals : /\ IsFiniteSet(owned[q]) /\ Cardinality(owned[q]) \in Nat
                                /\ Cardinality(owned[q]) <= MaxPerPrincipal
      BY <3>5, PendingFinite DEF Caps, PerPrincipalCap
    <3>7. \A q \in Principals :
            OwnedWithout(Dropped(p, now))[q] = {id \in pending \ Dropped(p, now) : Owner(id) = q}
      BY <3>4, OwnedWithoutFacts
    <3>8. Cardinality(owned'[p]) <= MaxPerPrincipal
      <4>1. owned'[p] = OwnedWithout(Dropped(p, now))[p] \cup {NewId}
        BY <3>1, <3>2 DEF OwnedWithout
      <4>2. owned'[p] \subseteq (held \ OwnVictim(p, now)) \cup {NewId}
        <5>1. OwnedWithout(Dropped(p, now))[p] \subseteq owned[p] \ Dropped(p, now)
          <6> HIDE DEF p, now
          <6> QED BY <3>1, <3>5, <3>7
        <5> QED
          BY <4>1, <5>1 DEF Dropped
      <4>3. IsFiniteSet(held) /\ Cardinality(held) \in Nat
            /\ Cardinality(held) <= Cardinality(owned[p])
        BY <3>1, <3>6, FS_Subset, FS_CardinalityType
      <4>4. Cardinality(held) <= MaxPerPrincipal
        BY <3>1, <3>6, <4>3, CapsAssumption
      <4> HIDE DEF held, p, now
      <4> QED
        BY <3>3, <4>2, <4>3, <4>4, CapsAssumption, RoomForOne
    <3>9. ASSUME NEW q \in Principals, q # p
          PROVE  Cardinality(owned'[q]) <= MaxPerPrincipal
      <4>1. owned'[q] \subseteq owned[q]
        BY <3>1, <3>2, <3>5, <3>7, <3>9 DEF OwnedWithout
      <4>2. Cardinality(owned'[q]) \in Nat /\ Cardinality(owned'[q]) <= Cardinality(owned[q])
        BY <3>6, <4>1, FS_Subset, FS_CardinalityType
      <4> QED
        BY <3>6, <4>2, CapsAssumption
    <3>10. PerPrincipalCap'
      <4>1. \A q \in Principals : owned'[q] = {id \in pending' : Owner(id)' = q}
        BY DEF Bookkeeping
      <4> QED
        BY <3>8, <3>9, <4>1 DEF PerPrincipalCap
    <3>11. TotalCap'
      <4>1. pending' \in SUBSET ((left \ TotalVictim(p, now)) \cup {NewId})
        BY <3>2 DEF Dropped
      <4>2. IsFiniteSet(left) /\ Cardinality(left) \in Nat /\ Cardinality(pending) \in Nat
            /\ Cardinality(left) <= Cardinality(pending)
        BY PendingFinite, FS_Subset
      <4>3. Cardinality(left) <= MaxEntries
        BY <4>2, CapsAssumption DEF Caps, TotalCap
      <4> HIDE DEF left, p, now
      <4>4. Cardinality(pending') <= MaxEntries
        BY <3>3, <4>1, <4>2, <4>3, CapsAssumption, RoomForOne
      <4> QED
        BY <4>4 DEF TotalCap
    <3> QED
      BY <3>10, <3>11 DEF Caps
  <2>3. ASSUME NEW r \in Requests, NEW provided \in Ids \cup {NoConfirm, Malformed},
               Verify(r, provided)
        PROVE  Caps'
    BY <2>1, <2>3 DEF Verify
  <2>4. CASE Restart
    BY <2>1, <2>4 DEF Restart
  <2>5. ASSUME \/ \E t \in 0 .. MaxClock : SetClock(t)
               \/ \E th \in Threads : ReadClock(th)
               \/ UNCHANGED vars
        PROVE  Caps'
    BY <2>1, <2>5 DEF SetClock, ReadClock, vars, store, history
  <2> QED
    BY <2>2, <2>3, <2>4, <2>5 DEF Next
<1> QED
  BY <1>1, <1>2, TypeAndBookkeeping, PTL DEF Spec

-------------------------------------------------------------------------------
(***************************************************************************)
(* Who loses an id to whom.                                                *)
(***************************************************************************)

\* The clock readings in flight are not from the future, and what is pending
\* was issued since the restart.
Recency ==
  /\ clock <= latest
  /\ \A th \in Threads : stamp[th] \in Nat => stamp[th] <= latest
  /\ \A id \in pending : boot < id

LEMMA RecencyHolds == Spec => []Recency
<1>1. Init => Recency
  BY StampAssumption, BoundsAssumption DEF Init, Recency
<1>2. Recency /\ TypeOK /\ Bookkeeping /\ [Next]_vars => Recency'
  <2> SUFFICES ASSUME Recency, TypeOK, Bookkeeping, [Next]_vars PROVE Recency'
    OBVIOUS
  <2>1. ASSUME NEW t \in 0 .. MaxClock, SetClock(t) PROVE Recency'
    <3>1. t \in Nat /\ latest \in Nat
      BY BoundsAssumption DEF TypeOK
    <3>2. clock' = t /\ t <= latest' /\ latest <= latest' /\ latest' \in Nat
      BY <2>1, <3>1 DEF SetClock
    <3>3. stamp' = stamp /\ pending' = pending /\ boot' = boot
      BY <2>1 DEF SetClock, store
    <3> QED
      BY <3>1, <3>2, <3>3 DEF Recency
  <2>2. ASSUME NEW th \in Threads, ReadClock(th) PROVE Recency'
    BY <2>2 DEF ReadClock, store, history, Recency, TypeOK
  <2>3. ASSUME NEW th \in Threads, NEW r \in Requests, Issue(th, r) PROVE Recency'
    <3>1. NewId = Len(entry) + 1 /\ Len(entry) \in Nat /\ boot \in 0 .. Len(entry)
      BY LenProperties DEF NewId, TypeOK
    <3>2. /\ pending' \subseteq pending \cup {NewId}
          /\ stamp' = [stamp EXCEPT ![th] = NoStamp]
          /\ UNCHANGED <<clock, latest, boot>>
      BY <2>3 DEF Issue
    <3>3. \A id \in pending' : boot' < id
      BY <3>1, <3>2 DEF Recency
    <3>4. \A h \in Threads : stamp'[h] \in Nat => stamp'[h] <= latest'
      BY <3>2, StampAssumption DEF Recency, TypeOK
    <3> QED
      BY <3>2, <3>3, <3>4 DEF Recency
  <2>4. ASSUME NEW r \in Requests, NEW provided \in Ids \cup {NoConfirm, Malformed},
               Verify(r, provided)
        PROVE  Recency'
    BY <2>4 DEF Verify, Recency
  <2>5. CASE Restart
    BY <2>5, StampAssumption DEF Restart, Recency
  <2>6. CASE UNCHANGED vars
    BY <2>6 DEF vars, store, history, Recency
  <2> QED
    BY <2>1, <2>2, <2>3, <2>4, <2>5, <2>6 DEF Next
<1> QED
  BY <1>1, <1>2, TypeAndBookkeeping, PTL DEF Spec

\* A step that costs a principal an id it did not spend, replace or let expire is
\* a step of a store that was full, or a restart.
THEOREM DisplacementNeedsFullStore == Spec => OthersDisplacedOnlyWhenFull
<1> DEFINE Excused(id) == \/ boot' # boot
                          \/ entry[id].expiry <= latest
                          \/ granted'[id] # granted[id]
                          \/ Owner(id) \in NewOwners
                          \/ Cardinality(pending) = MaxEntries
<1>1. TypeOK /\ Bookkeeping /\ Caps /\ Recency /\ [Next]_vars
        => [\A id \in pending \ pending' : Excused(id)]_vars
  <2> SUFFICES ASSUME TypeOK, Bookkeeping, Caps, Recency, Next, NEW id \in pending \ pending'
               PROVE  Excused(id)
    OBVIOUS
  <2>0. /\ id \in 1 .. Len(entry) /\ Len(entry) \in Nat
        /\ entry[id].expiry \in Nat /\ latest \in Nat /\ clock \in Nat
    BY EntryFacts, LenProperties DEF TypeOK
  <2>1. ASSUME NEW th \in Threads, NEW r \in Requests, Issue(th, r) PROVE Excused(id)
    <3> DEFINE p == r.principal
               now == stamp[th]
               left == pending \ (Expired(now) \cup OwnVictim(p, now))
    <3>1. /\ now \in Nat /\ p \in Principals
          /\ Len(entry') = NewId /\ NewId = Len(entry) + 1
          /\ entry'[NewId] = [request |-> r, expiry |-> stamp[th] + Ttl]
      BY <2>1, IssueFacts DEF NewId
    <3>2. id \in Expired(now) \/ id \in OwnVictim(p, now) \/ id \in TotalVictim(p, now)
      BY <2>1 DEF Issue, Dropped
    <3>3. CASE id \in Expired(now)
      <4>1. now <= latest /\ entry[id].expiry <= now
        BY <3>1, <3>3 DEF Recency, Expired
      <4> QED
        BY <2>0, <3>1, <4>1
    <3>4. CASE id \in OwnVictim(p, now)
      <4>1. Owner(id) = p
        BY <3>1, <3>4, DroppedFacts DEF Bookkeeping
      <4>2. NewId \in Len(entry) + 1 .. Len(entry') /\ entry'[NewId].request.principal = p
        BY <2>0, <3>1
      <4> QED
        BY <4>1, <4>2 DEF NewOwners
    <3>5. CASE id \in TotalVictim(p, now)
      <4>1. Cardinality(left) >= MaxEntries
        BY <3>1, <3>5, VictimFacts
      <4>2. Cardinality(left) <= Cardinality(pending)
            /\ Cardinality(left) \in Nat /\ Cardinality(pending) \in Nat
        BY PendingFinite, FS_Subset
      <4> HIDE DEF left
      <4> QED
        BY <4>1, <4>2, CapsAssumption DEF Caps, TotalCap
    <3> QED
      BY <3>2, <3>3, <3>4, <3>5
  <2>2. ASSUME NEW r \in Requests, NEW provided \in Ids \cup {NoConfirm, Malformed},
               Verify(r, provided)
        PROVE  Excused(id)
    <3>1. id = provided /\ Consumed(Verdict(r, id))
      BY <2>2 DEF Verify
    <3>2. CASE Verdict(r, id) = "expired"
      <4>1. entry[id].expiry <= clock
        BY <3>2, VerdictFacts
      <4> QED
        BY <2>0, <4>1 DEF Recency
    <3>3. CASE Verdict(r, id) = "ok"
      <4>1. id \in Ids
        BY <2>0, BoundsAssumption DEF TypeOK, Ids
      <4>2. granted[id] \in Seq(Requests) /\ granted'[id] = Append(granted[id], r)
        BY <2>2, <3>1, <3>3, <4>1 DEF Verify, TypeOK
      <4>3. Len(granted'[id]) = Len(granted[id]) + 1 /\ Len(granted[id]) \in Nat
        BY <4>2, AppendFacts, LenProperties
      <4> QED
        BY <4>3
    <3> QED
      BY <3>1, <3>2, <3>3 DEF Consumed
  <2>3. CASE Restart
    BY <2>0, <2>3 DEF Restart, Recency
  <2>4. ASSUME \/ \E t \in 0 .. MaxClock : SetClock(t)
               \/ \E th \in Threads : ReadClock(th)
        PROVE  Excused(id)
    BY <2>4 DEF SetClock, ReadClock, store
  <2> QED
    BY <2>1, <2>2, <2>3, <2>4 DEF Next
<1> QED
  BY <1>1, TypeAndBookkeeping, CapsHold, RecencyHolds, PTL DEF Spec, OthersDisplacedOnlyWhenFull

\* The honest client's promise.  The case to worry about is the id its own
\* principal's next one pushes out: everything else that principal holds is newer
\* and there is a cap's worth of it, so the promise did not cover that id.
THEOREM NewestSurviveHolds == Spec => []NewestSurvive
<1> DEFINE Covered(id) == /\ ~crowded
                          /\ granted[id] = << >>
                          /\ entry[id].expiry > latest
                          /\ Cardinality(NewerOfSameOwner(id)) < MaxPerPrincipal
<1>1. Init => NewestSurvive
  <2> SUFFICES ASSUME Init PROVE NewestSurvive
    OBVIOUS
  <2>1. boot = 0 /\ Len(entry) = 0
    BY EmptySeq DEF Init
  <2> QED
    BY <2>1 DEF NewestSurvive
<1>2. NewestSurvive /\ TypeOK /\ Bookkeeping /\ Recency /\ [Next]_vars => NewestSurvive'
  <2> SUFFICES ASSUME NewestSurvive, TypeOK, Bookkeeping, Recency, [Next]_vars,
                      NEW id \in boot' + 1 .. Len(entry'), Covered(id)'
               PROVE  id \in pending'
    BY DEF NewestSurvive
  <2>0. /\ Len(entry) \in Nat /\ boot \in Nat /\ latest \in Nat /\ clock \in Nat
        /\ boot <= Len(entry)
        /\ \A i \in boot + 1 .. Len(entry) : Covered(i) => i \in pending
        /\ \A i \in 1 .. Len(entry) : entry[i].expiry \in Nat
    BY EntryFacts, LenProperties DEF TypeOK, NewestSurvive
  <2>1. ASSUME NEW th \in Threads, NEW r \in Requests, Issue(th, r) PROVE id \in pending'
    <3> DEFINE p == r.principal
               now == stamp[th]
               held == owned[p] \ Expired(now)
    <3>1. /\ now \in Nat /\ p \in Principals
          /\ Len(entry') = NewId /\ NewId = Len(entry) + 1
          /\ \A i \in 1 .. Len(entry) : entry'[i] = entry[i]
          /\ entry'[NewId] = [request |-> r, expiry |-> stamp[th] + Ttl]
      BY <2>1, IssueFacts DEF NewId
    <3>2. /\ pending' = (pending \ Dropped(p, now)) \cup {NewId}
          /\ crowded' = (crowded \/ TotalVictim(p, now) # {})
          /\ UNCHANGED <<granted, latest, boot>>
      BY <2>1 DEF Issue
    <3>3. CASE id = NewId
      BY <3>2, <3>3
    <3>4. CASE id # NewId
      <4> DEFINE newer == NewerOfSameOwner(id)
                 newerAfter == {j \in id + 1 .. Len(entry') : entry'[j].request.principal = Owner(id)}
      <4>1. id \in boot + 1 .. Len(entry) /\ id \in 1 .. Len(entry)
        BY <2>0, <3>1, <3>2, <3>4
      <4>2. /\ ~crowded /\ TotalVictim(p, now) = {}
            /\ granted[id] = << >> /\ entry[id].expiry > latest
        BY <3>1, <3>2, <4>1
      <4>3. NewerOfSameOwner(id)' = newerAfter
        BY <3>1, <4>1 DEF NewerOfSameOwner, Owner
      <4>4. newerAfter = newer \cup (IF Owner(id) = p THEN {NewId} ELSE {})
        BY <2>0, <3>1, <4>1 DEF NewerOfSameOwner, Owner
      <4>5. /\ IsFiniteSet(newer) /\ IsFiniteSet(newerAfter)
            /\ Cardinality(newer) \in Nat /\ Cardinality(newerAfter) \in Nat
            /\ Cardinality(newerAfter) < MaxPerPrincipal
        <5>1. newer \subseteq 1 .. NewId /\ newerAfter \subseteq 1 .. NewId
          BY <2>0, <3>1, <4>1 DEF NewerOfSameOwner
        <5>2. IsFiniteSet(1 .. NewId)
          <6>1. 1 \in Int /\ NewId \in Int
            BY <2>0, <3>1
          <6> QED
            BY <6>1, FS_Interval
        <5>3. IsFiniteSet(newer) /\ IsFiniteSet(newerAfter)
          <6> HIDE DEF newer, newerAfter
          <6> QED BY <5>1, <5>2, FS_Subset
        <5> HIDE DEF newer
        <5>4. Cardinality(newerAfter) < MaxPerPrincipal
          BY <4>3
        <5> HIDE DEF newerAfter
        <5> QED
          BY <5>3, <5>4, FS_CardinalityType
      <4>6. id \in pending
        <5>1. Cardinality(newer) <= Cardinality(newerAfter)
          <6>1. newer \subseteq newerAfter
            BY <4>4
          <6> HIDE DEF newer, newerAfter
          <6> QED BY <4>5, <6>1, FS_Subset
        <5>2. Cardinality(NewerOfSameOwner(id)) < MaxPerPrincipal
          <6>1. Cardinality(newer) < MaxPerPrincipal
            <7> HIDE DEF newer, newerAfter
            <7> QED BY <4>5, <5>1, CapsAssumption
          <6> QED
            BY <6>1
        <5> QED
          BY <2>0, <4>1, <4>2, <5>2
      <4>7. id \notin Expired(now)
        <5>1. now <= latest
          BY <3>1 DEF Recency
        <5> QED
          BY <2>0, <3>1, <4>1, <4>2, <5>1 DEF Expired
      <4>8. ASSUME id \in OwnVictim(p, now) PROVE FALSE
        <5>1. /\ Cardinality(held) >= MaxPerPrincipal
              /\ id \in held /\ \A j \in held : id <= j
          <6>1. \/ OwnVictim(p, now) = {}
                \/ /\ Cardinality(held) >= MaxPerPrincipal
                   /\ \E v \in held : OwnVictim(p, now) = {v} /\ \A j \in held : v <= j
            BY <3>1, VictimFacts
          <6> HIDE DEF held, p, now
          <6> QED
            BY <4>8, <6>1
        <5>2. /\ owned[p] = {j \in pending : Owner(j) = p}
              /\ pending \subseteq 1 .. Len(entry)
          BY <3>1 DEF Bookkeeping, TypeOK
        <5>3. Owner(id) = p
          BY <5>1, <5>2
        <5>4. ASSUME NEW j \in held \ {id} PROVE j \in newer
          <6>1. j \in 1 .. Len(entry) /\ Owner(j) = Owner(id)
            BY <5>2, <5>3
          <6>2. id <= j
            BY <5>1
          <6>3. j \in id + 1 .. Len(entry)
            BY <2>0, <4>1, <6>1, <6>2
          <6> QED
            BY <6>1, <6>3 DEF NewerOfSameOwner
        <5>5. IsFiniteSet(held) /\ Cardinality(held) \in Nat
          <6>1. held \in SUBSET pending
            BY <5>2
          <6> HIDE DEF held
          <6> QED BY <6>1, PendingFinite
        <5>6. /\ Cardinality(held \ {id}) = Cardinality(held) - 1
              /\ Cardinality(held \ {id}) <= Cardinality(newer)
          <6> HIDE DEF held, newer
          <6> QED BY <4>5, <5>1, <5>4, <5>5, FS_RemoveElement, FS_Subset
        <5>7. Cardinality(newerAfter) = Cardinality(newer) + 1
          <6>1. newerAfter = newer \cup {NewId} /\ NewId \notin newer
            BY <2>0, <3>1, <4>4, <5>3 DEF NewerOfSameOwner
          <6> HIDE DEF newer, newerAfter
          <6> QED BY <4>5, <6>1, FS_AddElement
        <5> HIDE DEF held, newer, newerAfter
        <5> QED
          BY <4>5, <5>1, <5>5, <5>6, <5>7, CapsAssumption
      <4> QED
        BY <3>2, <4>2, <4>6, <4>7, <4>8 DEF Dropped
    <3> QED
      BY <3>3, <3>4
  <2>2. ASSUME NEW r \in Requests, NEW provided \in Ids \cup {NoConfirm, Malformed},
               Verify(r, provided)
        PROVE  id \in pending'
    <3>1. UNCHANGED <<entry, latest, boot, crowded>>
      BY <2>2 DEF Verify
    <3>2. id \in boot + 1 .. Len(entry) /\ id \in 1 .. Len(entry) /\ id \in Ids
      BY <2>0, <3>1, BoundsAssumption DEF TypeOK, Ids
    <3>3. granted'[id] = << >> /\ entry[id].expiry > latest
      BY <3>1
    <3>4. ~(provided = id /\ Verdict(r, id) = "ok") /\ granted[id] = << >>
      <4>1. CASE provided = id /\ Verdict(r, id) = "ok"
        <5>1. granted'[id] = Append(granted[id], r) /\ granted[id] \in Seq(Requests)
          BY <2>2, <3>2, <4>1 DEF Verify, TypeOK
        <5>2. Len(granted'[id]) = Len(granted[id]) + 1 /\ Len(granted[id]) \in Nat
          BY <5>1, AppendFacts, LenProperties
        <5> QED
          BY <3>3, <5>2, EmptySeq
      <4>2. CASE ~(provided = id /\ Verdict(r, id) = "ok")
        BY <2>2, <3>3, <4>2 DEF Verify, TypeOK
      <4> QED
        BY <4>1, <4>2
    <3>5. id \in pending
      <4>1. NewerOfSameOwner(id)' = NewerOfSameOwner(id)
        BY <3>1 DEF NewerOfSameOwner, Owner
      <4> QED
        BY <2>0, <3>1, <3>2, <3>3, <3>4, <4>1
    <3>6. ~(provided = id /\ Verdict(r, id) = "expired")
      <4>1. Verdict(r, id) = "expired" => entry[id].expiry <= clock
        BY VerdictFacts
      <4> QED
        BY <2>0, <3>2, <3>3, <4>1 DEF Recency
    <3> QED
      BY <2>2, <3>4, <3>5, <3>6 DEF Verify, Consumed
  <2>3. CASE Restart
    BY <2>0, <2>3 DEF Restart
  <2>4. ASSUME \/ \E t \in 0 .. MaxClock : SetClock(t)
               \/ \E th \in Threads : ReadClock(th)
               \/ UNCHANGED vars
        PROVE  id \in pending'
    <3>1. UNCHANGED <<pending, entry, granted, boot, crowded>> /\ latest' \in Nat /\ latest <= latest'
      BY <2>0, <2>4, BoundsAssumption DEF SetClock, ReadClock, vars, store, history
    <3>2. NewerOfSameOwner(id)' = NewerOfSameOwner(id)
      BY <3>1 DEF NewerOfSameOwner, Owner
    <3>3. id \in boot + 1 .. Len(entry) /\ id \in 1 .. Len(entry)
      BY <2>0, <3>1
    <3> QED
      BY <2>0, <3>1, <3>2, <3>3
  <2> QED
    BY <2>1, <2>2, <2>3, <2>4 DEF Next
<1> QED
  BY <1>1, <1>2, TypeAndBookkeeping, RecencyHolds, PTL DEF Spec

\* An id of somebody else's is answered like one that never was: the identity is
\* looked at before anything the tuple could give away.
THEOREM StrangersLearnNothingHolds == Spec => []StrangersLearnNothing
<1>1. StrangersLearnNothing
  <2> SUFFICES ASSUME NEW id \in pending, NEW r \in Requests, NEW provided \in Ids,
                      <<Owner(id), entry[id].request.tool>> # <<r.principal, r.tool>>
               PROVE  Verdict(r, provided) = VerdictOver(pending \ {id}, clock, r, provided)
    BY DEF StrangersLearnNothing
  <2>1. CASE provided = id
    <3>1. VerdictOver(pending, clock, r, id)
            = IF id = NoConfirm THEN "first" ELSE IF id = Malformed THEN "malformed" ELSE "unknown"
      BY DEF VerdictOver, Owner
    <3>2. VerdictOver(pending \ {id}, clock, r, id)
            = IF id = NoConfirm THEN "first" ELSE IF id = Malformed THEN "malformed" ELSE "unknown"
      BY DEF VerdictOver
    <3> QED
      BY <2>1, <3>1, <3>2 DEF Verdict
  <2>2. CASE provided # id
    <3>1. provided \in pending <=> provided \in pending \ {id}
      BY <2>2
    <3> QED
      BY <3>1 DEF Verdict, VerdictOver
  <2> QED
    BY <2>1, <2>2
<1> QED
  BY <1>1, PTL

-------------------------------------------------------------------------------
(***************************************************************************)
(* The gate: the same store, driven by the server's threads.               *)
(***************************************************************************)

\* What a call in progress carries, step by step.
LEMMA CallFacts ==
  ASSUME GateTypeOK, NEW th \in Threads
  PROVE  /\ call[th].step \in {"verify", "stamp", "issue", "write"} =>
              /\ call[th].request \in Requests
              /\ call[th].provided \in Ids \cup {NoConfirm}
              /\ call[th].role \in BOOLEAN
              /\ "paid" \notin DOMAIN call[th]
              /\ \A step \in {"verify", "stamp", "issue", "write"} :
                   [call[th] EXCEPT !.step = step] \in Calls
         /\ "paid" \in DOMAIN call[th] =>
              /\ call[th].step = "audit"
              /\ call[th].paid \in Ids
              /\ call[th].outcome \in Outcomes
         /\ "paid" \notin DOMAIN Idle /\ Idle.step = "idle"
<1>1. call[th] \in Calls \cup {Idle}
  BY DEF GateTypeOK
<1>2. CASE call[th] \in [step : {"verify", "stamp", "issue", "write"}, request : Requests,
                         provided : Ids \cup {NoConfirm}, role : BOOLEAN]
  BY <1>2 DEF Calls, Idle
<1>3. CASE call[th] \in [step : {"audit"}, outcome : {"refused", "confirm_required"}]
  BY <1>3 DEF Idle
<1>4. CASE call[th] \in [step : {"audit"}, outcome : Outcomes, paid : Ids]
  BY <1>4 DEF Idle
<1>5. CASE call[th] = Idle
  BY <1>5 DEF Idle
<1> QED
  BY <1>1, <1>2, <1>3, <1>4, <1>5 DEF Calls

\* To the store a step of the server is one of its own operations or nothing.
LEMMA GateDrivesStore ==
  GateTypeOK /\ [GateNext]_gateVars => [Next]_vars
<1> SUFFICES ASSUME GateTypeOK, [GateNext]_gateVars PROVE [Next]_vars
  OBVIOUS
<1>1. ASSUME NEW th \in Threads, GateVerify(th) PROVE Next
  <2>1. call[th].request \in Requests /\ call[th].provided \in Ids \cup {NoConfirm, Malformed}
    BY <1>1, CallFacts DEF GateVerify
  <2> QED
    BY <1>1, <2>1 DEF GateVerify, Next
<1>2. ASSUME NEW th \in Threads, GateStamp(th) PROVE Next
  BY <1>2 DEF GateStamp, Next
<1>3. ASSUME NEW th \in Threads, GateIssue(th) PROVE Next
  <2>1. call[th].request \in Requests
    BY <1>3, CallFacts DEF GateIssue
  <2> QED
    BY <1>3, <2>1 DEF GateIssue, Next
<1>4. CASE GateRestart
  BY <1>4 DEF GateRestart, Next
<1>5. ASSUME NEW t \in 0 .. MaxClock, GateClock(t) PROVE Next
  BY <1>5 DEF GateClock, Next
<1>6. ASSUME NEW th \in Threads,
             \/ \E r \in Requests, provided \in Presentable : Begin(th, r, provided)
             \/ \E outcome \in Outcomes : Refuse(th, outcome) \/ Write(th, outcome)
             \/ Audit(th) \/ Escape(th)
      PROVE  UNCHANGED vars
  BY <1>6 DEF Begin, Refuse, Write, Audit, Escape
<1>7. ASSUME NEW p \in Principals, ChangeRole(p) PROVE UNCHANGED vars
  BY <1>7 DEF ChangeRole
<1>8. CASE UNCHANGED gateVars
  BY <1>8 DEF gateVars
<1> QED
  BY <1>1, <1>2, <1>3, <1>4, <1>5, <1>6, <1>7, <1>8 DEF GateNext

\* A call that is still on its way has the role, and one that got past the gate has an
\* id to show for it: without the second, what Write() records would have no type.
CallsInOrder ==
  \A th \in Threads :
    /\ call[th].step \in {"verify", "stamp", "issue", "write"} => call[th].role
    /\ call[th].step = "write" => call[th].provided \in Ids

GateShape == GateTypeOK /\ Bookkeeping /\ CallsInOrder

\* The server starts with every thread idle and nothing on record.
LEMMA GateShapeInit == GateInit => GateShape
<1> SUFFICES ASSUME GateInit PROVE GateShape
  OBVIOUS
<1>1. TypeOK /\ Bookkeeping
  BY StoreInit DEF GateInit
<1>2. call \in [Threads -> Calls \cup {Idle}] /\ writer \subseteq Principals /\ lost \subseteq Ids
  BY DEF GateInit
<1>3. /\ attempts \in [Ids -> Seq([request : Requests, role : BOOLEAN, outcome : Outcomes])]
      /\ trail \in [Ids -> Seq(Outcomes)]
  BY EmptySeq DEF GateInit
<1>4. CallsInOrder
  BY DEF GateInit, CallsInOrder, Idle
<1> QED
  BY <1>1, <1>2, <1>3, <1>4 DEF GateTypeOK, GateShape

\* Every step keeps the types, of the store and of the calls in progress.
LEMMA GateShapeStep == GateShape /\ [GateNext]_gateVars => GateShape'
<1> SUFFICES ASSUME GateTypeOK, Bookkeeping, CallsInOrder, [GateNext]_gateVars
             PROVE  GateShape'
  BY DEF GateShape
<1>1. (TypeOK /\ Bookkeeping)'
  BY GateDrivesStore, StoreStep DEF GateTypeOK
<1>2. /\ call \in [Threads -> Calls \cup {Idle}]
      /\ writer \subseteq Principals /\ lost \subseteq Ids
      /\ attempts \in [Ids -> Seq([request : Requests, role : BOOLEAN, outcome : Outcomes])]
      /\ trail \in [Ids -> Seq(Outcomes)]
  BY DEF GateTypeOK
<1>3. call' \in [Threads -> Calls \cup {Idle}]
  <2>1. ASSUME NEW th \in Threads, NEW r \in Requests, NEW provided \in Presentable,
               Begin(th, r, provided)
        PROVE  call' \in [Threads -> Calls \cup {Idle}]
    <3>1. provided \in Ids \cup {NoConfirm}
      <4>1. Len(entry) \in Nat /\ Len(entry) <= MaxIds
        BY LenProperties DEF GateTypeOK, TypeOK
      <4> QED
        BY <4>1, BoundsAssumption DEF Presentable, Ids
    <3>2. [step |-> "verify", request |-> r, provided |-> provided,
           role |-> r.principal \in writer] \in Calls
      BY <3>1 DEF Calls
    <3>3. [step |-> "audit", outcome |-> "refused"] \in Calls
      BY DEF Calls
    <3> QED
      BY <1>2, <2>1, <3>2, <3>3 DEF Begin
  <2>2. ASSUME NEW th \in Threads, GateVerify(th) \/ GateStamp(th)
        PROVE  call' \in [Threads -> Calls \cup {Idle}]
    <3>1. PICK step \in {"write", "stamp", "issue"} : Goto(th, step)
      BY <2>2 DEF GateVerify, GateStamp
    <3>2. [call[th] EXCEPT !.step = step] \in Calls
      BY <2>2, CallFacts DEF GateVerify, GateStamp
    <3> QED
      BY <1>2, <3>1, <3>2 DEF Goto
  <2>3. ASSUME NEW th \in Threads, GateIssue(th)
        PROVE  call' \in [Threads -> Calls \cup {Idle}]
    <3>1. [step |-> "audit", outcome |-> "confirm_required"] \in Calls
      BY DEF Calls
    <3> QED
      BY <1>2, <2>3, <3>1 DEF GateIssue
  <2>4. ASSUME NEW th \in Threads, NEW outcome \in Outcomes,
               Refuse(th, outcome) \/ Write(th, outcome)
        PROVE  call' \in [Threads -> Calls \cup {Idle}]
    <3>1. call[th].provided \in Ids
      BY <2>4 DEF Refuse, Write, CallsInOrder
    <3>2. [step |-> "audit", outcome |-> outcome, paid |-> call[th].provided] \in Calls
      BY <3>1 DEF Calls
    <3> QED
      BY <1>2, <2>4, <3>2 DEF Refuse, Write, EndsAs
  <2>5. ASSUME NEW th \in Threads, Audit(th) \/ Escape(th)
        PROVE  call' \in [Threads -> Calls \cup {Idle}]
    BY <1>2, <2>5 DEF Audit, Escape
  <2>6. ASSUME \/ \E p \in Principals : ChangeRole(p)
               \/ GateRestart
               \/ \E t \in 0 .. MaxClock : GateClock(t)
               \/ UNCHANGED gateVars
        PROVE  call' \in [Threads -> Calls \cup {Idle}]
    BY <1>2, <2>6 DEF ChangeRole, GateRestart, GateClock, gateVars
  <2> QED
    BY <2>1, <2>2, <2>3, <2>4, <2>5, <2>6 DEF GateNext
<1>4. attempts' \in [Ids -> Seq([request : Requests, role : BOOLEAN, outcome : Outcomes])]
  <2>1. ASSUME NEW th \in Threads, NEW outcome \in Outcomes, Write(th, outcome)
        PROVE  attempts' \in [Ids -> Seq([request : Requests, role : BOOLEAN, outcome : Outcomes])]
    <3> DEFINE c == call[th]
               made == [request |-> c.request, role |-> c.role, outcome |-> outcome]
    <3>1. made \in [request : Requests, role : BOOLEAN, outcome : Outcomes]
      BY <2>1, CallFacts DEF Write
    <3>2. c.provided \in Ids
      BY <2>1 DEF Write, CallsInOrder
    <3>3. attempts' = [attempts EXCEPT ![c.provided] = Append(attempts[c.provided], made)]
      BY <2>1 DEF Write
    <3>4. Append(attempts[c.provided], made)
            \in Seq([request : Requests, role : BOOLEAN, outcome : Outcomes])
      <4> HIDE DEF made, c
      <4> QED BY <1>2, <3>1, <3>2, AppendFacts
    <3> HIDE DEF made, c
    <3> QED
      BY <1>2, <3>2, <3>3, <3>4
  <2>2. ASSUME ~ \E th \in Threads, outcome \in Outcomes : Write(th, outcome)
        PROVE  attempts' = attempts
    BY <2>2 DEF GateNext, Begin, GateVerify, GateStamp, GateIssue, Refuse, Audit, Escape, ChangeRole,
                GateRestart, GateClock, gateVars, outside
  <2> QED
    BY <1>2, <2>1, <2>2
<1>5. trail' \in [Ids -> Seq(Outcomes)]
  <2>1. ASSUME NEW th \in Threads, call[th].step = "audit"
        PROVE  Recorded(call[th]) \in [Ids -> Seq(Outcomes)]
    <3> DEFINE c == call[th]
    <3>1. CASE "paid" \in DOMAIN c
      <4>1. c.paid \in Ids /\ c.outcome \in Outcomes
        BY <3>1, CallFacts
      <4>2. Recorded(c) = [trail EXCEPT ![c.paid] = Append(trail[c.paid], c.outcome)]
        BY <3>1 DEF Recorded
      <4>3. Append(trail[c.paid], c.outcome) \in Seq(Outcomes)
        <5> HIDE DEF c
        <5> QED BY <1>2, <4>1, AppendFacts
      <4>4. ASSUME NEW new \in Seq(Outcomes)
            PROVE  [trail EXCEPT ![c.paid] = new] \in [Ids -> Seq(Outcomes)]
        BY <1>2, <4>1
      <4> QED
        BY <4>2, <4>3, <4>4
    <3>2. CASE "paid" \notin DOMAIN c
      BY <1>2, <3>2 DEF Recorded
    <3> QED
      BY <3>1, <3>2
  <2>2. ASSUME NEW th \in Threads, Audit(th) \/ Escape(th)
        PROVE  trail' \in [Ids -> Seq(Outcomes)]
    <3>1. call[th].step = "audit" /\ (trail' = trail \/ trail' = Recorded(call[th]))
      BY <2>2 DEF Audit, Escape
    <3> QED
      BY <1>2, <2>1, <3>1
  <2>3. ASSUME ~ \E th \in Threads : Audit(th) \/ Escape(th) PROVE trail' = trail
    BY <2>3 DEF GateNext, Begin, GateVerify, GateStamp, GateIssue, Refuse, Write, ChangeRole,
                GateRestart, GateClock, gateVars, outside
  <2> QED
    BY <1>2, <2>2, <2>3
<1>6. lost' \subseteq Ids /\ writer' \subseteq Principals
  <2>1. ASSUME NEW th \in Threads, Escape(th) PROVE lost' \subseteq Ids /\ writer' = writer
    BY <1>2, <2>1, CallFacts DEF Escape
  <2>2. ASSUME NEW p \in Principals, ChangeRole(p)
        PROVE  lost' = lost /\ writer' \subseteq Principals
    BY <1>2, <2>2 DEF ChangeRole
  <2>3. ASSUME ~ \E th \in Threads : Escape(th), ~ \E p \in Principals : ChangeRole(p)
        PROVE  UNCHANGED <<lost, writer>>
    BY <2>3 DEF GateNext, Begin, GateVerify, GateStamp, GateIssue, Refuse, Write, Audit,
                GateRestart, GateClock, gateVars, outside
  <2> QED
    BY <1>2, <2>1, <2>2, <2>3
<1>7. CallsInOrder'
  <2> SUFFICES ASSUME NEW t \in Threads
               PROVE  /\ call'[t].step \in {"verify", "stamp", "issue", "write"} => call'[t].role
                      /\ call'[t].step = "write" => call'[t].provided \in Ids
    BY DEF CallsInOrder
  <2>0. /\ call[t].step \in {"verify", "stamp", "issue", "write"} => call[t].role
        /\ call[t].step = "write" => call[t].provided \in Ids
    BY DEF CallsInOrder
  <2> DEFINE InOrder == /\ call'[t].step \in {"verify", "stamp", "issue", "write"} => call'[t].role
                        /\ call'[t].step = "write" => call'[t].provided \in Ids
  <2>1. ASSUME NEW th \in Threads, NEW r \in Requests, NEW provided \in Presentable,
               Begin(th, r, provided)
        PROVE  InOrder
    <3>1. CASE t = th
      <4> DEFINE begun == [step |-> "verify", request |-> r, provided |-> provided,
                           role |-> r.principal \in writer]
      <4>1. \/ r.principal \in writer /\ call'[th] = begun
            \/ call'[th].step = "audit"
        BY <1>2, <2>1 DEF Begin
      <4>2. begun.step = "verify" /\ begun.role = (r.principal \in writer)
        OBVIOUS
      <4> QED
        BY <3>1, <4>1, <4>2
    <3>2. CASE t # th
      <4>1. call'[t] = call[t]
        BY <1>2, <2>1, <3>2 DEF Begin
      <4> QED
        BY <2>0, <4>1
    <3> QED
      BY <3>1, <3>2
  <2>2. ASSUME NEW th \in Threads, GateVerify(th) PROVE InOrder
    <3> DEFINE c == call[th]
               verdict == Verdict(c.request, c.provided)
    <3>1. c.role /\ (verdict = "ok" => c.provided \in Ids)
      <4>1. verdict = "ok" => c.provided \in pending
        BY VerdictFacts
      <4>2. pending \subseteq Ids
        <5>1. Len(entry) \in Nat /\ Len(entry) <= MaxIds /\ pending \subseteq 1 .. Len(entry)
          BY LenProperties DEF GateTypeOK, TypeOK
        <5> QED
          BY <5>1, BoundsAssumption DEF Ids
      <4>3. c.role
        BY <2>2 DEF GateVerify, CallsInOrder
      <4> QED
        BY <4>1, <4>2, <4>3
    <3>2. call' = [call EXCEPT ![th].step = IF verdict = "ok" THEN "write" ELSE "stamp"]
      BY <2>2 DEF GateVerify, Goto
    <3>3. call[th].step = "verify"
      BY <2>2 DEF GateVerify
    <3> HIDE DEF verdict
    <3>4. CASE t = th
      <4>1. call[th] \in [step : {"verify", "stamp", "issue", "write"}, request : Requests,
                          provided : Ids \cup {NoConfirm}, role : BOOLEAN]
        BY <1>2, <3>3 DEF Calls, Idle
      <4>2. /\ call'[th].role = c.role /\ call'[th].provided = c.provided
            /\ call'[th].step = IF verdict = "ok" THEN "write" ELSE "stamp"
        BY <1>2, <3>2, <4>1
      <4>3. CASE verdict = "ok"
        BY <3>1, <3>4, <4>2, <4>3
      <4>4. CASE verdict # "ok"
        BY <3>1, <3>4, <4>2, <4>4
      <4> QED
        BY <4>3, <4>4
    <3>5. CASE t # th
      BY <1>2, <2>0, <3>2, <3>5
    <3> QED
      BY <3>4, <3>5
  <2>3. ASSUME NEW th \in Threads, GateStamp(th) PROVE InOrder
    <3>1. call' = [call EXCEPT ![th].step = "issue"] /\ call[th].step = "stamp"
      BY <2>3 DEF GateStamp, Goto
    <3>2. CASE t = th
      <4>1. call[th] \in [step : {"verify", "stamp", "issue", "write"}, request : Requests,
                          provided : Ids \cup {NoConfirm}, role : BOOLEAN]
        BY <1>2, <3>1 DEF Calls, Idle
      <4>2. call'[th].role = call[th].role /\ call'[th].step = "issue"
        BY <1>2, <3>1, <4>1
      <4> QED
        BY <2>0, <3>1, <3>2, <4>2
    <3>3. CASE t # th
      BY <1>2, <2>0, <3>1, <3>3
    <3> QED
      BY <3>2, <3>3
  <2>4. ASSUME NEW th \in Threads,
               \/ GateIssue(th)
               \/ \E outcome \in Outcomes : Refuse(th, outcome) \/ Write(th, outcome)
               \/ Audit(th) \/ Escape(th)
        PROVE  InOrder
    <3>1. CASE t = th
      <4>1. call'[th].step \in {"audit", "idle"}
        <5>1. CASE GateIssue(th)
          BY <1>2, <5>1 DEF GateIssue
        <5>2. ASSUME NEW outcome \in Outcomes, Refuse(th, outcome) \/ Write(th, outcome)
              PROVE  call'[th].step = "audit"
          BY <1>2, <5>2 DEF Refuse, Write, EndsAs
        <5>3. CASE Audit(th) \/ Escape(th)
          BY <1>2, <5>3 DEF Audit, Escape, Idle
        <5> QED
          BY <2>4, <5>1, <5>2, <5>3
      <4> QED
        BY <3>1, <4>1
    <3>2. CASE t # th
      <4>1. call'[t] = call[t]
        BY <1>2, <2>4, <3>2 DEF GateIssue, Refuse, Write, EndsAs, Audit, Escape
      <4> QED
        BY <2>0, <4>1
    <3> QED
      BY <3>1, <3>2
  <2>5. CASE GateRestart
    BY <2>5 DEF GateRestart, Idle
  <2>6. ASSUME \/ \E p \in Principals : ChangeRole(p)
               \/ \E x \in 0 .. MaxClock : GateClock(x)
               \/ UNCHANGED gateVars
        PROVE  InOrder
    BY <2>0, <2>6 DEF ChangeRole, GateClock, gateVars
  <2> QED
    BY <2>1, <2>2, <2>3, <2>4, <2>5, <2>6 DEF GateNext
<1> QED
  BY <1>1, <1>3, <1>4, <1>5, <1>6, <1>7 DEF GateShape, GateTypeOK

-------------------------------------------------------------------------------
(***************************************************************************)
(* The life of an id at the gate.                                          *)
(***************************************************************************)

\* A thread that has been granted an id, and one that has spent it.
Holds(th, id) == call[th].step = "write" /\ call[th].provided = id
HasPaid(th, id) == "paid" \in DOMAIN call[th] /\ call[th].paid = id
Uses(th, id) == Holds(th, id) \/ HasPaid(th, id)
OnlyUser(th, id) == \A t \in Threads : Uses(t, id) <=> t = th

\* The one call an id can pay for.
PaidFor(id, outcome) ==
  <<[request |-> entry[id].request, role |-> TRUE, outcome |-> outcome]>>

\* What is on record of an id spent with that outcome: the one call, or none at all.
Told(id, outcome) ==
  attempts[id] = PaidFor(id, outcome) \/ (attempts[id] = << >> /\ outcome # "ok")

\* Nobody has been granted the id.
Untouched(id) ==
  /\ granted[id] = << >> /\ attempts[id] = << >> /\ trail[id] = << >> /\ id \notin lost
  /\ \A th \in Threads : ~Uses(th, id)

\* One thread has been granted it, for its own request, and has not spent it yet.
InHand(id) ==
  /\ granted[id] # << >> /\ attempts[id] = << >> /\ trail[id] = << >> /\ id \notin lost
  /\ \E th \in Threads : /\ OnlyUser(th, id)
                         /\ Holds(th, id)
                         /\ call[th].request = entry[id].request

\* The thread has called, or been refused, and has not come to the audit line.
Spent(id) ==
  /\ granted[id] # << >> /\ trail[id] = << >> /\ id \notin lost
  /\ \E th \in Threads : /\ OnlyUser(th, id)
                         /\ HasPaid(th, id)
                         /\ Told(id, call[th].outcome)

\* No thread has to do with it any more: what came of it is on record, or its line was
\* lost, or the process died before the line or before anything came of it.
Closed(id) ==
  /\ granted[id] # << >>
  /\ \A th \in Threads : ~Uses(th, id)
  /\ \/ \E outcome \in Outcomes :
          /\ Told(id, outcome)
          /\ \/ trail[id] = <<outcome>>
             \/ trail[id] = << >> /\ (id \in lost \/ id <= boot)
     \/ attempts[id] = << >> /\ trail[id] = << >> /\ id <= boot

LifeOf(id) == Untouched(id) \/ InHand(id) \/ Spent(id) \/ Closed(id)

\* The inductive invariant of the gate: what the properties say of an id at one
\* moment is not enough to say what the thread that uses it will do to it next.
GateInv == GateShape /\ SingleUse /\ \A id \in Ids : LifeOf(id)

\* A step that leaves alone an id, what is on record of it and its user takes it nowhere.
LEMMA BystanderStays ==
  ASSUME NEW id \in Ids, LifeOf(id), boot \in Nat, boot' \in Nat, boot <= boot',
         granted'[id] = granted[id], attempts'[id] = attempts[id], trail'[id] = trail[id],
         id \in lost' <=> id \in lost,
         granted[id] # << >> => entry'[id] = entry[id],
         \A th \in Threads : \/ call'[th] = call[th]
                             \/ ~Uses(th, id) /\ ~Uses(th, id)'
  PROVE  LifeOf(id)'
<1>1. \A th \in Threads : Uses(th, id)' <=> Uses(th, id)
  BY DEF Uses, Holds, HasPaid
<1>2. CASE Untouched(id)
  BY <1>1, <1>2 DEF Untouched, LifeOf
<1>3. CASE InHand(id)
  <2>1. PICK th \in Threads : /\ OnlyUser(th, id) /\ Holds(th, id)
                              /\ call[th].request = entry[id].request
    BY <1>3 DEF InHand
  <2>2. OnlyUser(th, id)' /\ call'[th] = call[th]
    BY <1>1, <2>1 DEF OnlyUser
  <2>3. entry'[id] = entry[id]
    BY <1>3 DEF InHand
  <2>4. Holds(th, id)' /\ call'[th].request = entry'[id].request
    BY <2>1, <2>2, <2>3 DEF Holds
  <2>5. InHand(id)'
    BY <1>3, <2>2, <2>4 DEF InHand
  <2> QED
    BY <2>5 DEF LifeOf
<1>4. CASE Spent(id)
  <2>1. PICK th \in Threads : /\ OnlyUser(th, id) /\ HasPaid(th, id)
                              /\ Told(id, call[th].outcome)
    BY <1>4 DEF Spent
  <2>2. OnlyUser(th, id)' /\ call'[th] = call[th]
    BY <1>1, <2>1 DEF OnlyUser, Uses
  <2>3. entry'[id] = entry[id]
    BY <1>4 DEF Spent
  <2>4. HasPaid(th, id)' /\ Told(id, call[th].outcome)'
    BY <2>1, <2>2, <2>3 DEF HasPaid, Told, PaidFor
  <2>5. Spent(id)'
    BY <1>4, <2>2, <2>4 DEF Spent
  <2> QED
    BY <2>5 DEF LifeOf
<1>5. CASE Closed(id)
  <2>1. entry'[id] = entry[id]
    BY <1>5 DEF Closed
  <2>2. \A outcome : Told(id, outcome)' <=> Told(id, outcome)
    BY <2>1 DEF Told, PaidFor
  <2>3. id \in Nat
    BY BoundsAssumption DEF Ids
  <2>4. Closed(id)'
    BY <1>1, <1>5, <2>2, <2>3 DEF Closed
  <2> QED
    BY <2>4 DEF LifeOf
<1> QED
  BY <1>2, <1>3, <1>4, <1>5 DEF LifeOf

\* A thread that is neither at the write nor at the audit of one uses no id.
LEMMA OnlyWritersUse ==
  ASSUME GateTypeOK, NEW th \in Threads, NEW id,
         call[th].step \in {"verify", "stamp", "issue"} \/ call[th] = Idle
  PROVE  ~Uses(th, id)
  BY CallFacts DEF Uses, Holds, HasPaid

\* What is known of a granted id.
LEMMA GrantedFacts ==
  ASSUME GateShape, SingleUse, NEW id \in Ids
  PROVE  /\ Len(entry) \in Nat /\ boot \in Nat /\ boot <= Len(entry) /\ id \in Nat
         /\ granted[id] # << >> =>
              /\ id \in 1 .. Len(entry) /\ id \notin pending
              /\ granted[id] = <<entry[id].request>>
<1>1. Len(entry) \in Nat /\ DOMAIN entry = 1 .. Len(entry) /\ boot \in Nat /\ boot <= Len(entry)
  BY LenProperties DEF GateShape, GateTypeOK, TypeOK
<1>2. id \in Nat
  BY BoundsAssumption DEF Ids
<1>3. granted[id] # << >> =>
        /\ id \in DOMAIN entry /\ id \notin pending
        /\ granted[id] = <<entry[id].request>>
  BY DEF SingleUse, Contract!KeepsThePromise
<1> QED
  BY <1>1, <1>2, <1>3

\* The server starts with no id at all.
LEMMA GateInvInit == GateInit => GateInv
<1> SUFFICES ASSUME GateInit PROVE GateInv
  OBVIOUS
<1>1. GateShape /\ SingleUse
  BY GateShapeInit DEF GateInit, Init, SingleUse, Contract!KeepsThePromise
<1>2. ASSUME NEW id \in Ids PROVE Untouched(id)
  <2>1. \A th \in Threads : call[th] = Idle
    BY DEF GateInit
  <2>2. \A th \in Threads : ~Uses(th, id)
    BY <1>1, <2>1, OnlyWritersUse DEF GateShape
  <2>3. granted[id] = << >> /\ attempts[id] = << >> /\ trail[id] = << >> /\ id \notin lost
    BY DEF GateInit, Init
  <2> QED
    BY <2>2, <2>3 DEF Untouched
<1> QED
  BY <1>1, <1>2 DEF GateInv, LifeOf

\* Every step of the server moves an id one stage on at most: the grant to one thread,
\* the call, the audit line or its loss, or the restart that ends what was under way.
LEMMA GateInvStep == GateInv /\ [GateNext]_gateVars => GateInv'
<1> SUFFICES ASSUME GateInv, [GateNext]_gateVars PROVE GateInv'
  OBVIOUS
<1>1. GateShape /\ SingleUse /\ GateTypeOK /\ TypeOK /\ Bookkeeping /\ CallsInOrder
  BY DEF GateInv, GateShape, GateTypeOK
<1>2. GateShape' /\ SingleUse'
  BY <1>1, GateShapeStep, GateDrivesStore, SingleUseStep
<1>3. boot \in Nat /\ boot' \in Nat /\ Len(entry) \in Nat
  BY <1>1, <1>2, LenProperties DEF GateShape, GateTypeOK, TypeOK
<1>4. ASSUME NEW id \in Ids PROVE LifeOf(id)'
  <2>1. LifeOf(id)
    BY DEF GateInv
  <2>2. /\ id \in Nat /\ boot <= Len(entry)
        /\ granted[id] # << >> => /\ id \in 1 .. Len(entry) /\ id \notin pending
                                  /\ granted[id] = <<entry[id].request>>
    BY <1>1, GrantedFacts
  <2>3. /\ call \in [Threads -> Calls \cup {Idle}]
        /\ granted \in [Ids -> Seq(Requests)]
        /\ attempts \in [Ids -> Seq([request : Requests, role : BOOLEAN, outcome : Outcomes])]
        /\ trail \in [Ids -> Seq(Outcomes)]
    BY <1>1 DEF GateTypeOK, TypeOK
  <2>4. ASSUME NEW th \in Threads, NEW r \in Requests, NEW provided \in Presentable,
               Begin(th, r, provided)
        PROVE  LifeOf(id)'
    <3>1. call[th] = Idle /\ UNCHANGED <<vars, outside>>
          /\ \A t \in Threads \ {th} : call'[t] = call[t]
      BY <2>3, <2>4 DEF Begin
    <3>2. ~Uses(th, id)
      BY <1>1, <3>1, OnlyWritersUse
    <3>3. ~Uses(th, id)'
      <4>1. \/ call'[th] = [step |-> "verify", request |-> r, provided |-> provided,
                             role |-> r.principal \in writer]
            \/ call'[th] = [step |-> "audit", outcome |-> "refused"]
        BY <2>3, <2>4 DEF Begin
      <4>2. call'[th].step # "write" /\ "paid" \notin DOMAIN call'[th]
        <5>1. CASE call'[th] = [step |-> "verify", request |-> r, provided |-> provided,
                                role |-> r.principal \in writer]
          BY <5>1
        <5>2. CASE call'[th] = [step |-> "audit", outcome |-> "refused"]
          BY <5>2
        <5> QED
          BY <4>1, <5>1, <5>2
      <4> QED
        BY <4>2 DEF Uses, Holds, HasPaid
    <3> QED
      BY <1>3, <2>1, <3>1, <3>2, <3>3, BystanderStays DEF vars, store, history, outside
  <2>5. ASSUME NEW th \in Threads, GateVerify(th) PROVE LifeOf(id)'
    <3> DEFINE c == call[th]
               verdict == Verdict(c.request, c.provided)
    <3>1. /\ c.step = "verify"
          /\ call' = [call EXCEPT ![th].step = IF verdict = "ok" THEN "write" ELSE "stamp"]
          /\ granted' = IF verdict = "ok"
                        THEN [granted EXCEPT ![c.provided] = Append(@, c.request)]
                        ELSE granted
          /\ UNCHANGED <<entry, boot, outside>>
      BY <2>5 DEF GateVerify, Verify, Goto
    <3>2. \A t \in Threads : Uses(t, id) => t # th
      BY <1>1, <3>1, OnlyWritersUse
    <3>3. /\ \A t \in Threads \ {th} : call'[t] = call[t]
          /\ call'[th].step = IF verdict = "ok" THEN "write" ELSE "stamp"
          /\ call'[th].provided = c.provided /\ call'[th].request = c.request
          /\ "paid" \notin DOMAIN call'[th]
      <4>1. c \in [step : {"verify", "stamp", "issue", "write"}, request : Requests,
                   provided : Ids \cup {NoConfirm}, role : BOOLEAN]
        BY <2>3, <3>1 DEF Calls, Idle
      <4> HIDE DEF verdict
      <4> QED
        BY <2>3, <3>1, <4>1
    <3>4. CASE verdict = "ok" /\ c.provided = id
      <4>1. id \in pending /\ entry[id].request = c.request
        BY <3>4, VerdictFacts
      <4>2. Untouched(id)
        BY <2>1, <2>2, <4>1 DEF LifeOf, InHand, Spent, Closed
      <4>3. granted'[id] = Append(granted[id], c.request) /\ granted[id] \in Seq(Requests)
        BY <2>3, <3>1, <3>4
      <4>4. granted'[id] # << >>
        <5>1. c.request \in Requests
          BY <1>1, <3>1, CallFacts
        <5>2. Len(granted'[id]) = Len(granted[id]) + 1 /\ Len(granted[id]) \in Nat
          <6> HIDE DEF c
          <6> QED BY <4>3, <5>1, AppendFacts, LenProperties
        <5> QED
          BY <5>2, EmptySeq
      <4>5. \A t \in Threads : Uses(t, id)' <=> t = th
        <5>1. Uses(th, id)'
          BY <3>3, <3>4 DEF Uses, Holds
        <5>2. ASSUME NEW t \in Threads, t # th PROVE ~Uses(t, id)'
          BY <3>3, <4>2, <5>2 DEF Untouched, Uses, Holds, HasPaid
        <5> QED
          BY <5>1, <5>2
      <4>6. Holds(th, id)' /\ call'[th].request = entry'[id].request
        BY <3>1, <3>3, <3>4, <4>1 DEF Holds
      <4>7. InHand(id)'
        BY <3>1, <4>2, <4>4, <4>5, <4>6 DEF InHand, OnlyUser, Untouched, outside
      <4> QED
        BY <4>7 DEF LifeOf
    <3>5. CASE ~(verdict = "ok" /\ c.provided = id)
      <4>1. granted'[id] = granted[id]
        BY <2>3, <3>1, <3>5
      <4>2. ~Uses(th, id)'
        BY <3>3, <3>5 DEF Uses, Holds, HasPaid
      <4> QED
        BY <1>3, <2>1, <3>1, <3>2, <3>3, <4>1, <4>2, BystanderStays DEF outside
    <3> QED
      BY <3>4, <3>5
  <2>6. ASSUME NEW th \in Threads, GateStamp(th) \/ GateIssue(th) PROVE LifeOf(id)'
    <3>1. /\ call[th].step \in {"stamp", "issue"}
          /\ \A t \in Threads \ {th} : call'[t] = call[t]
          /\ UNCHANGED <<granted, boot, outside>>
      BY <2>3, <2>6 DEF GateStamp, GateIssue, Goto, ReadClock, Issue, history, store
    <3>2. ~Uses(th, id)
      BY <1>1, <3>1, OnlyWritersUse
    <3>3. ~Uses(th, id)'
      <4>1. CASE GateIssue(th)
        <5>1. call'[th] = [step |-> "audit", outcome |-> "confirm_required"]
          BY <2>3, <4>1 DEF GateIssue
        <5> QED
          BY <5>1 DEF Uses, Holds, HasPaid
      <4>2. CASE GateStamp(th)
        <5>1. call[th] \in [step : {"verify", "stamp", "issue", "write"}, request : Requests,
                            provided : Ids \cup {NoConfirm}, role : BOOLEAN]
          BY <2>3, <4>2 DEF GateStamp, Calls, Idle
        <5>2. call'[th].step = "issue" /\ "paid" \notin DOMAIN call'[th]
          BY <2>3, <4>2, <5>1 DEF GateStamp, Goto
        <5> QED
          BY <5>2 DEF Uses, Holds, HasPaid
      <4> QED
        BY <2>6, <4>1, <4>2
    <3>4. granted[id] # << >> => entry'[id] = entry[id]
      <4>1. CASE GateIssue(th)
        <5>1. call[th].request \in Requests /\ Issue(th, call[th].request)
          BY <1>1, <4>1, CallFacts DEF GateIssue
        <5> QED
          BY <1>1, <2>2, <5>1, IssueFacts
      <4>2. CASE GateStamp(th)
        BY <4>2 DEF GateStamp, ReadClock, store
      <4> QED
        BY <2>6, <4>1, <4>2
    <3> QED
      BY <1>3, <2>1, <3>1, <3>2, <3>3, <3>4, BystanderStays DEF outside
  <2>7. ASSUME NEW th \in Threads, NEW outcome \in Outcomes,
               Write(th, outcome) \/ (Refuse(th, outcome) /\ outcome # "ok")
        PROVE  LifeOf(id)'
    <3> DEFINE c == call[th]
               made == [request |-> c.request, role |-> c.role, outcome |-> outcome]
    <3>1. /\ c.step = "write" /\ c.provided \in Ids /\ c.role = TRUE
          /\ \/ attempts' = [attempts EXCEPT ![c.provided] = Append(@, made)]
             \/ attempts' = attempts /\ outcome # "ok"
          /\ call' = [call EXCEPT ![th] =
               [step |-> "audit", outcome |-> outcome, paid |-> c.provided]]
          /\ UNCHANGED <<granted, entry, boot, trail, lost>>
      <4>1. c.role \in BOOLEAN /\ c.role /\ c.step = "write" /\ c.provided \in Ids
        BY <1>1, <2>7, CallFacts DEF Refuse, Write, CallsInOrder
      <4> QED
        BY <2>7, <4>1 DEF Refuse, Write, EndsAs, outside, vars, store, history
    <3>2. Uses(th, c.provided) /\ "paid" \notin DOMAIN c
      BY <1>1, <3>1, CallFacts DEF Uses, Holds
    <3>3. /\ \A t \in Threads \ {th} : call'[t] = call[t]
          /\ call'[th].step = "audit" /\ call'[th].paid = c.provided
          /\ call'[th].outcome = outcome /\ "paid" \in DOMAIN call'[th]
      BY <2>3, <3>1
    <3>4. CASE c.provided = id
      <4>1. InHand(id)
        <5>1. ~Untouched(id) /\ ~Closed(id)
          BY <3>2, <3>4 DEF Untouched, Closed
        <5>2. ~Spent(id)
          BY <3>2, <3>4 DEF Spent, OnlyUser, HasPaid
        <5> QED
          BY <2>1, <5>1, <5>2 DEF LifeOf
      <4>2. /\ OnlyUser(th, id) /\ c.request = entry[id].request
            /\ granted[id] # << >> /\ attempts[id] = << >>
            /\ trail[id] = << >> /\ id \notin lost
        BY <3>2, <3>4, <4>1 DEF InHand, OnlyUser
      <4>3. Told(id, outcome)'
        <5>1. CASE attempts' = attempts /\ outcome # "ok"
          BY <4>2, <5>1 DEF Told
        <5>2. CASE attempts' = [attempts EXCEPT ![c.provided] = Append(@, made)]
          <6>1. attempts'[id] = Append(<< >>, made)
            BY <2>3, <3>1, <3>4, <4>2, <5>2
          <6>2. made = [request |-> entry'[id].request, role |-> TRUE, outcome |-> outcome]
            BY <3>1, <4>2
          <6>3. Append(<< >>, made) = <<made>>
            OBVIOUS
          <6> HIDE DEF made
          <6> QED
            BY <6>1, <6>2, <6>3 DEF Told, PaidFor
        <5> QED
          BY <3>1, <5>1, <5>2
      <4>4. HasPaid(th, id)'
        BY <3>3, <3>4 DEF HasPaid
      <4>5. OnlyUser(th, id)'
        <5>1. ASSUME NEW t \in Threads, t # th PROVE ~Uses(t, id)'
          BY <3>3, <4>2, <5>1 DEF OnlyUser, Uses, Holds, HasPaid
        <5> QED
          BY <4>4, <5>1 DEF OnlyUser, Uses
      <4>6. Spent(id)'
        BY <3>1, <3>3, <4>2, <4>3, <4>4, <4>5 DEF Spent
      <4> QED
        BY <4>6 DEF LifeOf
    <3>5. CASE c.provided # id
      <4>1. attempts'[id] = attempts[id]
        BY <2>3, <3>1, <3>5
      <4>2. ~Uses(th, id) /\ ~Uses(th, id)'
        BY <3>1, <3>2, <3>3, <3>5 DEF Uses, Holds, HasPaid
      <4> QED
        BY <1>3, <2>1, <3>1, <3>3, <4>1, <4>2, BystanderStays
    <3> QED
      BY <3>4, <3>5
  <2>8. ASSUME NEW th \in Threads, Audit(th) \/ Escape(th) PROVE LifeOf(id)'
    <3> DEFINE c == call[th]
    <3>1. /\ c.step = "audit" /\ call' = [call EXCEPT ![th] = Idle]
          /\ UNCHANGED <<granted, entry, boot, attempts>>
      BY <2>8 DEF Audit, Escape, vars, store, history
    <3>2. /\ \A t \in Threads \ {th} : call'[t] = call[t]
          /\ call'[th] = Idle
      BY <2>3, <3>1
    <3>3. ~Uses(th, id)'
      BY <1>1, <3>2, CallFacts DEF Uses, Holds, HasPaid, Idle
    <3>4. CASE HasPaid(th, id)
      <4>1. "paid" \in DOMAIN c /\ c.paid = id /\ c.outcome \in Outcomes
        BY <1>1, <3>4, CallFacts DEF HasPaid
      <4>2. Spent(id)
        <5>1. ~Untouched(id) /\ ~Closed(id)
          BY <3>4 DEF Untouched, Closed, Uses
        <5>2. ~InHand(id)
          BY <3>1, <3>4 DEF InHand, OnlyUser, Uses, Holds
        <5> QED
          BY <2>1, <5>1, <5>2 DEF LifeOf
      <4>3. /\ OnlyUser(th, id) /\ Told(id, c.outcome)
            /\ granted[id] # << >> /\ trail[id] = << >>
        BY <3>4, <4>2 DEF Spent, OnlyUser, Uses
      <4>4. ASSUME NEW t \in Threads PROVE ~Uses(t, id)'
        BY <3>2, <3>3, <4>3 DEF OnlyUser, Uses, Holds, HasPaid
      <4>5. \/ trail'[id] = <<c.outcome>>
            \/ trail'[id] = << >> /\ id \in lost'
        <5>1. Recorded(c)[id] = <<c.outcome>>
          <6>1. Recorded(c) = [trail EXCEPT ![id] = Append(@, c.outcome)]
            BY <4>1 DEF Recorded
          <6>2. Recorded(c)[id] = Append(<< >>, c.outcome)
            BY <2>3, <4>3, <6>1
          <6>3. Append(<< >>, c.outcome) = <<c.outcome>>
            OBVIOUS
          <6> QED
            BY <6>2, <6>3
        <5>2. CASE Audit(th)
          BY <5>1, <5>2 DEF Audit
        <5>3. CASE Escape(th)
          BY <4>1, <4>3, <5>1, <5>3 DEF Escape
        <5> QED
          BY <2>8, <5>2, <5>3
      <4>6. Closed(id)'
        BY <3>1, <4>1, <4>3, <4>4, <4>5 DEF Closed, Told, PaidFor
      <4> QED
        BY <4>6 DEF LifeOf
    <3>5. CASE ~HasPaid(th, id)
      <4>1. ~Uses(th, id)
        BY <3>1, <3>5 DEF Uses, Holds
      <4>2. trail'[id] = trail[id] /\ (id \in lost' <=> id \in lost)
        <5>1. Recorded(c)[id] = trail[id]
          <6>1. CASE "paid" \in DOMAIN c
            <7>1. c.paid # id /\ c.paid \in Ids
              BY <1>1, <3>5, <6>1, CallFacts DEF HasPaid
            <7> QED
              BY <2>3, <6>1, <7>1 DEF Recorded
          <6>2. CASE "paid" \notin DOMAIN c
            BY <6>2 DEF Recorded
          <6> QED
            BY <6>1, <6>2
        <5>2. CASE Audit(th)
          BY <5>1, <5>2 DEF Audit
        <5>3. CASE Escape(th)
          BY <3>5, <5>1, <5>3 DEF Escape, HasPaid
        <5> QED
          BY <2>8, <5>2, <5>3
      <4> QED
        BY <1>3, <2>1, <3>1, <3>2, <3>3, <4>1, <4>2, BystanderStays
    <3> QED
      BY <3>4, <3>5
  <2>9. CASE GateRestart
    <3>1. /\ \A t \in Threads : call'[t] = Idle
          /\ boot' = Len(entry)
          /\ UNCHANGED <<granted, entry, attempts, trail, lost>>
      BY <2>9 DEF GateRestart, Restart, outside
    <3>2. \A t \in Threads : ~Uses(t, id)'
      BY <1>1, <3>1, CallFacts DEF Uses, Holds, HasPaid, Idle
    <3>3. CASE granted[id] = << >>
      <4>1. Untouched(id)'
        BY <2>1, <3>1, <3>2, <3>3 DEF LifeOf, Untouched, InHand, Spent, Closed
      <4> QED
        BY <4>1 DEF LifeOf
    <3>4. CASE granted[id] # << >>
      <4>1. id <= boot'
        BY <1>3, <2>2, <3>1, <3>4
      <4>2. \A outcome : Told(id, outcome)' <=> Told(id, outcome)
        BY <3>1 DEF Told, PaidFor
      <4>3. \/ \E outcome \in Outcomes :
                 /\ Told(id, outcome)
                 /\ trail[id] = <<outcome>> \/ trail[id] = << >>
            \/ attempts[id] = << >> /\ trail[id] = << >>
        <5>1. CASE Spent(id)
          <6>1. PICK t \in Threads : HasPaid(t, id) /\ Told(id, call[t].outcome)
            BY <5>1 DEF Spent
          <6>2. call[t].outcome \in Outcomes
            BY <1>1, <6>1, CallFacts DEF HasPaid
          <6> QED
            BY <5>1, <6>1, <6>2 DEF Spent
        <5>2. CASE ~Spent(id)
          BY <2>1, <3>4, <5>2 DEF LifeOf, Untouched, InHand, Closed
        <5> QED
          BY <5>1, <5>2
      <4>4. Closed(id)'
        BY <3>1, <3>2, <3>4, <4>1, <4>2, <4>3 DEF Closed
      <4> QED
        BY <4>4 DEF LifeOf
    <3> QED
      BY <3>3, <3>4
  <2>10. ASSUME \/ \E p \in Principals : ChangeRole(p)
                \/ \E t \in 0 .. MaxClock : GateClock(t)
                \/ UNCHANGED gateVars
         PROVE  LifeOf(id)'
    <3>1. UNCHANGED <<call, granted, entry, boot, attempts, trail, lost>>
      BY <2>10 DEF ChangeRole, GateClock, SetClock, gateVars, outside, vars, store, history
    <3> QED
      BY <1>3, <2>1, <3>1, BystanderStays
  <2> QED
    BY <2>4, <2>5, <2>6, <2>7, <2>8, <2>9, <2>10 DEF GateNext
<1> QED
  BY <1>1, <1>2, <1>4 DEF GateInv

\* The inductive invariant of the gate, for every number of threads, principals and ids.
LEMMA GateInvHolds == GateSpec => []GateInv
  BY GateInvInit, GateInvStep, PTL DEF GateSpec

\* What the threads carry from step to step is what the next step takes it for, and so
\* is all the store and the histories hold.
THEOREM GateTypes == GateSpec => []GateTypeOK
<1>1. GateInv => GateTypeOK
  BY DEF GateInv, GateShape
<1> QED
  BY <1>1, GateInvHolds, PTL

\* Driven by the gate, too, the store keeps the contract of ConfirmationBackend: what
\* the threads do between their two critical sections cannot make it say yes twice.
THEOREM GateKeepsContract == GateSpec => KeepsContract
<1>1. GateInit => Contract!ContractInit
  BY ContractInitially DEF GateInit
<1>2. GateInv /\ GateInv' /\ [GateNext]_gateVars => [Contract!ContractNext]_(Contract!cvars)
  BY GateDrivesStore, ContractStep DEF GateInv, GateShape, GateTypeOK
<1> QED
  BY <1>1, <1>2, GateInvHolds, PTL DEF GateSpec, KeepsContract, Contract!ContractSpec

\* A confirmation pays for one backend call at most, for the request it was prepared
\* for and by a principal that still has the role, however many threads present it.
THEOREM OneWritePerConfirmationHolds == GateSpec => []OneWritePerConfirmation
<1>1. GateInv => OneWritePerConfirmation
  <2> SUFFICES ASSUME GateInv, NEW id \in Ids, attempts[id] # << >>
               PROVE  /\ Len(attempts[id]) = 1
                      /\ attempts[id][1].request = entry[id].request
                      /\ attempts[id][1].role
    BY DEF OneWritePerConfirmation
  <2>1. PICK outcome : attempts[id] = PaidFor(id, outcome)
    BY DEF GateInv, LifeOf, Untouched, InHand, Spent, Closed, Told
  <2> QED
    BY <2>1 DEF PaidFor
<1> QED
  BY <1>1, GateInvHolds, PTL

\* Every confirmation that was spent has one line in the audit trail, which tells a write
\* from a refusal behind the gate and says what came of it; or its tool call is on its
\* way there, or was lost in one of the two ways SECURITY.md admits.  What no thread was
\* granted has neither a write nor a line.
THEOREM AuditAccountsForWritesHolds == GateSpec => []AuditAccountsForWrites
<1>1. GateInv => AuditAccountsForWrites
  <2> SUFFICES ASSUME GateInv, NEW id \in Ids
               PROVE  \/ granted[id] = << >> /\ attempts[id] = << >> /\ trail[id] = << >>
                      \/ /\ granted[id] # << >>
                         /\ \/ \E outcome \in Outcomes :
                                 trail[id] = <<outcome>> /\ Tells(id, outcome)
                            \/ /\ trail[id] = << >>
                               /\ \/ \E th \in Threads : OnTheWay(th, id)
                                  \/ id \in lost \/ id <= boot
    BY DEF AuditAccountsForWrites
  <2>1. ASSUME NEW outcome, Told(id, outcome) PROVE Tells(id, outcome)
    <3>1. CASE attempts[id] = PaidFor(id, outcome)
      <4>1. [i \in DOMAIN attempts[id] |-> attempts[id][i].outcome] = <<outcome>>
        BY <3>1 DEF PaidFor
      <4> QED
        BY <4>1 DEF Tells
    <3>2. CASE attempts[id] = << >> /\ outcome # "ok"
      BY <3>2 DEF Tells
    <3> QED
      BY <2>1, <3>1, <3>2 DEF Told
  <2>2. CASE Untouched(id)
    BY <2>2 DEF Untouched
  <2>3. CASE InHand(id)
    <3>1. PICK th \in Threads : Holds(th, id)
      BY <2>3 DEF InHand
    <3>2. OnTheWay(th, id) /\ granted[id] # << >> /\ trail[id] = << >>
      BY <2>3, <3>1 DEF InHand, Holds, OnTheWay
    <3> QED
      BY <3>2
  <2>4. CASE Spent(id)
    <3>1. PICK th \in Threads : HasPaid(th, id) /\ Told(id, call[th].outcome)
      BY <2>4 DEF Spent
    <3>2. OnTheWay(th, id) /\ granted[id] # << >> /\ trail[id] = << >>
      BY <2>1, <2>4, <3>1 DEF Spent, HasPaid, OnTheWay
    <3> QED
      BY <3>2
  <2>5. CASE Closed(id)
    BY <2>1, <2>5 DEF Closed
  <2> QED
    BY <2>2, <2>3, <2>4, <2>5 DEF GateInv, LifeOf
<1> QED
  BY <1>1, GateInvHolds, PTL
===============================================================================

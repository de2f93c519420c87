--------------------------- MODULE ConfirmationStore ---------------------------
(***************************************************************************)
(* The in-process confirmation store of the gateway (confirm.py): bounded, *)
(* single-use, short-lived tokens that a client must present before a      *)
(* write is carried out.                                                   *)
(*                                                                         *)
(* An id stands for the random nonce: ids count up, so the order of ids is *)
(* the insertion order both dictionaries keep.  A stored tuple never       *)
(* changes, so `entry` holds the tuple of every id ever issued and         *)
(* `pending` says which of them the store still has.  Digests are taken to *)
(* be injective: an identity key is (principal, tool), an action key the   *)
(* whole request.                                                          *)
(***************************************************************************)
EXTENDS Naturals, Sequences, FiniteSets

CONSTANTS
  Principals,       \* (actor, project, token id, issue project), as one value
  Tools, Args,
  Requests,         \* the (principal, tool, arguments) that are asked for
  Threads,          \* server threads that can be inside issue()
  Ttl, MaxEntries, MaxPerPrincipal,
  MaxIds,           \* bound: ids ever issued
  MaxClock,         \* bound: values the wall clock takes
  NoStamp, NoConfirm, Malformed

ASSUME CapsAssumption == MaxEntries \in Nat \ {0} /\ MaxPerPrincipal \in Nat \ {0}
ASSUME BoundsAssumption == Ttl \in Nat /\ MaxIds \in Nat /\ MaxClock \in Nat
ASSUME RequestsAssumption ==
  Requests \subseteq [principal : Principals, tool : Tools, args : Args]
ASSUME StampAssumption == NoStamp \notin Nat
ASSUME ProvidedAssumption == NoConfirm \notin Nat /\ Malformed \notin Nat

Ids == 1 .. MaxIds
Entries == [request : Requests, expiry : Nat]

VARIABLES
  pending,    \* ids in self._pending
  owned,      \* self._owned: the ids each principal holds
  entry,      \* the tuple stored under each id, in the order of issue
  clock,      \* time.time(): it may be set back
  stamp,      \* the `now` a thread read on its way to the lock in issue()
  granted,    \* history: the requests verify() said yes to, per id
  latest,     \* history: the latest time the clock has shown
  boot,       \* history: ids issued before the last restart
  crowded     \* history: the total cap has pushed an id out since then

store == <<pending, owned, entry>>
history == <<granted, latest, boot, crowded>>
vars == <<store, clock, stamp, history>>

-------------------------------------------------------------------------------
Owner(id) == entry[id].request.principal

Oldest(S) == CHOOSE i \in S : \A j \in S : i <= j

\* min(self._pending, key=expiry): the first of the soonest to expire.
SoonestExpiry(S) ==
  Oldest({i \in S : \A j \in S : entry[i].expiry <= entry[j].expiry})

\* _prune
Expired(now) == {id \in pending : entry[id].expiry <= now}

\* Faulty variants: the cap is noticed one id too late, or the newest id goes.
LateOwnVictim(p, now) ==
  LET held == owned[p] \ Expired(now)
  IN  IF Cardinality(held) > MaxPerPrincipal THEN {Oldest(held)} ELSE {}

NewestOwnVictim(p, now) ==
  LET held == owned[p] \ Expired(now)
  IN  IF Cardinality(held) >= MaxPerPrincipal
      THEN {CHOOSE i \in held : \A j \in held : i >= j}
      ELSE {}

\* A principal at its cap gives up its own oldest id ...
OwnVictim(p, now) ==
  LET held == owned[p] \ Expired(now)
  IN  IF Cardinality(held) >= MaxPerPrincipal THEN {Oldest(held)} ELSE {}

\* Faulty variant: the total cap is reached one id too early.
EarlyTotalVictim(p, now) ==
  LET left == pending \ (Expired(now) \cup OwnVictim(p, now))
  IN  IF Cardinality(left) + 1 >= MaxEntries /\ left # {} THEN {SoonestExpiry(left)} ELSE {}

\* ... and after that a full store gives up whichever expires first.
TotalVictim(p, now) ==
  LET left == pending \ (Expired(now) \cup OwnVictim(p, now))
  IN  IF Cardinality(left) >= MaxEntries THEN {SoonestExpiry(left)} ELSE {}

Dropped(p, now) == Expired(now) \cup OwnVictim(p, now) \cup TotalVictim(p, now)

\* secrets.token_urlsafe: an id nobody has seen.
NewId == Len(entry) + 1

\* _drop: an id leaves _pending and the list of the owner stored in its tuple.
OwnedWithout(gone) == [p \in Principals |-> owned[p] \ {id \in gone \cap pending : Owner(id) = p}]

\* Faulty variants: the expiry is looked at before the identity, or the arguments
\* are not looked at.
ExpiryFirstVerdict(held, now, r, provided) ==
  IF provided = NoConfirm THEN "first"
  ELSE IF provided = Malformed THEN "malformed"
  ELSE IF provided \notin held THEN "unknown"
  ELSE LET e == entry[provided]
       IN  IF e.expiry <= now THEN "expired"
           ELSE IF <<e.request.principal, e.request.tool>> # <<r.principal, r.tool>> THEN "unknown"
           ELSE IF e.request # r THEN "changed"
           ELSE "ok"

AnyArgsVerdict(held, now, r, provided) ==
  IF provided = NoConfirm THEN "first"
  ELSE IF provided = Malformed THEN "malformed"
  ELSE IF provided \notin held THEN "unknown"
  ELSE LET e == entry[provided]
       IN  IF <<e.request.principal, e.request.tool>> # <<r.principal, r.tool>> THEN "unknown"
           ELSE IF e.expiry <= now THEN "expired"
           ELSE "ok"

\* verify()'s decision over the ids in `held` at time `now`.  Nothing about an
\* entry may show before its identity has been checked.
VerdictOver(held, now, r, provided) ==
  IF provided = NoConfirm THEN "first"
  ELSE IF provided = Malformed THEN "malformed"
  ELSE IF provided \notin held THEN "unknown"
  ELSE LET e == entry[provided]
       IN  IF <<e.request.principal, e.request.tool>> # <<r.principal, r.tool>> THEN "unknown"
           ELSE IF e.expiry <= now THEN "expired"
           ELSE IF e.request # r THEN "changed"
           ELSE "ok"

Verdict(r, provided) == VerdictOver(pending, clock, r, provided)

\* Faulty variant: a successful verify() leaves the id behind.
OnlyExpiredConsumed(verdict) == verdict = "expired"

Consumed(verdict) == verdict \in {"expired", "ok"}

-------------------------------------------------------------------------------
Init ==
  /\ pending = {}
  /\ owned = [p \in Principals |-> {}]
  /\ entry = << >>
  /\ clock \in 0 .. MaxClock
  /\ stamp = [th \in Threads |-> NoStamp]
  /\ granted = [id \in Ids |-> << >>]
  /\ latest = clock
  /\ boot = 0
  /\ crowded = FALSE

\* The wall clock moves, in either direction.
SetClock(t) ==
  /\ clock' = t
  /\ latest' = IF t > latest THEN t ELSE latest
  /\ UNCHANGED <<store, stamp, granted, boot, crowded>>

\* issue() reads the clock before it takes the lock.
ReadClock(th) ==
  /\ stamp[th] = NoStamp
  /\ stamp' = [stamp EXCEPT ![th] = clock]
  /\ UNCHANGED <<store, clock, history>>

\* The critical section of issue().
Issue(th, r) ==
  /\ stamp[th] # NoStamp
  /\ Len(entry) < MaxIds
  /\ LET p    == r.principal
         gone == Dropped(p, stamp[th])
     IN  /\ pending' = (pending \ gone) \cup {NewId}
         /\ owned' = [OwnedWithout(gone) EXCEPT ![p] = @ \cup {NewId}]
         /\ entry' = Append(entry, [request |-> r, expiry |-> stamp[th] + Ttl])
         /\ crowded' = (crowded \/ TotalVictim(p, stamp[th]) # {})
  /\ stamp' = [stamp EXCEPT ![th] = NoStamp]
  /\ UNCHANGED <<clock, granted, latest, boot>>

\* The critical section of verify(): an id that has expired, or that is
\* granted, is gone afterwards; every other answer leaves the store alone.
Verify(r, provided) ==
  LET verdict == Verdict(r, provided)
      gone    == IF Consumed(verdict) THEN {provided} ELSE {}
  IN  /\ pending' = pending \ gone
      /\ owned' = OwnedWithout(gone)
      /\ granted' = IF verdict = "ok"
                    THEN [granted EXCEPT ![provided] = Append(@, r)]
                    ELSE granted
      /\ UNCHANGED <<entry, clock, stamp, latest, boot, crowded>>

\* The process is restarted: everything pending is lost.
Restart ==
  /\ pending' = {}
  /\ owned' = [p \in Principals |-> {}]
  /\ stamp' = [th \in Threads |-> NoStamp]
  /\ boot' = Len(entry)
  /\ crowded' = FALSE
  /\ UNCHANGED <<entry, clock, granted, latest>>

Next ==
  \/ \E t \in 0 .. MaxClock : SetClock(t)
  \/ \E th \in Threads : ReadClock(th)
  \/ \E th \in Threads, r \in Requests : Issue(th, r)
  \/ \E r \in Requests, provided \in Ids \cup {NoConfirm, Malformed} : Verify(r, provided)
  \/ Restart

Spec == Init /\ [][Next]_vars

-------------------------------------------------------------------------------
(***************************************************************************)
(* Properties.                                                             *)
(***************************************************************************)
TypeOK ==
  /\ entry \in Seq(Entries)
  /\ Len(entry) <= MaxIds
  /\ pending \subseteq 1 .. Len(entry)
  /\ owned \in [Principals -> SUBSET Nat]
  /\ clock \in Nat
  /\ stamp \in [Threads -> Nat \cup {NoStamp}]
  /\ granted \in [Ids -> Seq(Requests)]
  /\ latest \in Nat
  /\ boot \in 0 .. Len(entry)
  /\ crowded \in BOOLEAN

\* The two indexes agree: a principal's list holds exactly its pending ids.
\* A list that lost an id would stop counting towards the cap, and one that
\* kept a dead id would evict on behalf of nothing.
Bookkeeping ==
  \A p \in Principals : owned[p] = {id \in pending : Owner(id) = p}

\* Both caps hold whatever the order of issues, expiries and spends.
PerPrincipalCap ==
  \A p \in Principals : Cardinality({id \in pending : Owner(id) = p}) <= MaxPerPrincipal

TotalCap == Cardinality(pending) <= MaxEntries

Caps == PerPrincipalCap /\ TotalCap

\* What an honest client is promised: an id among the newest MaxPerPrincipal its
\* principal prepared stays redeemable until it is granted, expires or the
\* process restarts -- unless the total cap has pushed ids out.
NewerOfSameOwner(id) == {j \in id + 1 .. Len(entry) : Owner(j) = Owner(id)}

NewestSurvive ==
  \A id \in boot + 1 .. Len(entry) :
    /\ ~crowded
    /\ granted[id] = << >>
    /\ entry[id].expiry > latest
    /\ Cardinality(NewerOfSameOwner(id)) < MaxPerPrincipal
    => id \in pending

\* To a caller whose principal or tool differs, a store that holds an id and one
\* that never did answer alike, for every id it may present.
StrangersLearnNothing ==
  \A id \in pending, r \in Requests, provided \in Ids :
    <<Owner(id), entry[id].request.tool>> # <<r.principal, r.tool>>
      => Verdict(r, provided) = VerdictOver(pending \ {id}, clock, r, provided)

\* One principal's calls cost another a live id only through the total cap: an
\* id that vanishes without a new id of its owner, a grant, an expiry or a
\* restart vanishes from a store that was full.
NewOwners == {entry'[id].request.principal : id \in Len(entry) + 1 .. Len(entry')}

OthersDisplacedOnlyWhenFull ==
  [][\A id \in pending \ pending' :
       \/ boot' # boot
       \/ entry[id].expiry <= latest
       \/ granted'[id] # granted[id]
       \/ Owner(id) \in NewOwners
       \/ Cardinality(pending) = MaxEntries]_vars

\* The store implements the contract the gate is written against.
Contract == INSTANCE ConfirmationContract WITH
  bound <- [id \in DOMAIN entry |-> entry[id].request], live <- pending

KeepsContract == Contract!ContractSpec

\* No id is granted twice, or to a request other than the one it was issued for.
SingleUse == Contract!KeepsThePromise
===============================================================================

----------------------------- MODULE HotFileProofs -----------------------------
(***************************************************************************)
(* Proofs about HotFile, for any number of threads and versions.           *)
(***************************************************************************)
EXTENDS HotFile, TLAPS

\* One holder of the lock at a time, and only a holder changes the copy.
MutualExclusion ==
  /\ \A th \in Threads : pc[th] \in Holding <=> lock = th
  /\ own.at = "stamp" <=> lock = Publisher

\* What an access in progress knows.
AccessInv ==
  \A th \in Threads :
    /\ start[th] <= seen[th]
    /\ pc[th] = "compare" => seen[th] = start[th]
    /\ pc[th] = "stamp" => value >= seen[th]

\* The publisher is the only writer, so the version it wrote is still on disk.
OwnInv ==
  own.at # "idle" => /\ own.version = disk
                     /\ own.version \notin bad
                     /\ own.at = "stamp" => value = own.version

\* The heart of the matter: a recorded signature is backed by the value, or by
\* the flag and a version that did not parse.
Recorded ==
  /\ value \notin bad
  /\ value >= sig \/ stale
  /\ stale => \E b \in bad : b >= sig

IInv ==
  /\ TypeOK
  /\ writers = {"outside"} \/ writers = {"own"}
  /\ writers = {"outside"} => own.at = "idle"
  /\ MutualExclusion
  /\ AccessInv
  /\ OwnInv
  /\ Recorded
  /\ Freshness

LEMMA InitInv == Init => IInv
<1> SUFFICES ASSUME Init PROVE IInv
  OBVIOUS
<1>1. /\ disk = 1 /\ bad \subseteq {1} /\ value = 0 /\ sig = 0 /\ stale = FALSE
      /\ lock = NoThread /\ own = [at |-> "idle", version |-> 0]
      /\ pc = [th \in Threads |-> "idle"]
      /\ seen = [th \in Threads |-> 0] /\ start = [th \in Threads |-> 0]
      /\ retry \in BOOLEAN /\ (writers = {"outside"} \/ writers = {"own"})
  BY DEF Init, Start, Idle
<1>2. TypeOK
  <2>1. /\ disk \in 1 .. MaxVersion /\ bad \subseteq 1 .. disk
        /\ value \in 0 .. disk /\ sig \in 0 .. disk
        /\ seen \in [Threads -> 0 .. disk] /\ start \in [Threads -> 0 .. disk]
    BY <1>1, VersionsAssumption
  <2>2. own \in [at : {"idle", "written", "stamp"}, version : 0 .. disk]
    BY <1>1
  <2>3. /\ pc \in [Threads -> {"idle", "compare", "acquire", "return"} \cup Holding]
        /\ stale \in BOOLEAN /\ lock \in Threads \cup {NoThread, Publisher}
        /\ writers \in SUBSET {"outside", "own"}
    BY <1>1
  <2> QED
    BY <1>1, <2>1, <2>2, <2>3 DEF TypeOK
<1>3. MutualExclusion
  BY <1>1, ThreadsAssumption DEF MutualExclusion, Holding
<1>4. AccessInv /\ OwnInv /\ Recorded /\ Freshness
  BY <1>1 DEF AccessInv, OwnInv, Recorded, Freshness
<1> QED
  BY <1>1, <1>2, <1>3, <1>4 DEF IInv

\* One step of anybody keeps the invariant.
LEMMA StepInv == IInv /\ [Next]_vars => IInv'
<1> SUFFICES ASSUME IInv, [Next]_vars PROVE IInv'
  OBVIOUS
<1> USE DEF IInv, file, copy, access, config
<1>1. ASSUME NEW good \in BOOLEAN, Edit(good) PROVE IInv'
  <2>1. TypeOK'
    BY <1>1, VersionsAssumption DEF Edit, TypeOK, Holding, Idle
  <2>2. MutualExclusion'
    BY <1>1, ThreadsAssumption DEF Edit, TypeOK, MutualExclusion, Holding, Idle
  <2>3. AccessInv'
    BY <1>1, ThreadsAssumption DEF Edit, TypeOK, MutualExclusion, AccessInv, Holding, OwnInv
  <2>4. OwnInv' /\ (writers = {"outside"} => own.at = "idle")'
    BY <1>1, ThreadsAssumption DEF Edit, TypeOK, OwnInv, MutualExclusion, Holding, Idle
  <2>5. Recorded'
    BY <1>1 DEF Edit, TypeOK, Recorded, AccessInv, OwnInv
  <2>6. Freshness'
    BY <1>1 DEF Edit, TypeOK, Freshness, Recorded, AccessInv, OwnInv
  <2> QED
    BY <1>1, <2>1, <2>2, <2>3, <2>4, <2>5, <2>6 DEF Edit
<1>2. ASSUME NEW th \in Threads, Stat(th) PROVE IInv'
  <2>1. TypeOK'
    BY <1>2, VersionsAssumption DEF Stat, TypeOK, Holding, Idle
  <2>2. MutualExclusion'
    BY <1>2, ThreadsAssumption DEF Stat, TypeOK, MutualExclusion, Holding, Idle
  <2>3. AccessInv'
    BY <1>2, ThreadsAssumption DEF Stat, TypeOK, MutualExclusion, AccessInv, Holding, OwnInv
  <2>4. OwnInv' /\ (writers = {"outside"} => own.at = "idle")'
    BY <1>2, ThreadsAssumption DEF Stat, TypeOK, OwnInv, MutualExclusion, Holding, Idle
  <2>5. Recorded'
    BY <1>2 DEF Stat, TypeOK, Recorded, AccessInv, OwnInv
  <2>6. Freshness'
    BY <1>2 DEF Stat, TypeOK, Freshness, Recorded, AccessInv, OwnInv
  <2> QED
    BY <1>2, <2>1, <2>2, <2>3, <2>4, <2>5, <2>6 DEF Stat
<1>3. ASSUME NEW th \in Threads, Compare(th) PROVE IInv'
  <2>1. TypeOK'
    BY <1>3, VersionsAssumption DEF Compare, TypeOK, Holding, Idle
  <2>2. MutualExclusion'
    BY <1>3, ThreadsAssumption DEF Compare, TypeOK, MutualExclusion, Holding, Idle
  <2>3. AccessInv'
    BY <1>3, ThreadsAssumption DEF Compare, TypeOK, MutualExclusion, AccessInv, Holding, OwnInv
  <2>4. OwnInv' /\ (writers = {"outside"} => own.at = "idle")'
    BY <1>3, ThreadsAssumption DEF Compare, TypeOK, OwnInv, MutualExclusion, Holding, Idle
  <2>5. Recorded'
    BY <1>3 DEF Compare, TypeOK, Recorded, AccessInv, OwnInv
  <2>6. Freshness'
    BY <1>3 DEF Compare, TypeOK, Freshness, Recorded, AccessInv, OwnInv
  <2> QED
    BY <1>3, <2>1, <2>2, <2>3, <2>4, <2>5, <2>6 DEF Compare
<1>4. ASSUME NEW th \in Threads, Acquire(th) PROVE IInv'
  <2>1. TypeOK'
    BY <1>4, VersionsAssumption DEF Acquire, TypeOK, Holding, Idle
  <2>2. MutualExclusion'
    BY <1>4, ThreadsAssumption DEF Acquire, TypeOK, MutualExclusion, Holding, Idle
  <2>3. AccessInv'
    BY <1>4, ThreadsAssumption DEF Acquire, TypeOK, MutualExclusion, AccessInv, Holding, OwnInv
  <2>4. OwnInv' /\ (writers = {"outside"} => own.at = "idle")'
    BY <1>4, ThreadsAssumption DEF Acquire, TypeOK, OwnInv, MutualExclusion, Holding, Idle
  <2>5. Recorded'
    BY <1>4 DEF Acquire, TypeOK, Recorded, AccessInv, OwnInv
  <2>6. Freshness'
    BY <1>4 DEF Acquire, TypeOK, Freshness, Recorded, AccessInv, OwnInv
  <2> QED
    BY <1>4, <2>1, <2>2, <2>3, <2>4, <2>5, <2>6 DEF Acquire
<1>5. ASSUME NEW th \in Threads, Recheck(th) PROVE IInv'
  <2>1. TypeOK'
    BY <1>5, VersionsAssumption DEF Recheck, TypeOK, Holding, Idle
  <2>2. MutualExclusion'
    BY <1>5, ThreadsAssumption DEF Recheck, TypeOK, MutualExclusion, Holding, Idle
  <2>3. AccessInv'
    BY <1>5, ThreadsAssumption DEF Recheck, TypeOK, MutualExclusion, AccessInv, Holding, OwnInv
  <2>4. OwnInv' /\ (writers = {"outside"} => own.at = "idle")'
    BY <1>5, ThreadsAssumption DEF Recheck, TypeOK, OwnInv, MutualExclusion, Holding, Idle
  <2>5. Recorded'
    BY <1>5 DEF Recheck, TypeOK, Recorded, AccessInv, OwnInv
  <2>6. Freshness'
    BY <1>5 DEF Recheck, TypeOK, Freshness, Recorded, AccessInv, OwnInv
  <2> QED
    BY <1>5, <2>1, <2>2, <2>3, <2>4, <2>5, <2>6 DEF Recheck
<1>6. ASSUME NEW th \in Threads, ParseGood(th) PROVE IInv'
  <2>1. TypeOK'
    BY <1>6, VersionsAssumption DEF ParseGood, TypeOK, Holding, Idle
  <2>2. MutualExclusion'
    BY <1>6, ThreadsAssumption DEF ParseGood, TypeOK, MutualExclusion, Holding, Idle
  <2>3. AccessInv'
    BY <1>6, ThreadsAssumption DEF ParseGood, TypeOK, MutualExclusion, AccessInv, Holding, OwnInv
  <2>4. OwnInv' /\ (writers = {"outside"} => own.at = "idle")'
    BY <1>6, ThreadsAssumption DEF ParseGood, TypeOK, OwnInv, MutualExclusion, Holding, Idle
  <2>5. Recorded'
    BY <1>6 DEF ParseGood, TypeOK, Recorded, AccessInv, OwnInv
  <2>6. Freshness'
    BY <1>6 DEF ParseGood, TypeOK, Freshness, Recorded, AccessInv, OwnInv
  <2> QED
    BY <1>6, <2>1, <2>2, <2>3, <2>4, <2>5, <2>6 DEF ParseGood
<1>7. ASSUME NEW th \in Threads, Stamp(th) PROVE IInv'
  <2>1. TypeOK'
    BY <1>7, VersionsAssumption DEF Stamp, TypeOK, Holding, Idle
  <2>2. MutualExclusion'
    BY <1>7, ThreadsAssumption DEF Stamp, TypeOK, MutualExclusion, Holding, Idle
  <2>3. AccessInv'
    BY <1>7, ThreadsAssumption DEF Stamp, TypeOK, MutualExclusion, AccessInv, Holding, OwnInv
  <2>4. OwnInv' /\ (writers = {"outside"} => own.at = "idle")'
    BY <1>7, ThreadsAssumption DEF Stamp, TypeOK, OwnInv, MutualExclusion, Holding, Idle
  <2>5. Recorded'
    BY <1>7 DEF Stamp, TypeOK, Recorded, AccessInv, OwnInv
  <2>6. Freshness'
    BY <1>7 DEF Stamp, TypeOK, Freshness, Recorded, AccessInv, OwnInv
  <2> QED
    BY <1>7, <2>1, <2>2, <2>3, <2>4, <2>5, <2>6 DEF Stamp
<1>8. ASSUME NEW th \in Threads, ParseBad(th) PROVE IInv'
  <2>1. TypeOK'
    BY <1>8, VersionsAssumption DEF ParseBad, TypeOK, Holding, Idle
  <2>2. MutualExclusion'
    BY <1>8, ThreadsAssumption DEF ParseBad, TypeOK, MutualExclusion, Holding, Idle
  <2>3. AccessInv'
    BY <1>8, ThreadsAssumption DEF ParseBad, TypeOK, MutualExclusion, AccessInv, Holding, OwnInv
  <2>4. OwnInv' /\ (writers = {"outside"} => own.at = "idle")'
    BY <1>8, ThreadsAssumption DEF ParseBad, TypeOK, OwnInv, MutualExclusion, Holding, Idle
  <2>5. Recorded'
    BY <1>8 DEF ParseBad, TypeOK, Recorded, AccessInv, OwnInv
  <2>6. Freshness'
    BY <1>8 DEF ParseBad, TypeOK, Freshness, Recorded, AccessInv, OwnInv
  <2> QED
    BY <1>8, <2>1, <2>2, <2>3, <2>4, <2>5, <2>6 DEF ParseBad
<1>9. ASSUME NEW th \in Threads, Return(th) PROVE IInv'
  <2>1. TypeOK'
    BY <1>9, VersionsAssumption DEF Return, TypeOK, Holding, Idle
  <2>2. MutualExclusion'
    BY <1>9, ThreadsAssumption DEF Return, TypeOK, MutualExclusion, Holding, Idle
  <2>3. AccessInv'
    BY <1>9, ThreadsAssumption DEF Return, TypeOK, MutualExclusion, AccessInv, Holding, OwnInv
  <2>4. OwnInv' /\ (writers = {"outside"} => own.at = "idle")'
    BY <1>9, ThreadsAssumption DEF Return, TypeOK, OwnInv, MutualExclusion, Holding, Idle
  <2>5. Recorded'
    BY <1>9 DEF Return, TypeOK, Recorded, AccessInv, OwnInv
  <2>6. Freshness'
    BY <1>9 DEF Return, TypeOK, Freshness, Recorded, AccessInv, OwnInv
  <2> QED
    BY <1>9, <2>1, <2>2, <2>3, <2>4, <2>5, <2>6 DEF Return
<1>10. CASE OwnWrite
  <2>1. TypeOK'
    BY <1>10, VersionsAssumption DEF OwnWrite, TypeOK, Holding, Idle
  <2>2. MutualExclusion'
    BY <1>10, ThreadsAssumption DEF OwnWrite, TypeOK, MutualExclusion, Holding, Idle
  <2>3. AccessInv'
    BY <1>10, ThreadsAssumption DEF OwnWrite, TypeOK, MutualExclusion, AccessInv, Holding, OwnInv
  <2>4. OwnInv' /\ (writers = {"outside"} => own.at = "idle")'
    BY <1>10, ThreadsAssumption DEF OwnWrite, TypeOK, OwnInv, MutualExclusion, Holding, Idle
  <2>5. Recorded'
    BY <1>10 DEF OwnWrite, TypeOK, Recorded, AccessInv, OwnInv
  <2>6. Freshness'
    BY <1>10 DEF OwnWrite, TypeOK, Freshness, Recorded, AccessInv, OwnInv
  <2> QED
    BY <1>10, <2>1, <2>2, <2>3, <2>4, <2>5, <2>6 DEF OwnWrite
<1>11. CASE PublishValue
  <2>1. TypeOK'
    BY <1>11, VersionsAssumption DEF PublishValue, TypeOK, Holding, Idle
  <2>2. MutualExclusion'
    BY <1>11, ThreadsAssumption DEF PublishValue, TypeOK, MutualExclusion, Holding, Idle
  <2>3. AccessInv'
    BY <1>11, ThreadsAssumption DEF PublishValue, TypeOK, MutualExclusion, AccessInv, Holding, OwnInv
  <2>4. OwnInv' /\ (writers = {"outside"} => own.at = "idle")'
    BY <1>11, ThreadsAssumption DEF PublishValue, TypeOK, OwnInv, MutualExclusion, Holding, Idle
  <2>5. Recorded'
    BY <1>11 DEF PublishValue, TypeOK, Recorded, AccessInv, OwnInv
  <2>6. Freshness'
    BY <1>11 DEF PublishValue, TypeOK, Freshness, Recorded, AccessInv, OwnInv
  <2> QED
    BY <1>11, <2>1, <2>2, <2>3, <2>4, <2>5, <2>6 DEF PublishValue
<1>12. CASE PublishStamp
  <2>1. TypeOK'
    <3>1. own' \in [at : {"idle", "written", "stamp"}, version : 0 .. disk']
      BY <1>12 DEF PublishStamp, TypeOK, Idle
    <3>2. sig' \in 0 .. disk' /\ lock' \in Threads \cup {NoThread, Publisher}
      BY <1>12 DEF PublishStamp, TypeOK
    <3> QED
      BY <1>12, <3>1, <3>2 DEF PublishStamp, TypeOK
  <2>2. MutualExclusion'
    BY <1>12, ThreadsAssumption DEF PublishStamp, TypeOK, MutualExclusion, Holding, Idle
  <2>3. AccessInv'
    BY <1>12, ThreadsAssumption DEF PublishStamp, TypeOK, MutualExclusion, AccessInv, Holding, OwnInv
  <2>4. OwnInv' /\ (writers = {"outside"} => own.at = "idle")'
    BY <1>12, ThreadsAssumption DEF PublishStamp, TypeOK, OwnInv, MutualExclusion, Holding, Idle
  <2>5. Recorded'
    BY <1>12 DEF PublishStamp, TypeOK, Recorded, AccessInv, OwnInv
  <2>6. Freshness'
    BY <1>12 DEF PublishStamp, TypeOK, Freshness, Recorded, AccessInv, OwnInv
  <2> QED
    BY <1>12, <2>1, <2>2, <2>3, <2>4, <2>5, <2>6 DEF PublishStamp
<1>13. CASE UNCHANGED vars
  BY <1>13 DEF vars, TypeOK, MutualExclusion, AccessInv, OwnInv, Recorded, Freshness
<1> QED
  BY <1>1, <1>2, <1>3, <1>4, <1>5, <1>6, <1>7, <1>8, <1>9, <1>10, <1>11, <1>12, <1>13
  DEF Next, Step

\* The strengthened invariant holds of every reachable state.
THEOREM InvHolds == Spec => []IInv
  BY InitInv, StepInv, PTL DEF Spec

\* Every variable of ReloadingFile keeps its type: nothing stores a version that
\* was never on disk.
THEOREM TypeCorrect == Spec => []TypeOK
<1>1. IInv => TypeOK
  BY DEF IInv
<1> QED
  BY <1>1, InvHolds, PTL

\* The comment in __init__: no edit is recorded as seen without being served.
THEOREM SeenMeansServedHolds == Spec => []SeenMeansServed
<1>1. IInv => SeenMeansServed
  BY DEF IInv, SeenMeansServed, Recorded, TypeOK
<1> QED
  BY <1>1, InvHolds, PTL

\* What refresh() promises its caller, for any number of threads.
THEOREM FreshnessHolds == Spec => []Freshness
<1>1. IInv => Freshness
  BY DEF IInv
<1> QED
  BY <1>1, InvHolds, PTL

\* The lock and the second look at the signature keep an older parse from
\* replacing a newer one.
THEOREM NeverBackwardsHolds == Spec => NeverBackwards
<1>1. IInv /\ [Next]_vars => [value' >= value]_value
  <2> SUFFICES ASSUME IInv, [Next]_vars, value' # value PROVE value' >= value
    OBVIOUS
  <2>1. value \in 0 .. disk /\ disk \in Nat
    BY DEF IInv, TypeOK
  <2>2. CASE \E th \in Threads : ParseGood(th)
    BY <2>1, <2>2 DEF ParseGood
  <2>3. CASE PublishValue
    BY <2>1, <2>3 DEF PublishValue, IInv, OwnInv
  <2>4. ~(\E th \in Threads : ParseGood(th)) /\ ~PublishValue => value' = value
    BY DEF Next, Step, Edit, Stat, Compare, Acquire, Recheck, Stamp, ParseBad, Return,
           OwnWrite, PublishStamp, vars, copy
  <2> QED
    BY <2>2, <2>3, <2>4
<1> QED
  BY <1>1, InvHolds, PTL DEF Spec, NeverBackwards
===============================================================================

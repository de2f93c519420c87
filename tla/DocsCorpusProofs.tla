---------------------------- MODULE DocsCorpusProofs ----------------------------
(***************************************************************************)
(* Proofs about DocsCorpus, for any number of threads, projects,           *)
(* repositories and commits.                                               *)
(***************************************************************************)
EXTENDS DocsCorpus, TLAPS

\* A snapshot shows one commit, which its repository has and which the caps allow.
Sound(s) ==
  /\ s.documents = <<s.spec, s.head>>
  /\ s.documents \notin oversize
  /\ s.head <= remote[s.spec]

\* ... and was stamped soon after Git was asked, unless Git has failed since.
Young(s) == s.kept \/ s.stamp <= s.fetched + GitTime

\* What the project is served from is not ahead of this commit of this repository.
NotAhead(project, spec, head) ==
  LET s == snapshots[project]
  IN  s # NoSnapshot /\ s.spec = spec => s.head <= head

\* What a call in progress has in hand.
Right(w) ==
  /\ w.step # "idle" => w.began <= clock
  /\ w.step \in {"read", "load"} =>
       /\ w.head <= remote[w.spec]
       /\ NotAhead(w.project, w.spec, w.head)
       /\ w.began <= w.fetched
       /\ w.fetched <= clock
       /\ clock <= w.fetched + GitTime
  /\ w.step \in {"resolve", "publish", "discard"} =>
       /\ Sound(w.built)
       /\ Young(w.built)
       /\ w.built.spec = w.spec
       /\ NotAhead(w.project, w.spec, w.built.head)
       /\ w.began <= w.built.fetched
  /\ w.step = "done" /\ w.answer # NoSnapshot =>
       /\ Sound(w.answer)
       /\ w.answer.spec = w.spec
       /\ w.answer.kept \/ w.began < w.answer.fetched + Interval + GitTime

\* The steps a thread takes with its project's refresh lock.
Refreshing == {"fetch", "read", "load", "resolve", "publish", "discard"}

LockInv ==
  /\ \A t \in Threads : work[t].step \in Refreshing => work[t].project \in locked
  /\ \A t, u \in Threads :
       /\ work[t].step \in Refreshing
       /\ work[u].step \in Refreshing
       /\ work[t].project = work[u].project
       => t = u

SnapshotInv ==
  \A p \in Projects :
    snapshots[p] # NoSnapshot => Sound(snapshots[p]) /\ Young(snapshots[p])

WorkInv == \A t \in Threads : Right(work[t])

CorpusInv == TypeOK /\ LockInv /\ SnapshotInv /\ WorkInv

-------------------------------------------------------------------------------
\* What is known of a call at each of its steps.
LEMMA Shapes ==
  ASSUME TypeOK, NEW t \in Threads
  PROVE  /\ work[t].step \in {"look", "wait", "fetch"} => work[t] \in Underway
         /\ work[t].step \in {"read", "load"} => work[t] \in Fetched
         /\ work[t].step \in {"resolve", "publish", "discard"} => work[t] \in Rebuilt
         /\ work[t].step = "done" => work[t] \in Answered
         /\ work[t].step \in {"idle", "look", "wait", "fetch", "read", "load", "resolve",
                              "publish", "discard", "done"}
<1>1. work[t] \in [step : {"idle"}] \cup Underway \cup Fetched \cup Rebuilt \cup Answered
  BY DEF TypeOK
<1> QED
  BY <1>1 DEF Underway, Fetched, Rebuilt, Answered

LEMMA InitInv == Init => CorpusInv
<1> SUFFICES ASSUME Init PROVE CorpusInv
  OBVIOUS
<1>1. TypeOK
  BY CorpusAssumption DEF Init, TypeOK
<1>2. LockInv /\ WorkInv /\ SnapshotInv
  BY DEF Init, LockInv, WorkInv, SnapshotInv, Right, Refreshing
<1> QED
  BY <1>1, <1>2 DEF CorpusInv

\* The refresh lock goes with the refresh: taken when it begins, given back when it ends.
LEMMA LockStep ==
  ASSUME CorpusInv, NEW t \in Threads, NEW w,
         work' = [work EXCEPT ![t] = w],
         \/ /\ work[t].step \in Refreshing <=> w.step \in Refreshing
            /\ w.step \in Refreshing => w.project = work[t].project
            /\ locked' = locked
         \/ /\ work[t].step \in Refreshing
            /\ w.step \notin Refreshing
            /\ locked' = locked \ {work[t].project}
         \/ /\ work[t].step \notin Refreshing
            /\ w.project \notin locked
            /\ locked' = locked \cup {w.project}
  PROVE  LockInv'
<1>1. /\ work'[t] = w
      /\ \A u \in Threads : u # t => work'[u] = work[u]
  BY DEF CorpusInv, TypeOK
<1>2. LockInv
  BY DEF CorpusInv
<1>3. ASSUME NEW u \in Threads, work'[u].step \in Refreshing
      PROVE  work'[u].project \in locked'
  BY <1>1, <1>2, <1>3 DEF LockInv
<1>4. ASSUME NEW u \in Threads, NEW v \in Threads,
             work'[u].step \in Refreshing, work'[v].step \in Refreshing,
             work'[u].project = work'[v].project
      PROVE  u = v
  BY <1>1, <1>2, <1>4 DEF LockInv
<1> QED
  BY <1>3, <1>4 DEF LockInv

\* Only a thread that holds the project's lock depends on what the project is served from.
LEMMA OthersKeepTheirWork ==
  ASSUME CorpusInv, NEW t \in Threads, NEW w, NEW s,
         work[t].step \in Refreshing,
         work' = [work EXCEPT ![t] = w],
         snapshots' = [snapshots EXCEPT ![work[t].project] = s],
         UNCHANGED <<clock, world>>,
         NEW u \in Threads, u # t
  PROVE  Right(work[u])'
<1>1. work'[u] = work[u] /\ Right(work[u])
  BY DEF CorpusInv, TypeOK, WorkInv
<1>2. work[u].step \in Refreshing =>
        snapshots'[work[u].project] = snapshots[work[u].project]
  BY DEF CorpusInv, LockInv, TypeOK
<1> QED
  BY <1>1, <1>2 DEF Right, Sound, Young, NotAhead, world, Refreshing

\* A step of one thread that publishes nothing.
LEMMA OwnMove ==
  ASSUME CorpusInv, NEW t \in Threads, NEW w,
         w \in [step : {"idle"}] \cup Underway \cup Fetched \cup Rebuilt \cup Answered,
         Right(w),
         work' = [work EXCEPT ![t] = w],
         UNCHANGED <<clock, registry, remote, oversize, snapshots, edits>>,
         calls' \in 0 .. MaxCalls,
         locked' \subseteq Projects,
         LockInv'
  PROVE  CorpusInv'
<1>1. work' \in [Threads ->
         [step : {"idle"}] \cup Underway \cup Fetched \cup Rebuilt \cup Answered]
  BY DEF CorpusInv, TypeOK
<1>2. TypeOK'
  BY <1>1 DEF CorpusInv, TypeOK
<1>3. SnapshotInv'
  BY DEF CorpusInv, SnapshotInv, Sound, Young
<1>4. ASSUME NEW u \in Threads PROVE Right(work[u])'
  <2>1. Right(work'[u])
    BY <1>4 DEF CorpusInv, WorkInv, TypeOK
  <2> QED
    BY <2>1 DEF Right, Sound, Young, NotAhead
<1> QED
  BY <1>2, <1>3, <1>4 DEF CorpusInv, WorkInv

\* A step of one thread that gives its project a snapshot and returns the lock.
LEMMA PublishingMove ==
  ASSUME CorpusInv, NEW t \in Threads, NEW w, NEW s \in Snapshots,
         work[t].step \in Refreshing,
         w \in Answered,
         Right(w),
         Sound(s), Young(s),
         work' = [work EXCEPT ![t] = w],
         snapshots' = [snapshots EXCEPT ![work[t].project] = s],
         locked' = locked \ {work[t].project},
         UNCHANGED <<clock, world>>
  PROVE  CorpusInv'
<1>1. work' \in [Threads ->
         [step : {"idle"}] \cup Underway \cup Fetched \cup Rebuilt \cup Answered]
  BY DEF CorpusInv, TypeOK
<1>2. TypeOK'
  BY <1>1 DEF CorpusInv, TypeOK, world
<1>3. SnapshotInv'
  BY DEF CorpusInv, TypeOK, SnapshotInv, Sound, Young, world
<1>4. LockInv'
  BY LockStep DEF Answered, Refreshing
<1>5. ASSUME NEW u \in Threads PROVE Right(work[u])'
  <2>1. CASE u = t
    <3>1. work'[u] = w
      BY <2>1 DEF CorpusInv, TypeOK
    <3> QED
      BY <3>1 DEF Right, Sound, Young, NotAhead, world, Answered
  <2>2. CASE u # t
    BY <2>2, OthersKeepTheirWork
  <2> QED
    BY <2>1, <2>2
<1> QED
  BY <1>2, <1>3, <1>4, <1>5 DEF CorpusInv, WorkInv

\* What a call may be answered with at once is right for it.
LEMMA EligibleIsRight ==
  ASSUME CorpusInv, NEW t \in Threads, work[t].step \in {"look", "wait"}, Eligible(t)
  PROVE  LET w == [step |-> "done", project |-> work[t].project, spec |-> work[t].spec,
                   began |-> work[t].began, answer |-> snapshots[work[t].project]]
         IN  w \in Answered /\ Right(w)
<1> DEFINE s == snapshots[work[t].project]
           w == [step |-> "done", project |-> work[t].project, spec |-> work[t].spec,
                 began |-> work[t].began, answer |-> s]
<1>1. work[t] \in Underway /\ Right(work[t])
  BY Shapes DEF CorpusInv, WorkInv
<1>2. s \in Snapshots /\ Sound(s) /\ Young(s) /\ s.spec = work[t].spec /\ clock - s.stamp < Interval
  BY <1>1 DEF Underway, Eligible, CorpusInv, TypeOK, SnapshotInv
<1>3. w \in Answered
  BY <1>1, <1>2 DEF Underway, Answered
<1>4. /\ {clock, work[t].began, s.stamp, s.fetched, Interval, GitTime} \subseteq Nat
      /\ s.kept \in BOOLEAN
  BY <1>1, <1>2, CorpusAssumption DEF Underway, Snapshots, CorpusInv, TypeOK
<1>5. work[t].began <= clock
  BY <1>1 DEF Right, Underway
<1>6. s.kept \/ work[t].began < s.fetched + Interval + GitTime
  BY <1>2, <1>4, <1>5 DEF Young
<1> QED
  BY <1>2, <1>3, <1>5, <1>6 DEF Right

LEMMA StepInv == CorpusInv /\ [Next]_vars => CorpusInv'
<1> SUFFICES ASSUME CorpusInv, [Next]_vars PROVE CorpusInv'
  OBVIOUS
<1> USE DEF Refreshing
<1>1. ASSUME NEW t \in Threads, NEW p \in Projects, Call(t, p) PROVE CorpusInv'
  <2> DEFINE w == [step |-> "look", project |-> p, spec |-> registry[p], began |-> clock]
  <2>1. w \in Underway /\ Right(w)
    BY <1>1 DEF Call, Underway, Right, CorpusInv, TypeOK
  <2>2. LockInv'
    BY <1>1, LockStep DEF Call, Ended
  <2>3. /\ work' = [work EXCEPT ![t] = w]
        /\ UNCHANGED <<clock, registry, remote, oversize, snapshots, edits>>
        /\ calls' \in 0 .. MaxCalls
        /\ locked' \subseteq Projects
    BY <1>1, CorpusAssumption DEF Call, CorpusInv, TypeOK
  <2> HIDE DEF w
  <2> QED
    BY <2>1, <2>2, <2>3, OwnMove
<1>2. ASSUME NEW t \in Threads, Look(t) PROVE CorpusInv'
  <2>1. work[t] \in Underway /\ Right(work[t]) /\ work[t].step = "look"
    BY <1>2, Shapes DEF Look, CorpusInv, WorkInv
  <2>2. PICK w : /\ w \in Underway \cup Answered
                 /\ w.step \notin Refreshing
                 /\ Right(w)
                 /\ work' = [work EXCEPT ![t] = w]
    <3>1. CASE Eligible(t)
      BY <1>2, <3>1, EligibleIsRight DEF Look, Answer
    <3>2. CASE ~Eligible(t)
      <4> DEFINE w == [work[t] EXCEPT !.step = "wait"]
      <4>1. w \in Underway /\ w.step \notin Refreshing /\ Right(w)
        BY <2>1 DEF Underway, Right
      <4>2. work' = [work EXCEPT ![t] = w]
        BY <1>2, <3>2 DEF Look, Goto
      <4> QED
        BY <4>1, <4>2
    <3> QED
      BY <3>1, <3>2
  <2>3. UNCHANGED <<clock, world, snapshots, locked>>
    BY <1>2 DEF Look
  <2>4. LockInv'
    BY <2>1, <2>2, <2>3, LockStep
  <2> QED
    BY <2>2, <2>3, <2>4, OwnMove DEF world, CorpusInv, TypeOK
<1>3. ASSUME NEW t \in Threads, Enter(t) PROVE CorpusInv'
  <2>1. work[t] \in Underway /\ Right(work[t]) /\ work[t].step = "wait"
    BY <1>3, Shapes DEF Enter, CorpusInv, WorkInv
  <2>2. UNCHANGED <<clock, world, snapshots>>
    BY <1>3 DEF Enter
  <2>3. CASE Eligible(t)
    <3>1. PICK w : /\ w \in Answered
                   /\ Right(w)
                   /\ work' = [work EXCEPT ![t] = w]
      BY <1>3, <2>3, EligibleIsRight DEF Enter, Answer
    <3>2. locked' = locked
      BY <1>3, <2>3 DEF Enter
    <3>3. LockInv'
      BY <2>1, <3>1, <3>2, LockStep DEF Answered
    <3> QED
      BY <2>2, <3>1, <3>2, <3>3, OwnMove DEF world, CorpusInv, TypeOK
  <2>4. CASE ~Eligible(t)
    <3> DEFINE w == [work[t] EXCEPT !.step = "fetch"]
    <3>1. /\ w \in Underway
          /\ w.project = work[t].project
          /\ w.project \in Projects
          /\ Right(w)
      BY <2>1 DEF Underway, Right
    <3>2. /\ work' = [work EXCEPT ![t] = w]
          /\ work[t].project \notin locked
          /\ locked' = locked \cup {work[t].project}
      BY <1>3, <2>4 DEF Enter, Goto
    <3> HIDE DEF w
    <3>3. LockInv'
      BY <2>1, <3>1, <3>2, LockStep
    <3> QED
      BY <2>2, <3>1, <3>2, <3>3, OwnMove DEF world, CorpusInv, TypeOK
  <2> QED
    BY <2>3, <2>4
<1>4. ASSUME NEW t \in Threads, Fetch(t) PROVE CorpusInv'
  <2> DEFINE w == [step |-> "read", project |-> work[t].project, spec |-> work[t].spec,
                   began |-> work[t].began, head |-> remote[work[t].spec], fetched |-> clock]
  <2>1. work[t] \in Underway /\ Right(work[t]) /\ work[t].step = "fetch"
    BY <1>4, Shapes DEF Fetch, CorpusInv, WorkInv
  <2>2. w \in Fetched
    BY <2>1 DEF Underway, Fetched, CorpusInv, TypeOK
  <2>3. NotAhead(work[t].project, work[t].spec, remote[work[t].spec])
    BY <2>1 DEF NotAhead, Underway, CorpusInv, SnapshotInv, Sound
  <2>4. Right(w)
    BY <2>1, <2>3, CorpusAssumption DEF Right, Underway, CorpusInv, TypeOK
  <2>5. work' = [work EXCEPT ![t] = w] /\ UNCHANGED <<clock, world, snapshots, locked>>
    BY <1>4 DEF Fetch
  <2>6. w.step = "read" /\ w.project = work[t].project
    OBVIOUS
  <2> HIDE DEF w
  <2>7. LockInv'
    BY <2>1, <2>5, <2>6, LockStep
  <2> QED
    BY <2>2, <2>4, <2>5, <2>7, OwnMove DEF world, CorpusInv, TypeOK
<1>5. ASSUME NEW t \in Threads, work[t].step \in {"read", "load"}, NEW s \in Snapshots,
             Sound(s), Young(s), s.spec = work[t].spec, s.head = work[t].head,
             s.fetched = work[t].fetched, Carry(t, s),
             UNCHANGED <<clock, world, snapshots, locked>>
      PROVE  CorpusInv'
  <2> DEFINE w == [step |-> "resolve", project |-> work[t].project, spec |-> work[t].spec,
                   began |-> work[t].began, built |-> s]
  <2>1. work[t] \in Fetched /\ Right(work[t])
    BY <1>5, Shapes DEF CorpusInv, WorkInv
  <2>2. w \in Rebuilt
    BY <1>5, <2>1 DEF Fetched, Rebuilt
  <2>3. Right(w)
    BY <1>5, <2>1 DEF Right, Fetched
  <2>4. work' = [work EXCEPT ![t] = w]
    BY <1>5 DEF Carry
  <2>5. w.step = "resolve" /\ w.project = work[t].project
    OBVIOUS
  <2> HIDE DEF w
  <2>6. LockInv'
    BY <1>5, <2>4, <2>5, LockStep
  <2> QED
    BY <1>5, <2>2, <2>3, <2>4, <2>6, OwnMove DEF world, CorpusInv, TypeOK
<1>6. ASSUME NEW t \in Threads, work[t].step \in {"read", "load"}, NEW documents,
             documents = <<work[t].spec, work[t].head>>, documents \notin oversize
      PROVE  /\ Built(t, documents) \in Snapshots
             /\ Sound(Built(t, documents))
             /\ Young(Built(t, documents))
  <2>1. work[t] \in Fetched /\ Right(work[t])
    BY <1>6, Shapes DEF CorpusInv, WorkInv
  <2>2. Built(t, documents) \in Snapshots
    BY <1>6, <2>1 DEF Built, Snapshots, Fetched, CorpusInv, TypeOK
  <2> QED
    BY <1>6, <2>1, <2>2 DEF Built, Sound, Young, Right
<1>7. ASSUME NEW t \in Threads, Read(t) PROVE CorpusInv'
  <2> DEFINE previous == snapshots[work[t].project]
  <2>1. work[t] \in Fetched /\ Right(work[t]) /\ work[t].step = "read"
    BY <1>7, Shapes DEF Read, CorpusInv, WorkInv
  <2>2. UNCHANGED <<clock, world, snapshots, locked>>
    BY <1>7 DEF Read
  <2>3. CASE Unchanged(t, previous)
    <3>1. /\ previous.documents = <<work[t].spec, work[t].head>>
          /\ previous.documents \notin oversize
      BY <2>1, <2>3 DEF Unchanged, Fetched, CorpusInv, SnapshotInv, Sound
    <3>2. Carry(t, Built(t, previous.documents))
      BY <1>7, <2>3 DEF Read
    <3>3. /\ Built(t, previous.documents) \in Snapshots
          /\ Sound(Built(t, previous.documents))
          /\ Young(Built(t, previous.documents))
      BY <1>6, <2>1, <3>1
    <3>4. /\ Built(t, previous.documents).spec = work[t].spec
          /\ Built(t, previous.documents).head = work[t].head
          /\ Built(t, previous.documents).fetched = work[t].fetched
      BY DEF Built
    <3> QED
      BY <1>5, <2>1, <2>2, <3>2, <3>3, <3>4
  <2>4. CASE ~Unchanged(t, previous)
    <3> DEFINE w == [work[t] EXCEPT !.step = "load"]
    <3>1. w \in Fetched /\ Right(w) /\ w.step = "load" /\ w.project = work[t].project
      BY <2>1 DEF Fetched, Right
    <3>2. work' = [work EXCEPT ![t] = w]
      BY <1>7, <2>4 DEF Read, Goto
    <3> HIDE DEF w
    <3>3. LockInv'
      BY <2>1, <2>2, <3>1, <3>2, LockStep
    <3> QED
      BY <2>2, <3>1, <3>2, <3>3, OwnMove DEF world, CorpusInv, TypeOK
  <2> QED
    BY <2>3, <2>4
<1>8. ASSUME NEW t \in Threads, work[t].step \in Refreshing, Answer(t, NoSnapshot),
             locked' = locked \ {work[t].project},
             UNCHANGED <<clock, world, snapshots>>
      PROVE  CorpusInv'
  <2> DEFINE w == [step |-> "done", project |-> work[t].project, spec |-> work[t].spec,
                   began |-> work[t].began, answer |-> NoSnapshot]
  <2>1. w \in Answered /\ Right(w) /\ w.step = "done"
    BY <1>8, Shapes DEF Answered, Underway, Fetched, Rebuilt, Right, CorpusInv, WorkInv
  <2>2. work' = [work EXCEPT ![t] = w]
    BY <1>8 DEF Answer
  <2> HIDE DEF w
  <2>3. LockInv'
    BY <1>8, <2>1, <2>2, LockStep
  <2> QED
    BY <1>8, <2>1, <2>2, <2>3, OwnMove DEF world, CorpusInv, TypeOK
<1>9. ASSUME NEW t \in Threads, Load(t) PROVE CorpusInv'
  <2> DEFINE commit == <<work[t].spec, work[t].head>>
  <2>1. CASE commit \in oversize
    BY <1>8, <1>9, <2>1 DEF Load
  <2>2. CASE commit \notin oversize
    <3>1. /\ Built(t, commit) \in Snapshots
          /\ Sound(Built(t, commit))
          /\ Young(Built(t, commit))
      BY <1>6, <1>9, <2>2 DEF Load
    <3>2. /\ Built(t, commit).spec = work[t].spec
          /\ Built(t, commit).head = work[t].head
          /\ Built(t, commit).fetched = work[t].fetched
      BY DEF Built
    <3>3. /\ Carry(t, Built(t, commit))
          /\ work[t].step \in {"read", "load"}
          /\ UNCHANGED <<clock, world, snapshots, locked>>
      BY <1>9, <2>2 DEF Load
    <3> QED
      BY <1>5, <3>1, <3>2, <3>3
  <2> QED
    BY <2>1, <2>2
<1>10. ASSUME NEW t \in Threads, GitFails(t) PROVE CorpusInv'
  <2> DEFINE p == work[t].project
             last == snapshots[p]
             s == [last EXCEPT !.stamp = clock, !.kept = TRUE]
             w == [step |-> "done", project |-> p, spec |-> work[t].spec,
                   began |-> work[t].began, answer |-> s]
  <2>1. work[t].step \in Refreshing
    BY <1>10 DEF GitFails, GitSteps
  <2>2. CASE last # NoSnapshot /\ last.spec = work[t].spec
    <3>1. /\ work[t] \in Underway \cup Fetched
          /\ Right(work[t])
      BY <1>10, Shapes DEF GitFails, GitSteps, CorpusInv, WorkInv
    <3>2. p \in Projects /\ last \in Snapshots /\ Sound(last)
      BY <2>2, <3>1 DEF Underway, Fetched, CorpusInv, TypeOK, SnapshotInv
    <3>3. s \in Snapshots /\ Sound(s) /\ Young(s)
      BY <3>2 DEF Snapshots, Sound, Young, CorpusInv, TypeOK
    <3>4. w \in Answered
      BY <3>1, <3>3 DEF Underway, Fetched, Answered
    <3>5. Right(w)
      BY <2>2, <3>1, <3>2, <3>3 DEF Underway, Fetched, Right, Snapshots
    <3>6. snapshots' = [snapshots EXCEPT ![p] = s]
      BY <1>10, <2>2, <3>2 DEF GitFails, CorpusInv, TypeOK
    <3>7. work' = [work EXCEPT ![t] = w]
      BY <1>10, <2>2, <3>2, <3>6 DEF GitFails, Answer, CorpusInv, TypeOK
    <3>8. locked' = locked \ {p} /\ UNCHANGED <<clock, world>>
      BY <1>10 DEF GitFails
    <3> HIDE DEF w, s
    <3> QED
      BY <2>1, <3>3, <3>4, <3>5, <3>6, <3>7, <3>8, PublishingMove
  <2>3. CASE ~(last # NoSnapshot /\ last.spec = work[t].spec)
    BY <1>8, <1>10, <2>1, <2>3 DEF GitFails
  <2> QED
    BY <2>2, <2>3
<1>11. ASSUME NEW t \in Threads, Resolve(t) PROVE CorpusInv'
  <2>1. work[t] \in Rebuilt /\ Right(work[t]) /\ work[t].step = "resolve"
    BY <1>11, Shapes DEF Resolve, CorpusInv, WorkInv
  <2>2. PICK step \in {"publish", "discard"} :
          work' = [work EXCEPT ![t] = [work[t] EXCEPT !.step = step]]
    BY <1>11 DEF Resolve, Goto
  <2> DEFINE w == [work[t] EXCEPT !.step = step]
  <2>3. w \in Rebuilt /\ Right(w) /\ w.step = step /\ w.project = work[t].project
    BY <2>1 DEF Rebuilt, Right
  <2>4. UNCHANGED <<clock, world, snapshots, locked>>
    BY <1>11 DEF Resolve
  <2>5. work' = [work EXCEPT ![t] = w]
    BY <2>2
  <2> HIDE DEF w
  <2>6. LockInv'
    BY <2>1, <2>3, <2>4, <2>5, LockStep
  <2> QED
    BY <2>3, <2>4, <2>5, <2>6, OwnMove DEF world, CorpusInv, TypeOK
<1>12. ASSUME NEW t \in Threads, Publish(t) PROVE CorpusInv'
  <2> DEFINE s == work[t].built
             w == [step |-> "done", project |-> work[t].project, spec |-> work[t].spec,
                   began |-> work[t].began, answer |-> s]
  <2>1. work[t] \in Rebuilt /\ Right(work[t]) /\ work[t].step \in {"publish", "discard"}
    BY <1>12, Shapes DEF Publish, CorpusInv, WorkInv
  <2>2. s \in Snapshots /\ Sound(s) /\ Young(s) /\ s.spec = work[t].spec
    BY <2>1 DEF Rebuilt, Right
  <2>3. work[t].began < s.fetched + Interval + GitTime
    BY <2>1, <2>2, CorpusAssumption DEF Rebuilt, Right, Snapshots
  <2>4. w \in Answered /\ Right(w)
    BY <2>1, <2>2, <2>3 DEF Rebuilt, Answered, Right
  <2>5. /\ work' = [work EXCEPT ![t] = w]
        /\ locked' = locked \ {work[t].project}
        /\ UNCHANGED <<clock, world>>
    BY <1>12 DEF Publish, Answer
  <2>6. CASE work[t].step = "publish"
    <3>1. snapshots' = [snapshots EXCEPT ![work[t].project] = s]
      BY <1>12, <2>6 DEF Publish
    <3> HIDE DEF w, s
    <3> QED
      BY <2>1, <2>2, <2>4, <2>5, <3>1, PublishingMove
  <2>7. CASE work[t].step = "discard"
    <3>1. snapshots' = snapshots
      BY <1>12, <2>7 DEF Publish
    <3> HIDE DEF w, s
    <3>2. LockInv'
      BY <2>1, <2>4, <2>5, LockStep DEF Answered
    <3> QED
      BY <2>4, <2>5, <3>1, <3>2, OwnMove DEF world, CorpusInv, TypeOK
  <2> QED
    BY <2>1, <2>6, <2>7
<1>13. ASSUME NEW p \in Projects, NEW s \in Specs \cup {NoSpec}, EditRegistry(p, s)
       PROVE  CorpusInv'
  <2>1. TypeOK'
    BY <1>13, CorpusAssumption DEF EditRegistry, CorpusInv, TypeOK
  <2>2. LockInv' /\ SnapshotInv'
    BY <1>13 DEF EditRegistry, CorpusInv, LockInv, SnapshotInv, Sound, Young
  <2>3. WorkInv'
    BY <1>13 DEF EditRegistry, CorpusInv, WorkInv, Right, Sound, Young, NotAhead
  <2> QED
    BY <2>1, <2>2, <2>3 DEF CorpusInv
<1>14. ASSUME NEW s \in Specs, NEW over \in BOOLEAN, Push(s, over) PROVE CorpusInv'
  <2>1. remote' \in [Specs -> 1 .. MaxCommits] /\ \A r \in Specs : remote[r] <= remote'[r]
    BY <1>14, CorpusAssumption DEF Push, CorpusInv, TypeOK
  <2>2. oversize' \subseteq oversize \cup {<<s, remote[s] + 1>>}
    BY <1>14 DEF Push, CorpusInv, TypeOK
  <2>3. TypeOK'
    BY <1>14, <2>1, <2>2 DEF Push, CorpusInv, TypeOK
  <2>4. ASSUME NEW snapshot \in Snapshots, Sound(snapshot) PROVE Sound(snapshot)'
    BY <2>1, <2>2, <2>4 DEF Sound, Snapshots, CorpusInv, TypeOK
  <2>5. LockInv'
    BY <1>14 DEF Push, CorpusInv, LockInv
  <2>6. SnapshotInv'
    BY <1>14, <2>4 DEF Push, CorpusInv, TypeOK, SnapshotInv, Young
  <2>7. ASSUME NEW t \in Threads PROVE Right(work[t])'
    <3>1. Right(work[t]) /\ work'[t] = work[t] /\ UNCHANGED <<clock, snapshots>>
      BY <1>14 DEF Push, CorpusInv, WorkInv
    <3>2. CASE work[t].step \in {"read", "load"}
      <4>1. work[t] \in Fetched
        BY <3>2, Shapes DEF CorpusInv
      <4>2. work[t].head <= remote'[work[t].spec]
        BY <2>1, <3>1, <3>2, <4>1 DEF Right, Fetched, CorpusInv, TypeOK
      <4> QED
        BY <3>1, <3>2, <4>2 DEF Right, NotAhead
    <3>3. CASE work[t].step \in {"resolve", "publish", "discard"}
      <4>1. work[t] \in Rebuilt
        BY <3>3, Shapes DEF CorpusInv
      <4>2. Sound(work[t].built)'
        BY <2>4, <3>1, <3>3, <4>1 DEF Right, Rebuilt, Sound
      <4> QED
        BY <3>1, <3>3, <4>2 DEF Right, NotAhead, Young
    <3>4. CASE work[t].step = "done"
      <4>1. work[t] \in Answered
        BY <3>4, Shapes DEF CorpusInv
      <4>2. work[t].answer # NoSnapshot => Sound(work[t].answer)'
        BY <2>4, <3>1, <3>4, <4>1 DEF Right, Answered, Sound
      <4> QED
        BY <3>1, <3>4, <4>2 DEF Right
    <3>5. CASE work[t].step \in {"idle", "look", "wait", "fetch"}
      BY <3>1, <3>5 DEF Right
    <3> QED
      BY <3>2, <3>3, <3>4, <3>5, Shapes DEF CorpusInv
  <2> QED
    BY <2>3, <2>5, <2>6, <2>7 DEF CorpusInv, WorkInv
<1>15. ASSUME Tick PROVE CorpusInv'
  <2>1. TypeOK'
    BY <1>15, CorpusAssumption DEF Tick, CorpusInv, TypeOK, world
  <2>2. LockInv' /\ SnapshotInv'
    BY <1>15 DEF Tick, CorpusInv, LockInv, SnapshotInv, Sound, Young, world
  <2>3. ASSUME NEW t \in Threads PROVE Right(work[t])'
    <3>1. Right(work[t]) /\ clock \in Nat /\ clock' = clock + 1
      BY <1>15 DEF Tick, CorpusInv, WorkInv, TypeOK
    <3>2. work[t].step # "idle" => work[t].began \in Nat
      BY Shapes DEF CorpusInv, Underway, Fetched, Rebuilt, Answered
    <3>3. work[t].step \in {"read", "load"} =>
            work[t].fetched \in Nat /\ clock' <= work[t].fetched + GitTime
      BY <1>15, Shapes, CorpusAssumption DEF Tick, CorpusInv, TypeOK, Fetched
    <3> QED
      BY <1>15, <3>1, <3>2, <3>3 DEF Tick, Right, Sound, Young, NotAhead, world
  <2> QED
    BY <2>1, <2>2, <2>3 DEF CorpusInv, WorkInv
<1>16. CASE UNCHANGED vars
  BY <1>16 DEF vars, world, CorpusInv, TypeOK, LockInv, SnapshotInv, WorkInv, Right, Sound,
            Young, NotAhead
<1> QED
  BY <1>1, <1>2, <1>3, <1>4, <1>7, <1>9, <1>10, <1>11, <1>12, <1>13, <1>14, <1>15, <1>16
  DEF Next, Step, GitWork

\* The invariant the theorems below are read from.
THEOREM CorpusInvHolds == Spec => []CorpusInv
<1> QED
  BY InitInv, StepInv, PTL DEF Spec

\* Every variable has its type.
THEOREM TypeCorrect == Spec => []TypeOK
<1>1. CorpusInv => TypeOK
  BY DEF CorpusInv
<1> QED
  BY <1>1, CorpusInvHolds, PTL

\* A call is answered from the repository that the registry named for its project when
\* it began, and with the documents of one commit.
THEOREM AnswersItsRepositoryHolds == Spec => []AnswersItsRepository
<1>1. CorpusInv => AnswersItsRepository
  BY DEF CorpusInv, WorkInv, Right, Sound, AnswersItsRepository
<1> QED
  BY <1>1, CorpusInvHolds, PTL

\* What a call is told is out of date by more than the pull interval and the time of a
\* refresh only if Git has failed meanwhile.
THEOREM FreshUnlessGitFailedHolds == Spec => []FreshUnlessGitFailed
<1>1. CorpusInv => FreshUnlessGitFailed
  BY DEF CorpusInv, WorkInv, Right, FreshUnlessGitFailed
<1> QED
  BY <1>1, CorpusInvHolds, PTL

\* No refresh, however slow, puts an older commit of a repository over a newer one: the
\* thread that publishes has held the project's lock since it fetched.
THEOREM SnapshotsMoveForwardHolds == Spec => SnapshotsMoveForward
<1> DEFINE Forward ==
      \A p \in Projects :
        LET old == snapshots[p]
            new == snapshots'[p]
        IN  old # NoSnapshot /\ new # NoSnapshot /\ new.spec = old.spec
              => new.head >= old.head
<1>1. CorpusInv /\ [Next]_vars => [Forward]_vars
  <2> SUFFICES ASSUME CorpusInv, Next PROVE Forward
    OBVIOUS
  <2>1. ASSUME snapshots' = snapshots PROVE Forward
    BY <2>1 DEF CorpusInv, TypeOK, Snapshots
  <2>2. ASSUME NEW t \in Threads, Publish(t), work[t].step = "publish" PROVE Forward
    <3>1. work[t] \in Rebuilt /\ Right(work[t])
      BY <2>2, Shapes DEF CorpusInv, WorkInv
    <3>2. snapshots' = [snapshots EXCEPT ![work[t].project] = work[t].built]
      BY <2>2 DEF Publish
    <3> QED
      BY <2>2, <3>1, <3>2 DEF Right, Rebuilt, NotAhead, CorpusInv, TypeOK, Snapshots
  <2>3. ASSUME NEW t \in Threads, GitFails(t) PROVE Forward
    <3>1. CASE snapshots' = snapshots
      BY <2>1, <3>1
    <3>2. CASE snapshots' =
                 [snapshots EXCEPT ![work[t].project].stamp = clock,
                                   ![work[t].project].kept = TRUE]
                 /\ snapshots[work[t].project] # NoSnapshot
      BY <3>2 DEF CorpusInv, TypeOK, Snapshots
    <3> QED
      BY <2>3, <3>1, <3>2 DEF GitFails
  <2>4. \/ snapshots' = snapshots
        \/ \E t \in Threads : Publish(t) /\ work[t].step = "publish"
        \/ \E t \in Threads : GitFails(t)
    BY DEF Next, Step, GitWork, Call, Look, Enter, Fetch, Read, Load, Resolve, Publish,
           EditRegistry, Push, Tick
  <2> QED
    BY <2>1, <2>2, <2>3, <2>4
<1>2. Spec => [][Forward]_vars
  BY <1>1, CorpusInvHolds, PTL DEF Spec
<1> QED
  BY <1>2 DEF SnapshotsMoveForward

===============================================================================

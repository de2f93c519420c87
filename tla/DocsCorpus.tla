------------------------------ MODULE DocsCorpus ------------------------------
(***************************************************************************)
(* The documents a project reads (docs_backend.py): every tool call asks   *)
(* _snapshot_for for the project's snapshot, which is served from memory   *)
(* while it is fresh and otherwise rebuilt from Git under a lock per       *)
(* project, while other calls run, the registry is edited, commits are     *)
(* pushed and Git fails.                                                   *)
(*                                                                         *)
(* A specification is a repository with its branch (the fingerprint); its  *)
(* history is a number of commits.  The registry is one value: that an     *)
(* access sees the file as it stands is what module HotFile shows.         *)
(***************************************************************************)
EXTENDS Naturals

CONSTANTS
  Threads,        \* server threads
  Projects,
  Specs,          \* repositories with their branches
  NoSpec,         \* of a project the registry does not name
  NoSnapshot,     \* nothing served yet, or a call that ended in a 503
  Interval,       \* pull_interval_sec
  GitTime,        \* the longest the Git commands of one refresh take
  FirstRegistry,  \* the repos file the process starts with
  Stuck,          \* the projects whose Git commands may never return
  MaxClock, MaxCommits, MaxEdits, MaxCalls   \* bounds of the model

\* load_docs_repos refuses a repository that two projects name.
OneProjectEach(repos) ==
  \A p, q \in Projects : repos[p] = repos[q] => p = q \/ repos[p] = NoSpec

ASSUME CorpusAssumption ==
  /\ NoSpec \notin Specs
  /\ {Interval, GitTime, MaxClock, MaxCommits, MaxEdits, MaxCalls} \subseteq Nat
  /\ Interval > 0 /\ MaxCommits > 0
  /\ FirstRegistry \in [Projects -> Specs \cup {NoSpec}]
  /\ OneProjectEach(FirstRegistry)
  /\ Stuck \subseteq Projects

VARIABLES
  clock,        \* time.monotonic
  registry,     \* project -> specification
  remote,       \* the newest commit of every repository
  oversize,     \* the commits whose documents exceed the caps
  snapshots,    \* project -> the snapshot it is served from
  locked,       \* the projects whose refresh lock is held
  work,         \* what each thread is doing
  edits, calls  \* how often the registry was edited and a tool called

world == <<registry, remote, oversize, edits, calls>>
vars == <<clock, world, snapshots, locked, work>>

\* `documents` names the commit they were read from.  `fetched` and `kept` are
\* history: when Git was asked, and whether the snapshot has outlived a failure.
Snapshots == [spec : Specs, head : 1 .. MaxCommits, documents : Specs \X (1 .. MaxCommits),
              stamp : 0 .. MaxClock, fetched : 0 .. MaxClock, kept : BOOLEAN]

GitSteps == {"fetch", "read", "load"}
Ended == {"idle", "done"}

Init ==
  /\ clock = 0
  /\ registry = FirstRegistry
  /\ remote = [s \in Specs |-> 1]
  /\ oversize = {}
  /\ snapshots = [p \in Projects |-> NoSnapshot]
  /\ locked = {}
  /\ work = [t \in Threads |-> [step |-> "idle"]]
  /\ edits = 0
  /\ calls = 0

-------------------------------------------------------------------------------
(* One call of search, list, lint or get. *)

Goto(t, step) == work' = [work EXCEPT ![t].step = step]

Answer(t, snapshot) ==
  work' = [work EXCEPT ![t] = [step |-> "done", project |-> @.project, spec |-> @.spec,
                               began |-> @.began, answer |-> snapshot]]

\* Faulty variant: age alone decides, whatever the snapshot was built from.
EligibleByAge(t) ==
  LET cached == snapshots[work[t].project]
  IN  cached # NoSnapshot /\ clock - cached.stamp < Interval

\* _eligible_snapshot
Eligible(t) ==
  LET cached == snapshots[work[t].project]
  IN  /\ cached # NoSnapshot
      /\ cached.spec = work[t].spec
      /\ clock - cached.stamp < Interval

\* _resolve_spec captures the specification once; a project the registry does not
\* name is a 404 and changes nothing.
Call(t, p) ==
  /\ work[t].step \in Ended
  /\ registry[p] # NoSpec
  /\ calls < MaxCalls
  /\ calls' = calls + 1
  /\ work' = [work EXCEPT ![t] =
       [step |-> "look", project |-> p, spec |-> registry[p], began |-> clock]]
  /\ UNCHANGED <<clock, registry, remote, oversize, snapshots, locked, edits>>

\* The look without the refresh lock.
Look(t) ==
  /\ work[t].step = "look"
  /\ IF Eligible(t) THEN Answer(t, snapshots[work[t].project]) ELSE Goto(t, "wait")
  /\ UNCHANGED <<clock, world, snapshots, locked>>

\* Faulty variant: one lock for every project.
EnterOneLock(t) ==
  /\ work[t].step = "wait"
  /\ locked = {}
  /\ IF Eligible(t)
     THEN Answer(t, snapshots[work[t].project]) /\ UNCHANGED locked
     ELSE Goto(t, "fetch") /\ locked' = locked \cup {work[t].project}
  /\ UNCHANGED <<clock, world, snapshots>>

\* The project's refresh lock is free; another thread may just have done the work.
Enter(t) ==
  /\ work[t].step = "wait"
  /\ work[t].project \notin locked
  /\ IF Eligible(t)
     THEN Answer(t, snapshots[work[t].project]) /\ UNCHANGED locked
     ELSE Goto(t, "fetch") /\ locked' = locked \cup {work[t].project}
  /\ UNCHANGED <<clock, world, snapshots>>

\* _refresh: clone, or fetch and reset, the captured specification.
Fetch(t) ==
  /\ work[t].step = "fetch"
  /\ work' = [work EXCEPT ![t] =
       [step |-> "read", project |-> @.project, spec |-> @.spec, began |-> @.began,
        head |-> remote[@.spec], fetched |-> clock]]
  /\ UNCHANGED <<clock, world, snapshots, locked>>

Built(t, documents) ==
  [spec |-> work[t].spec, head |-> work[t].head, documents |-> documents,
   stamp |-> clock, fetched |-> work[t].fetched, kept |-> FALSE]

Carry(t, snapshot) ==
  work' = [work EXCEPT ![t] =
    [step |-> "resolve", project |-> @.project, spec |-> @.spec, began |-> @.began,
     built |-> snapshot]]

\* rev-parse HEAD brought nothing new: only the stamp moves.
Unchanged(t, previous) ==
  /\ previous # NoSnapshot
  /\ previous.head = work[t].head
  /\ previous.spec = work[t].spec

Read(t) ==
  LET previous == snapshots[work[t].project]
  IN  /\ work[t].step = "read"
      /\ IF Unchanged(t, previous) THEN Carry(t, Built(t, previous.documents)) ELSE Goto(t, "load")
      /\ UNCHANGED <<clock, world, snapshots, locked>>

\* Faulty variant: a corpus over the caps is met like a failure of Git.
LoadKeepsLast(t) ==
  LET p == work[t].project
      commit == <<work[t].spec, work[t].head>>
  IN  /\ work[t].step = "load"
      /\ IF commit \in oversize /\ snapshots[p] # NoSnapshot /\ snapshots[p].spec = work[t].spec
         THEN /\ snapshots' = [snapshots EXCEPT ![p].stamp = clock]
              /\ Answer(t, snapshots'[p])
              /\ locked' = locked \ {p}
         ELSE /\ IF commit \in oversize
                 THEN Answer(t, NoSnapshot) /\ locked' = locked \ {p}
                 ELSE Carry(t, Built(t, commit)) /\ UNCHANGED locked
              /\ UNCHANGED snapshots
      /\ UNCHANGED <<clock, world>>

\* _load_docs: the documents of the captured commit, or a 503 when they exceed the
\* caps, which no stale snapshot stands in for.
Load(t) ==
  LET commit == <<work[t].spec, work[t].head>>
  IN  /\ work[t].step = "load"
      /\ IF commit \in oversize
         THEN Answer(t, NoSnapshot) /\ locked' = locked \ {work[t].project}
         ELSE Carry(t, Built(t, commit)) /\ UNCHANGED locked
      /\ UNCHANGED <<clock, world, snapshots>>

\* A Git command failed or timed out: the last good snapshot of the SAME specification
\* is stamped fresh and served, anything else is a 503.
GitFails(t) ==
  LET p == work[t].project
      last == snapshots[p]
  IN  /\ work[t].step \in GitSteps
      /\ IF last # NoSnapshot /\ last.spec = work[t].spec
         THEN /\ snapshots' = [snapshots EXCEPT ![p].stamp = clock, ![p].kept = TRUE]
              /\ Answer(t, snapshots'[p])
         ELSE /\ Answer(t, NoSnapshot)
              /\ UNCHANGED snapshots
      /\ locked' = locked \ {p}
      /\ UNCHANGED <<clock, world>>

\* Faulty variant: the lock covers the Git work only, not the publication.
ResolveUnlocked(t) ==
  /\ work[t].step = "resolve"
  /\ Goto(t, IF registry[work[t].project] = work[t].spec THEN "publish" ELSE "discard")
  /\ locked' = locked \ {work[t].project}
  /\ UNCHANGED <<clock, world, snapshots>>

\* still_current, asked before the snapshot lock is taken.
Resolve(t) ==
  /\ work[t].step = "resolve"
  /\ Goto(t, IF registry[work[t].project] = work[t].spec THEN "publish" ELSE "discard")
  /\ UNCHANGED <<clock, world, snapshots, locked>>

\* The answer of that moment decides; the caller gets what it asked for either way.
Publish(t) ==
  LET p == work[t].project
  IN  /\ work[t].step \in {"publish", "discard"}
      /\ snapshots' = IF work[t].step = "publish"
                      THEN [snapshots EXCEPT ![p] = work[t].built]
                      ELSE snapshots
      /\ Answer(t, work[t].built)
      /\ locked' = locked \ {p}
      /\ UNCHANGED <<clock, world>>

-------------------------------------------------------------------------------
(* What goes on around the calls. *)

\* The operator adds, removes or moves a project.
EditRegistry(p, s) ==
  /\ edits < MaxEdits
  /\ s # registry[p]
  /\ registry' = [registry EXCEPT ![p] = s]
  /\ OneProjectEach(registry')
  /\ edits' = edits + 1
  /\ UNCHANGED <<clock, remote, oversize, snapshots, locked, work, calls>>

\* Somebody merges a commit, with a corpus over the caps or under them.
Push(s, over) ==
  /\ remote[s] < MaxCommits
  /\ remote' = [remote EXCEPT ![s] = @ + 1]
  /\ oversize' = IF over THEN oversize \cup {<<s, remote'[s]>>} ELSE oversize
  /\ UNCHANGED <<clock, registry, snapshots, locked, work, edits, calls>>

\* Time passes, but a refresh that has fetched is done reading within GitTime: each
\* of its commands is killed after git_timeout_sec.
Tick ==
  /\ clock < MaxClock
  /\ \A t \in Threads :
       work[t].step \in {"read", "load"} => clock - work[t].fetched < GitTime
  /\ clock' = clock + 1
  /\ UNCHANGED <<world, snapshots, locked, work>>

GitWork(t) == Fetch(t) \/ Read(t) \/ Load(t) \/ GitFails(t)

Step(t) == Look(t) \/ Enter(t) \/ Resolve(t) \/ Publish(t)

Next ==
  \/ \E t \in Threads :
       \/ \E p \in Projects : Call(t, p)
       \/ Step(t)
       \/ GitWork(t)
  \/ \E p \in Projects, s \in Specs \cup {NoSpec} : EditRegistry(p, s)
  \/ \E s \in Specs, over \in BOOLEAN : Push(s, over)
  \/ Tick

\* Threads run, and a Git command comes back, for the projects that are not stuck.
Fairness ==
  \A t \in Threads : /\ WF_vars(Step(t))
                     /\ WF_vars(GitWork(t) /\ work[t].project \notin Stuck)

Spec == Init /\ [][Next]_vars /\ Fairness

-------------------------------------------------------------------------------
Underway == [step : {"look", "wait", "fetch"}, project : Projects, spec : Specs,
             began : 0 .. MaxClock]
Fetched == [step : {"read", "load"}, project : Projects, spec : Specs, began : 0 .. MaxClock,
            head : 1 .. MaxCommits, fetched : 0 .. MaxClock]
Rebuilt == [step : {"resolve", "publish", "discard"}, project : Projects, spec : Specs,
            began : 0 .. MaxClock, built : Snapshots]
Answered == [step : {"done"}, project : Projects, spec : Specs, began : 0 .. MaxClock,
             answer : Snapshots \cup {NoSnapshot}]

TypeOK ==
  /\ clock \in 0 .. MaxClock
  /\ registry \in [Projects -> Specs \cup {NoSpec}]
  /\ remote \in [Specs -> 1 .. MaxCommits]
  /\ oversize \subseteq Specs \X (1 .. MaxCommits)
  /\ snapshots \in [Projects -> Snapshots \cup {NoSnapshot}]
  /\ locked \subseteq Projects
  /\ work \in [Threads -> [step : {"idle"}] \cup Underway \cup Fetched \cup Rebuilt \cup Answered]
  /\ edits \in 0 .. MaxEdits
  /\ calls \in 0 .. MaxCalls

\* A call is answered from the repository the registry named when it began, with the
\* documents of the very commit the answer names: not from the one the project was
\* moved away from, however young that snapshot is, and not from two commits at once
\* (_eligible_snapshot, "Age alone was the bug"; _load_docs, "The COMMIT captured by
\* the caller").
AnswersItsRepository ==
  \A t \in Threads : work[t].step = "done" /\ work[t].answer # NoSnapshot =>
    LET answer == work[t].answer
    IN  /\ answer.spec = work[t].spec
        /\ answer.documents = <<work[t].spec, answer.head>>
        /\ answer.documents \notin oversize

\* What a call is told is older than the pull interval, by more than the time a
\* refresh takes, only if Git has failed for that repository since.
FreshUnlessGitFailed ==
  \A t \in Threads : work[t].step = "done" /\ work[t].answer # NoSnapshot =>
    LET answer == work[t].answer
    IN  answer.kept \/ work[t].began < answer.fetched + Interval + GitTime

\* Refreshes of one repository are published in the order in which they fetched: a
\* slow thread never puts an older commit over a newer one.
SnapshotsMoveForward ==
  [][\A p \in Projects :
       LET old == snapshots[p]
           new == snapshots'[p]
       IN  old # NoSnapshot /\ new # NoSnapshot /\ new.spec = old.spec
             => new.head >= old.head]_vars

\* A project whose remote hangs holds up nobody else: every call for another project
\* comes to its end.
OthersNotHeldUp ==
  \A t \in Threads :
    (work[t].step \notin Ended /\ work[t].project \notin Stuck) ~> work[t].step \in Ended
===============================================================================

---------------------------- MODULE CapacityProofs ----------------------------
(***************************************************************************)
(* Proofs about Capacity, for any number of threads, jobs, queue items and *)
(* streams, any cap, and any quotas.                                       *)
(***************************************************************************)
EXTENDS Capacity, FiniteSetTheorems, SequenceTheorems, TLAPS

DownloadSteps ==
  {"refused", "open", "headers", "body", "account", "dropped", "release", "done"}

\* What is known of a download at each of its steps: nothing is audited before its end
\* is, unless the sink has raised; what is counted was delivered.
DownloadInv(r) ==
  LET s == r.stream
      ok == \E i \in DOMAIN s.lines : s.lines[i].outcome = "ok"
  IN  /\ s.sent = s.delivered /\ s.sent <= s.size
      /\ r.step \notin {"dropped", "release", "done"} => ~s.lost /\ s.lines = << >>
      /\ r.step = "dropped" => s.lost \/ s.lines = << >>
      /\ r.step \in {"refused", "open", "headers", "body"} => ~s.ended
      /\ r.step = "account" => (s.ended <=> Declared(s) \in {0, s.sent})
      /\ r.step = "dropped" /\ s.ended => s.lost
      /\ Len(s.lines) <= 1 \/ s.lost
      /\ \A i \in DOMAIN s.lines : s.lines[i].sent = s.delivered
      /\ ok => s.ended
      /\ s.ended => s.delivered = s.size \/ s.framing = "close"
      /\ r.step \in {"release", "done"} =>
           /\ s.lines = << >> => s.lost \/ s.escaped
           /\ s.ended => ok \/ s.lost

\* ... and of the other requests.
RequestInv(r) ==
  /\ r.step = "trigger" => r.before.ids \subseteq 1 .. items
  /\ r.step = "rerun" => (r.already = "yes" => ~r.added)
  /\ r.step = "cancel" =>
       r.id <= items /\ \A item \in queue : item.id = r.id => item.job \in Triggerable
  /\ r.step = "status" => r.lines <= builds[r.job]
  /\ r.step = "log" /\ r.build # NoBuild => r.lines <= r.build
  /\ r.step \in DownloadSteps => DownloadInv(r)

\* Jenkins gives every item an id of its own.
QueueInv ==
  /\ queue \subseteq [id : 1 .. items, job : Jobs]
  /\ items \in 0 .. MaxItems
  /\ \A i1, i2 \in queue : i1.id = i2.id => i1 = i2
  /\ builds \in [Jobs -> Nat]
  /\ cancelled \subseteq Triggerable

BuildInv ==
  /\ QueueInv
  /\ slots \in Nat
  /\ SlotsComeBack
  /\ request \in [Handlers -> Requests]
  /\ \A t \in Handlers : RequestInv(request[t])

-------------------------------------------------------------------------------
LEMMA InitBuilds == BuildInit => BuildInv
<1> SUFFICES ASSUME BuildInit PROVE BuildInv
  OBVIOUS
<1> USE DEF BuildInit
<1>1. QueueInv
  BY BuildAssumption DEF QueueInv
<1>2. slots \in Nat
  BY BuildAssumption
<1>3. SlotsComeBack
  <2>1. {t \in Handlers : Streaming(t)} = {}
    BY DEF Streaming, Idle
  <2> QED BY <2>1, FS_EmptySet, BuildAssumption DEF SlotsComeBack
<1>4. request \in [Handlers -> Requests] /\ \A t \in Handlers : RequestInv(request[t])
  BY DEF Requests, RequestInv, Idle, DownloadSteps
<1> QED BY <1>1, <1>2, <1>3, <1>4 DEF BuildInv

\* A step that is none of a request's leaves it as true as it was: ids only grow and
\* builds only begin.
LEMMA OthersKeep ==
  ASSUME BuildInv, NEW r \in Requests, RequestInv(r), QueueInv',
         items <= items', \A j \in Jobs : builds[j] <= builds'[j],
         \A item \in queue' : item \in queue \/ item.id = items + 1
  PROVE  RequestInv(r)'
<1>1. r.step = "trigger" => r.before.ids \subseteq 1 .. items'
  BY DEF RequestInv, QueueInv, BuildInv
<1>2. r.step = "cancel" =>
        r.id <= items' /\ \A item \in queue' : item.id = r.id => item.job \in Triggerable
  <2> SUFFICES ASSUME r.step = "cancel"
               PROVE  r.id <= items' /\ \A item \in queue' : item.id = r.id => item.job \in Triggerable
    OBVIOUS
  <2>1. r.id \in Nat /\ r.id <= items /\ items \in Nat /\ items' \in Nat
    BY DEF Requests, Idle, RequestInv, BuildInv, QueueInv
  <2> QED BY <2>1 DEF RequestInv
<1>3. r.step = "status" => r.lines <= builds'[r.job]
  <2> SUFFICES ASSUME r.step = "status" PROVE r.lines <= builds'[r.job]
    OBVIOUS
  <2>1. r.job \in Jobs /\ r.lines \in Nat
    BY DEF Requests, Idle
  <2> QED BY <2>1 DEF RequestInv, BuildInv, QueueInv
<1> QED BY <1>1, <1>2, <1>3 DEF RequestInv, DownloadInv

\* The threads that stream, when one of them begins or ends.
LEMMA StreamersMove ==
  ASSUME BuildInv, NEW t \in Handlers, NEW r \in Requests,
         request' = [request EXCEPT ![t] = r], slots' \in Nat,
         LET before == request[t].step \in DownloadSteps \ {"refused", "done"}
             after  == r.step \in DownloadSteps \ {"refused", "done"}
         IN  slots' = IF before = after THEN slots ELSE IF after THEN slots - 1 ELSE slots + 1
  PROVE  SlotsComeBack'
<1> DEFINE S  == {u \in Handlers : Streaming(u)}
           S1 == {u \in Handlers : Streaming(u)'}
           before == request[t].step \in DownloadSteps \ {"refused", "done"}
           after  == r.step \in DownloadSteps \ {"refused", "done"}
<1>1. \A u \in Handlers : Streaming(u)' <=> IF u = t THEN after ELSE Streaming(u)
  BY DEF Streaming, DownloadSteps, BuildInv
<1>2. Streaming(t) <=> before
  BY DEF Streaming, DownloadSteps
<1>3. IsFiniteSet(S) /\ Cardinality(S) \in Nat /\ slots + Cardinality(S) = Streams
  BY BuildAssumption, FS_Subset, FS_CardinalityType DEF BuildInv, SlotsComeBack
<1>4. CASE before = after
  <2>1. S1 = S
    BY <1>1, <1>2, <1>4
  <2> QED BY <2>1, <1>3, <1>4 DEF SlotsComeBack
<1>5. CASE after /\ ~before
  <2>1. S1 = S \cup {t} /\ t \notin S
    BY <1>1, <1>2, <1>5
  <2>2. Cardinality(S1) = Cardinality(S) + 1
    BY <2>1, <1>3, FS_AddElement
  <2> QED BY <2>2, <1>3, <1>5 DEF SlotsComeBack, BuildInv
<1>6. CASE before /\ ~after
  <2>1. S1 = S \ {t} /\ t \in S
    BY <1>1, <1>2, <1>6
  <2>2. Cardinality(S1) = Cardinality(S) - 1
    BY <2>1, <1>3, FS_RemoveElement
  <2> QED BY <2>2, <1>3, <1>6 DEF SlotsComeBack, BuildInv
<1> QED BY <1>4, <1>5, <1>6

\* Jenkins as the requests in progress need it to be.
JenkinsMoves ==
  /\ QueueInv'
  /\ items <= items'
  /\ \A j \in Jobs : builds[j] <= builds'[j]
  /\ \A item \in queue' : item \in queue \/ item.id = items + 1

LEMMA JenkinsStays == BuildInv /\ UNCHANGED jenkins => JenkinsMoves
  BY DEF BuildInv, QueueInv, JenkinsMoves, jenkins

\* What is left to show of a thread's step.
LEMMA ThreadStep ==
  ASSUME BuildInv, NEW t \in Handlers, NEW r \in Requests, Set(t, r), JenkinsMoves,
         RequestInv(r)', slots' \in Nat,
         LET before == request[t].step \in DownloadSteps \ {"refused", "done"}
             after  == r.step \in DownloadSteps \ {"refused", "done"}
         IN  slots' = IF before = after THEN slots ELSE IF after THEN slots - 1 ELSE slots + 1
  PROVE  BuildInv'
<1>1. request' = [request EXCEPT ![t] = r]
  BY DEF Set
<1>2. request' \in [Handlers -> Requests]
  BY <1>1 DEF BuildInv
<1>3. \A u \in Handlers : RequestInv(request[u])'
  <2> SUFFICES ASSUME NEW u \in Handlers PROVE RequestInv(request[u])'
    OBVIOUS
  <2>1. CASE u = t
    <3>1. request'[u] = r
      BY <1>1, <2>1 DEF BuildInv
    <3> QED BY <3>1 DEF RequestInv, DownloadInv
  <2>2. CASE u # t
    <3> DEFINE old == request[u]
    <3>1. request'[u] = old /\ old \in Requests /\ RequestInv(old)
      BY <1>1, <2>2 DEF BuildInv
    <3>2. \A q \in Requests : RequestInv(q) =>
            /\ q.step = "trigger" => q.before.ids \subseteq 1 .. items'
            /\ q.step = "cancel" =>
                 q.id <= items' /\ \A item \in queue' : item.id = q.id => item.job \in Triggerable
            /\ q.step = "status" => q.lines <= builds'[q.job]
      BY OthersKeep DEF JenkinsMoves, RequestInv
    <3> QED BY <3>1, <3>2 DEF RequestInv, DownloadInv
  <2> QED BY <2>1, <2>2
<1>4. SlotsComeBack'
  BY <1>1, StreamersMove
<1> QED BY <1>2, <1>3, <1>4 DEF BuildInv, JenkinsMoves

\* What one more line makes of the lines there are.
LEMMA OneMore ==
  ASSUME NEW lines \in Seq(AuditLines), NEW line \in AuditLines
  PROVE  LET more == Append(lines, line)
         IN  /\ more \in Seq(AuditLines) /\ more # << >>
             /\ Len(lines) \in Nat /\ Len(more) = Len(lines) + 1
             /\ DOMAIN lines = 1 .. Len(lines) /\ DOMAIN more = 1 .. Len(lines) + 1
             /\ more[Len(lines) + 1] = line
             /\ \A i \in DOMAIN lines : more[i] = lines[i]
OBVIOUS

\* A line of audit, whatever the sink makes of it, is followed by a request as it
\* should be when the two ways on are.
LEMMA AuditStep ==
  ASSUME BuildInv, UNCHANGED <<jenkins, slots>>, NEW t \in Handlers,
         NEW outcome \in {"ok", "rejected", "backend_error", "truncated", "interrupted"},
         NEW next \in {"release", "done"}, NEW errors \in SUBSET {"release", "done", "dropped"},
         request[t].step \in DownloadSteps \ {"release", "done"},
         Audit(t, outcome, next, errors),
         outcome = "ok" => request[t].stream.ended,
         request[t].stream.ended => outcome = "ok" \/ request[t].stream.lost,
         next = "done" <=> request[t].step = "refused",
         \A error \in errors : error = "done" <=> request[t].step = "refused"
  PROVE  BuildInv'
<1> DEFINE s == request[t].stream
           line == [outcome |-> outcome, sent |-> s.sent]
           more == Append(s.lines, line)
<1>1. s \in Downloads /\ DownloadInv(request[t]) /\ (s.lost \/ s.lines = << >>)
  BY DEF BuildInv, RequestInv, DownloadInv, Requests, Idle, DownloadSteps
<1>2. JenkinsMoves /\ slots' \in Nat
  BY JenkinsStays DEF BuildInv
<1>3. line \in AuditLines /\ s.lines \in Seq(AuditLines)
  BY <1>1 DEF Downloads, AuditLines
<1>4. /\ more \in Seq(AuditLines) /\ Len(more) = Len(s.lines) + 1 /\ more # << >>
      /\ DOMAIN more = 1 .. Len(s.lines) + 1 /\ DOMAIN s.lines = 1 .. Len(s.lines)
      /\ more[Len(s.lines) + 1] = line
      /\ \A i \in DOMAIN s.lines : more[i] = s.lines[i]
      /\ Len(s.lines) \in Nat
  <2> HIDE DEF line, s
  <2> QED BY <1>3, OneMore
<1> HIDE DEF more
<1>5. /\ \A i \in DOMAIN more : more[i].sent = s.sent
      /\ (\E i \in DOMAIN more : more[i].outcome = "ok") => s.ended
      /\ Len(more) <= 1 \/ s.lost
      /\ outcome = "ok" => \E i \in DOMAIN more : more[i].outcome = "ok"
  <2>1. \A i \in DOMAIN more : i \in DOMAIN s.lines \/ i = Len(s.lines) + 1
    BY <1>4
  <2>2. Len(s.lines) + 1 \in DOMAIN more
    BY <1>4
  <2>3. line.sent = s.sent /\ line.outcome = outcome
    OBVIOUS
  <2>4. \A i \in DOMAIN s.lines : s.lines[i].sent = s.sent
    BY <1>1 DEF DownloadInv
  <2>5. (\E i \in DOMAIN s.lines : s.lines[i].outcome = "ok") => s.ended
    BY <1>1 DEF DownloadInv
  <2>6. Len(more) <= 1 \/ s.lost
    BY <1>1, <1>4
  <2> HIDE DEF line
  <2>7. \A i \in DOMAIN more : more[i].sent = s.sent
    BY <1>4, <2>1, <2>3, <2>4
  <2>8. (\E i \in DOMAIN more : more[i].outcome = "ok") => s.ended
    BY <1>4, <2>1, <2>3, <2>5
  <2>9. outcome = "ok" => \E i \in DOMAIN more : more[i].outcome = "ok"
    BY <1>4, <2>2, <2>3
  <2> QED BY <2>6, <2>7, <2>8, <2>9
<1> HIDE DEF line
\* Wherever the request goes from here, and whichever lines there will be.
<1>6. ASSUME NEW step \in {"release", "done", "dropped"}, NEW lines \in {s.lines, more},
             NEW lost \in BOOLEAN, Set(t, At(step, [s EXCEPT !.lines = lines, !.lost = lost])),
             lost \/ (lines = more /\ lost = s.lost /\ step = next),
             step = "done" <=> request[t].step = "refused"
      PROVE  BuildInv'
  <2> DEFINE d == [s EXCEPT !.lines = lines, !.lost = lost]
  <2> PICK r : r = At(step, d)
    OBVIOUS
  <2>1. d \in Downloads
    BY <1>1, <1>3, <1>4 DEF Downloads
  <2>2. r \in Requests /\ r.step = step /\ r.stream = d
    BY <2>1 DEF Requests, At
  <2>3. /\ d.sent = s.sent /\ d.delivered = s.delivered /\ d.ended = s.ended /\ d.size = s.size
        /\ d.framing = s.framing /\ d.lines = lines /\ d.lost = lost /\ d.escaped = s.escaped
    BY <1>1 DEF Downloads
  <2> HIDE DEF d
  <2>4. /\ \A i \in DOMAIN lines : lines[i].sent = s.delivered
        /\ (\E i \in DOMAIN lines : lines[i].outcome = "ok") => s.ended
        /\ Len(lines) <= 1 \/ lost
        /\ s.sent = s.delivered /\ s.sent <= s.size
        /\ s.ended => s.delivered = s.size \/ s.framing = "close"
    BY <1>1, <1>5, <1>6 DEF DownloadInv
  <2>5. \/ lost
        \/ /\ lines # << >> /\ step # "dropped"
           /\ s.ended => \E i \in DOMAIN lines : lines[i].outcome = "ok"
    <3>1. CASE lost
      BY <3>1
    <3>2. CASE ~lost
      <4>1. lines = more /\ ~s.lost /\ step = next
        BY <1>1, <1>6, <3>2 DEF Downloads
      <4>2. s.ended => \E i \in DOMAIN more : more[i].outcome = "ok"
        BY <1>5, <4>1
      <4> QED BY <1>4, <4>1, <4>2
    <3> QED BY <3>1, <3>2
  <2>6. DownloadInv(r)
    BY <2>2, <2>3, <2>4, <2>5 DEF DownloadInv
  <2>7. RequestInv(r)'
    BY <2>2, <2>6 DEF RequestInv, DownloadInv
  <2>8. Set(t, r)
    BY <1>6 DEF d
  <2> QED BY <1>2, <1>6, <2>2, <2>7, <2>8, ThreadStep DEF DownloadSteps
<1>7. CASE Set(t, At(next, [s EXCEPT !.lines = more]))
  <2>1. [s EXCEPT !.lines = more] = [s EXCEPT !.lines = more, !.lost = s.lost] /\ s.lost \in BOOLEAN
    BY <1>1 DEF Downloads
  <2> QED BY <1>6, <1>7, <2>1
<1>8. CASE \E error \in errors, lines \in {s.lines, more} :
             Set(t, At(error, [s EXCEPT !.lines = lines, !.lost = TRUE]))
  <2>1. PICK error \in errors, lines \in {s.lines, more} :
          Set(t, At(error, [s EXCEPT !.lines = lines, !.lost = TRUE]))
    BY <1>8
  <2>2. error \in {"release", "done", "dropped"} /\ (error = "done" <=> request[t].step = "refused")
    OBVIOUS
  <2> QED BY <1>6, <2>1, <2>2
<1> QED BY <1>7, <1>8 DEF Audit, more, line

\* Whether Jenkins has the job in its queue or gives it a new item.
LEMMA QueueTakes ==
  ASSUME BuildInv, NEW job \in Jobs, Queued(job).id <= MaxItems,
         queue' = queue \cup {Queued(job)},
         items' = IF Queued(job) \in queue THEN items ELSE items + 1,
         UNCHANGED <<builds, cancelled>>
  PROVE  /\ JenkinsMoves
         /\ Queued(job).id \in 1 .. items'
         /\ Queued(job) \notin queue => Queued(job).id = items + 1
<1> DEFINE item == Queued(job)
<1>1. \/ item \in queue
      \/ item \notin queue /\ item = [id |-> items + 1, job |-> job]
  <2>1. CASE {i \in queue : i.job = job} # {}
    BY <2>1 DEF Queued
  <2>2. CASE {i \in queue : i.job = job} = {}
    BY <2>2 DEF Queued
  <2> QED BY <2>1, <2>2
<1>2. QueueInv /\ items \in Nat
  BY DEF BuildInv, QueueInv
<1>3. CASE item \in queue
  BY <1>2, <1>3 DEF QueueInv, JenkinsMoves
<1>4. CASE item \notin queue /\ item = [id |-> items + 1, job |-> job]
  <2> HIDE DEF item
  <2>1. queue' = queue \cup {item} /\ items' = items + 1
    BY <1>4 DEF item
  <2>2. item.id = items + 1 /\ item.job = job
    BY <1>4
  <2>3. \A i \in queue : i.id # item.id
    BY <1>2, <2>2 DEF QueueInv
  <2>4. items' \in 0 .. MaxItems
    BY <1>2, <2>1, <2>2, BuildAssumption DEF item, QueueInv
  <2>5. queue' \subseteq [id : 1 .. items', job : Jobs]
    BY <1>2, <1>4, <2>1 DEF QueueInv
  <2>6. \A i1, i2 \in queue' : i1.id = i2.id => i1 = i2
    BY <1>2, <2>1, <2>3 DEF QueueInv
  <2>7. QueueInv'
    BY <1>2, <2>4, <2>5, <2>6 DEF QueueInv
  <2>8. JenkinsMoves
    BY <1>2, <2>1, <2>2, <2>7 DEF JenkinsMoves, QueueInv
  <2> QED BY <1>2, <1>4, <2>1, <2>2, <2>8 DEF item
<1> QED BY <1>1, <1>3, <1>4

LEMMA IdleStep ==
  ASSUME BuildInv, JenkinsMoves, UNCHANGED slots, NEW t \in Handlers, Set(t, Idle),
         request[t].step \notin DownloadSteps \ {"refused", "done"}
  PROVE  BuildInv'
<1>1. Idle \in Requests /\ Idle.step = "idle"
  BY DEF Requests, Idle
<1>2. RequestInv(Idle)'
  BY <1>1 DEF RequestInv, DownloadSteps
<1> QED BY <1>1, <1>2, ThreadStep DEF BuildInv, DownloadSteps

LEMMA RerunKeeps ==
  ASSUME BuildInv, NEW t \in Handlers,
         \/ \E job \in Jobs : LookQueue(t, job)
         \/ Trigger(t)
  PROVE  BuildInv'
<1>1. ASSUME NEW job \in Jobs, LookQueue(t, job) PROVE BuildInv'
  <2>1. PICK before \in {[read |-> TRUE, ids |-> Ids(queue)], [read |-> FALSE, ids |-> {}]} :
          Set(t, [step |-> "trigger", job |-> job, before |-> before])
    BY <1>1 DEF LookQueue
  <2> PICK r : r = [step |-> "trigger", job |-> job, before |-> before]
    OBVIOUS
  <2>2. Ids(queue) \subseteq 1 .. items /\ Ids(queue) \subseteq 1 .. MaxItems
    BY BuildAssumption DEF BuildInv, QueueInv, Ids
  <2>3. before \in [read : BOOLEAN, ids : SUBSET (1 .. MaxItems)] /\ before.ids \subseteq 1 .. items
    <3>1. CASE before = [read |-> TRUE, ids |-> Ids(queue)]
      BY <2>2, <3>1
    <3>2. CASE before = [read |-> FALSE, ids |-> {}]
      BY <3>2
    <3> QED BY <2>1, <3>1, <3>2
  <2>4. r \in Requests
    BY <1>1, <2>3 DEF LookQueue, Requests
  <2>5. UNCHANGED <<queue, items, builds, cancelled, slots>> /\ request[t] = Idle
    BY <1>1 DEF LookQueue, jenkins
  <2>6. RequestInv(r)'
    BY <2>3, <2>5 DEF RequestInv, DownloadSteps
  <2> QED BY <2>1, <2>4, <2>5, <2>6, JenkinsStays, ThreadStep
          DEF BuildInv, DownloadSteps, Idle, jenkins
<1>2. ASSUME Trigger(t) PROVE BuildInv'
  <2> DEFINE old == request[t]
             item == Queued(old.job)
  <2>1. old.step = "trigger" /\ old \in Requests /\ RequestInv(old)
    BY <1>2 DEF Trigger, BuildInv
  <2>2. /\ old.job \in Jobs
        /\ old.before \in [read : BOOLEAN, ids : SUBSET (1 .. MaxItems)]
        /\ old.before.ids \subseteq 1 .. items
    BY <2>1, BuildAssumption DEF Requests, Idle, RequestInv
  <2>3. /\ item.id <= MaxItems
        /\ queue' = queue \cup {item}
        /\ items' = IF item \in queue THEN items ELSE items + 1
        /\ UNCHANGED <<builds, cancelled, slots>>
    BY <1>2 DEF Trigger
  <2>4. /\ JenkinsMoves
        /\ item.id \in 1 .. items'
        /\ item \notin queue => item.id = items + 1
    BY <2>2, <2>3, QueueTakes
  <2>5. ASSUME NEW id \in {item.id, 0},
               Set(t, [step |-> "rerun", added |-> item \notin queue,
                       already |-> AlreadyQueued(id, old.before)])
        PROVE  BuildInv'
    <3> PICK r : r = [step |-> "rerun", added |-> item \notin queue,
                      already |-> AlreadyQueued(id, old.before)]
      OBVIOUS
    <3>1. AlreadyQueued(id, old.before) \in {"yes", "no", "unknown"}
      BY DEF AlreadyQueued
    <3>2. r \in Requests
      BY <3>1 DEF Requests
    <3>3. r.already = "yes" => id = item.id /\ id \in old.before.ids
      BY <2>5 DEF AlreadyQueued
    <3>4. r.already = "yes" => item \in queue
      BY <3>3, <2>2, <2>4 DEF BuildInv, QueueInv
    <3>5. RequestInv(r)'
      BY <3>4 DEF RequestInv, DownloadSteps
    <3> QED BY <2>1, <2>3, <2>4, <2>5, <3>2, <3>5, ThreadStep DEF BuildInv, DownloadSteps
  <2>6. CASE Set(t, Idle)
    BY <2>1, <2>3, <2>4, <2>6, IdleStep DEF DownloadSteps
  <2> QED BY <1>2, <2>5, <2>6 DEF Trigger
<1> QED BY <1>1, <1>2

LEMMA StopKeeps ==
  ASSUME BuildInv, NEW t \in Handlers,
         \/ \E job \in Jobs, id \in 1 .. items : Verify(t, job, id)
         \/ Cancel(t)
  PROVE  BuildInv'
<1>1. ASSUME NEW job \in Jobs, NEW id \in 1 .. items, Verify(t, job, id) PROVE BuildInv'
  <2> PICK r : r = [step |-> "cancel", id |-> id]
    OBVIOUS
  <2>1. [id |-> id, job |-> job] \in queue /\ job \in Triggerable /\ request[t] = Idle /\ Set(t, r)
        /\ UNCHANGED <<queue, items, builds, cancelled, slots>>
    BY <1>1 DEF Verify, jenkins
  <2>2. r \in Requests
    BY BuildAssumption DEF BuildInv, QueueInv, Requests
  <2>3. \A item \in queue : item.id = id => item.job \in Triggerable
    BY <2>1 DEF BuildInv, QueueInv
  <2>4. RequestInv(r)'
    BY <2>1, <2>3 DEF RequestInv, DownloadSteps
  <2> QED BY <2>1, <2>2, <2>4, JenkinsStays, ThreadStep DEF BuildInv, DownloadSteps, Idle, jenkins
<1>2. ASSUME Cancel(t) PROVE BuildInv'
  <2> DEFINE mine == {item \in queue : item.id = request[t].id}
  <2>1. request[t].step = "cancel" /\ queue' = queue \ mine
        /\ cancelled' = cancelled \cup {item.job : item \in mine}
        /\ Set(t, Idle) /\ UNCHANGED <<items, builds, slots>>
    BY <1>2 DEF Cancel
  <2>2. \A item \in mine : item.job \in Triggerable
    BY <2>1 DEF BuildInv, RequestInv
  <2>3. JenkinsMoves
    BY <2>1, <2>2 DEF BuildInv, QueueInv, JenkinsMoves
  <2> QED BY <2>1, <2>3, IdleStep DEF DownloadSteps
<1> QED BY <1>1, <1>2

LEMMA LogKeeps ==
  ASSUME BuildInv, NEW t \in Handlers,
         \/ \E job \in Jobs : ReadConsole(t, job)
         \/ Status(t)
  PROVE  BuildInv'
<1>1. ASSUME NEW job \in Jobs, ReadConsole(t, job) PROVE BuildInv'
  <2> PICK r : r = [step |-> "status", job |-> job, lines |-> builds[job]]
    OBVIOUS
  <2>1. request[t] = Idle /\ Set(t, r) /\ UNCHANGED <<queue, items, builds, cancelled, slots>>
    BY <1>1 DEF ReadConsole, jenkins
  <2>2. r \in Requests /\ builds[job] \in Nat
    BY DEF BuildInv, QueueInv, Requests
  <2>3. RequestInv(r)'
    BY <2>1, <2>2 DEF RequestInv, DownloadSteps
  <2> QED BY <2>1, <2>2, <2>3, JenkinsStays, ThreadStep DEF BuildInv, DownloadSteps, Idle, jenkins
<1>2. ASSUME Status(t) PROVE BuildInv'
  <2> DEFINE old == request[t]
  <2>0. PICK build \in {builds[old.job], NoBuild} :
          Set(t, [step |-> "log", lines |-> old.lines, build |-> build])
    BY <1>2 DEF Status
  <2> PICK r : r = [step |-> "log", lines |-> old.lines, build |-> build]
    OBVIOUS
  <2>1. old.step = "status" /\ Set(t, r) /\ UNCHANGED <<queue, items, builds, cancelled, slots>>
    BY <1>2, <2>0 DEF Status, jenkins
  <2>2. old.job \in Jobs /\ old.lines \in Nat /\ old.lines <= builds[old.job] /\ builds[old.job] \in Nat
    BY <2>1 DEF BuildInv, QueueInv, RequestInv, Requests, Idle
  <2>3. r \in Requests
    BY <2>2 DEF Requests, NoBuild
  <2>4. RequestInv(r)'
    BY <2>0, <2>2 DEF RequestInv, DownloadSteps
  <2> QED BY <2>1, <2>3, <2>4, JenkinsStays, ThreadStep DEF BuildInv, DownloadSteps, jenkins
<1> QED BY <1>1, <1>2

\* The download's steps that write no line of audit.
LEMMA DownloadKeeps ==
  ASSUME BuildInv, NEW t \in Handlers,
         \/ Acquire(t) \/ Headers(t) \/ Chunk(t) \/ Finish(t) \/ Release(t)
         \/ \E framing \in Framings, size \in 0 .. Cap + 1 : Open(t, framing, size)
         \/ /\ NotFound(t)
            /\ Set(t, At("release", [request[t].stream EXCEPT !.escaped = TRUE]))
  PROVE  BuildInv'
<1> DEFINE s == request[t].stream
<1>0. Stream \in Downloads /\ Cap \in Nat
  BY BuildAssumption DEF Stream, Downloads, Framings
<1>1. request[t].step \in DownloadSteps => s \in Downloads /\ DownloadInv(request[t])
  BY DEF BuildInv, RequestInv, Requests, Idle, DownloadSteps
\* A step of a download that is still one, or ends here.
<1>2. ASSUME NEW step \in DownloadSteps, NEW d \in Downloads, Set(t, At(step, d)),
             DownloadInv(At(step, d)), UNCHANGED jenkins, slots' \in Nat,
             LET before == request[t].step \in DownloadSteps \ {"refused", "done"}
                 after  == step \in DownloadSteps \ {"refused", "done"}
             IN  slots' = IF before = after THEN slots ELSE IF after THEN slots - 1 ELSE slots + 1
      PROVE  BuildInv'
  <2> PICK r : r = At(step, d)
    OBVIOUS
  <2>1. r \in Requests /\ r.step = step
    BY DEF Requests, At, DownloadSteps
  <2>2. RequestInv(r)'
    BY <1>2, <2>1 DEF RequestInv, DownloadInv, DownloadSteps
  <2> QED BY <1>2, <2>1, <2>2, JenkinsStays, ThreadStep
<1>3. ASSUME Acquire(t) PROVE BuildInv'
  <2>1. request[t] = Idle /\ slots \in Nat /\ UNCHANGED jenkins
    BY <1>3 DEF Acquire, BuildInv
  <2>2. DownloadInv(At("open", Stream)) /\ DownloadInv(At("refused", Stream))
    BY DEF DownloadInv, At, Stream
  <2>3. CASE slots > 0 /\ slots' = slots - 1 /\ Set(t, At("open", Stream))
    BY <1>0, <1>2, <2>1, <2>2, <2>3 DEF DownloadSteps, Idle
  <2>4. CASE UNCHANGED slots /\ Set(t, At("refused", Stream))
    BY <1>0, <1>2, <2>1, <2>2, <2>4 DEF DownloadSteps, Idle
  <2> QED BY <1>3, <2>3, <2>4 DEF Acquire
<1>4. ASSUME Headers(t) PROVE BuildInv'
  <2>1. PICK step \in {"body", "dropped"} : Set(t, At(step, s))
    BY <1>4 DEF Headers
  <2>2. request[t].step = "headers" /\ UNCHANGED <<jenkins, slots>> /\ slots \in Nat
    BY <1>4 DEF Headers, BuildInv
  <2>3. DownloadInv(At(step, s))
    BY <1>1, <2>2 DEF DownloadInv, At, DownloadSteps
  <2> QED BY <1>1, <1>2, <2>1, <2>2, <2>3 DEF DownloadSteps
<1>5. ASSUME Chunk(t) PROVE BuildInv'
  <2>1. request[t].step = "body" /\ UNCHANGED <<jenkins, slots>> /\ slots \in Nat /\ s.sent < Cap
    BY <1>5 DEF Chunk, BuildInv
  <2> DEFINE d == [s EXCEPT !.sent = @ + 1, !.delivered = @ + 1]
  <2>2. s \in Downloads /\ DownloadInv(request[t])
    BY <1>1, <2>1 DEF DownloadSteps
  <2>3. d \in Downloads /\ DownloadInv(At("body", d))
    <3>1. s.sent + 1 \in 0 .. Cap + 1 /\ s.delivered + 1 \in 0 .. Cap + 1
      BY <1>0, <2>1, <2>2 DEF Downloads, DownloadInv
    <3>2. d \in Downloads
      BY <2>2, <3>1 DEF Downloads
    <3>3. d.sent = d.delivered /\ d.lines = s.lines /\ d.ended = s.ended
      BY <2>2 DEF Downloads, DownloadInv
    <3>4. s.lines = << >> /\ ~s.ended /\ ~s.lost
      BY <2>1, <2>2 DEF DownloadInv
    <3>5. d.size = s.size /\ d.sent <= d.size /\ d.lost = s.lost
      BY <1>5, <2>2 DEF Downloads, Chunk
    <3> HIDE DEF d
    <3>6. DownloadInv(At("body", d))
      BY <3>3, <3>4, <3>5 DEF DownloadInv, At
    <3> QED BY <3>2, <3>6
  <2>4. DownloadInv(At("dropped", s))
    BY <2>1, <2>2 DEF DownloadInv, At
  <2>5. CASE Set(t, At("body", d))
    BY <1>2, <2>1, <2>3, <2>5 DEF DownloadSteps
  <2>6. CASE Set(t, At("dropped", s))
    BY <1>2, <2>1, <2>2, <2>4, <2>6 DEF DownloadSteps
  <2> QED BY <1>5, <2>5, <2>6 DEF Chunk
<1>6. ASSUME Finish(t) PROVE BuildInv'
  <2>1. request[t].step = "body" /\ UNCHANGED <<jenkins, slots>> /\ slots \in Nat
    BY <1>6 DEF Finish, BuildInv
  <2> DEFINE ended == Declared(s) \in {0, s.delivered}
             d == [s EXCEPT !.ended = ended]
  <2>2. /\ s \in Downloads /\ DownloadInv(request[t])
        /\ s.lines = << >> /\ ~s.lost /\ ~s.ended /\ s.sent = s.delivered /\ s.sent <= s.size
    BY <1>1, <2>1 DEF DownloadSteps, DownloadInv
  <2>3. ASSUME ~(s.sent < s.size /\ s.framing = "chunked")
        PROVE  d \in Downloads /\ DownloadInv(At("account", d))
    <3>0. /\ ended \in BOOLEAN
          /\ s.framing \in Framings /\ s.size \in Nat /\ s.sent \in Nat /\ s.delivered \in Nat
      BY <2>2 DEF Downloads
    <3>1. ended => s.delivered = s.size \/ s.framing = "close"
      BY <2>2, <2>3, <3>0 DEF Framings, Declared
    <3>2. ended <=> Declared(s) \in {0, s.sent}
      BY <2>2
    <3> HIDE DEF ended
    <3>3. d \in Downloads
      BY <2>2, <3>0 DEF Downloads
    <3>4. /\ d.sent = s.sent /\ d.delivered = s.delivered /\ d.lines = s.lines /\ d.ended = ended
          /\ d.lost = s.lost /\ d.size = s.size /\ d.framing = s.framing
      BY <2>2 DEF Downloads
    <3>5. Declared(d) = Declared(s)
      BY <3>4 DEF Declared
    <3> HIDE DEF d
    <3>6. DownloadInv(At("account", d))
      BY <2>2, <3>1, <3>2, <3>4, <3>5 DEF DownloadInv, At
    <3> QED BY <3>3, <3>6
  <2>4. DownloadInv(At("dropped", s))
    BY <2>1, <2>2 DEF DownloadInv, At
  <2>5. CASE ~(s.sent < s.size /\ s.framing = "chunked") /\ Set(t, At("account", d))
    BY <1>2, <2>1, <2>3, <2>5 DEF DownloadSteps
  <2>6. CASE Set(t, At("dropped", s))
    BY <1>2, <2>1, <2>2, <2>4, <2>6 DEF DownloadSteps
  <2> QED BY <1>6, <2>5, <2>6 DEF Finish
<1>7. ASSUME Release(t) PROVE BuildInv'
  <2>1. request[t].step = "release" /\ UNCHANGED jenkins /\ slots \in Nat /\ slots' = slots + 1
        /\ Set(t, At("done", s))
    BY <1>7 DEF Release, BuildInv
  <2>2. s \in Downloads /\ DownloadInv(At("done", s))
    BY <1>1, <2>1 DEF DownloadInv, At, DownloadSteps
  <2> QED BY <1>2, <2>1, <2>2 DEF DownloadSteps
<1>8. ASSUME NEW framing \in Framings, NEW size \in 0 .. Cap + 1, Open(t, framing, size)
      PROVE  BuildInv'
  <2> DEFINE d == [Stream EXCEPT !.framing = framing, !.size = size]
  <2>1. request[t].step = "open" /\ UNCHANGED <<jenkins, slots>> /\ slots \in Nat
        /\ Set(t, At("headers", d))
    BY <1>8 DEF Open, BuildInv
  <2>2. /\ d \in Downloads /\ d.sent = 0 /\ d.delivered = 0 /\ d.lines = << >> /\ ~d.lost
        /\ ~d.ended /\ d.size = size
    BY <1>0 DEF Downloads, Stream
  <2> HIDE DEF d
  <2>3. DownloadInv(At("headers", d))
    BY <1>0, <2>2 DEF DownloadInv, At
  <2> QED BY <1>2, <2>1, <2>2, <2>3 DEF DownloadSteps
<1>9. ASSUME NotFound(t), Set(t, At("release", [s EXCEPT !.escaped = TRUE])) PROVE BuildInv'
  <2> DEFINE d == [s EXCEPT !.escaped = TRUE]
  <2>1. /\ request[t].step = "open" /\ UNCHANGED <<jenkins, slots>> /\ slots \in Nat
        /\ s \in Downloads /\ DownloadInv(request[t])
    BY <1>1, <1>9 DEF NotFound, BuildInv, DownloadSteps
  <2>2. /\ d \in Downloads /\ d.sent = s.sent /\ d.delivered = s.delivered /\ d.lines = s.lines
        /\ d.ended = s.ended /\ d.lost = s.lost /\ d.size = s.size /\ d.escaped
    BY <2>1 DEF Downloads
  <2>3. Set(t, At("release", d))
    BY <1>9
  <2> HIDE DEF d
  <2>4. DownloadInv(At("release", d))
    BY <2>1, <2>2 DEF DownloadInv, At
  <2> QED BY <1>2, <2>1, <2>2, <2>3, <2>4 DEF DownloadSteps
<1> QED BY <1>3, <1>4, <1>5, <1>6, <1>7, <1>8, <1>9

\* The steps that write one.
LEMMA AuditKeeps ==
  ASSUME BuildInv, NEW t \in Handlers,
         \/ Refused(t) \/ NotFound(t) \/ NotServed(t) \/ Truncate(t) \/ Account(t) \/ Dropped(t)
  PROVE  BuildInv'
<1> DEFINE s == request[t].stream
<1>1. request[t].step \in DownloadSteps => DownloadInv(request[t]) /\ s.ended \in BOOLEAN
  BY DEF BuildInv, RequestInv, Requests, Idle, DownloadSteps, Downloads
<1>2. ASSUME Refused(t) PROVE BuildInv'
  <2>1. request[t].step = "refused" /\ UNCHANGED <<jenkins, slots>> /\ ~s.ended
    BY <1>1, <1>2 DEF Refused, DownloadInv, DownloadSteps
  <2> QED BY <1>2, <2>1, AuditStep DEF Refused, DownloadSteps
<1>3. ASSUME NotFound(t) PROVE BuildInv'
  <2>1. request[t].step = "open" /\ UNCHANGED <<jenkins, slots>> /\ ~s.ended
    BY <1>1, <1>3 DEF NotFound, DownloadInv, DownloadSteps
  <2>2. CASE Audit(t, "backend_error", "release", {"release"})
    BY <2>1, <2>2, AuditStep DEF DownloadSteps
  <2>3. CASE Set(t, At("release", [s EXCEPT !.escaped = TRUE]))
    BY <1>3, <2>3, DownloadKeeps
  <2> QED BY <1>3, <2>2, <2>3 DEF NotFound
<1>4. ASSUME NotServed(t) PROVE BuildInv'
  <2>1. request[t].step = "headers" /\ UNCHANGED <<jenkins, slots>> /\ ~s.ended
    BY <1>1, <1>4 DEF NotServed, DownloadInv, DownloadSteps
  <2>2. CASE Audit(t, "backend_error", "release", {"release"})
    BY <2>1, <2>2, AuditStep DEF DownloadSteps
  <2>3. CASE Audit(t, "rejected", "release", {"release"})
    BY <2>1, <2>3, AuditStep DEF DownloadSteps
  <2> QED BY <1>4, <2>2, <2>3 DEF NotServed
<1>5. ASSUME Truncate(t) PROVE BuildInv'
  <2>1. request[t].step = "body" /\ UNCHANGED <<jenkins, slots>> /\ ~s.ended
    BY <1>1, <1>5 DEF Truncate, DownloadInv, DownloadSteps
  <2> QED BY <1>5, <2>1, AuditStep DEF Truncate, DownloadSteps, MidStream
<1>6. ASSUME Account(t) PROVE BuildInv'
  <2>1. request[t].step = "account" /\ UNCHANGED <<jenkins, slots>>
        /\ (s.ended <=> Declared(s) \in {0, s.sent})
    BY <1>1, <1>6 DEF Account, DownloadSteps, DownloadInv
  <2>2. CASE s.ended
    <3>1. Audit(t, "ok", "release", MidStream)
      BY <1>6, <2>1, <2>2 DEF Account
    <3> QED BY <2>1, <2>2, <3>1, AuditStep DEF DownloadSteps, MidStream
  <2>3. CASE ~s.ended
    <3>1. Audit(t, "interrupted", "release", MidStream)
      BY <1>6, <2>1, <2>3 DEF Account
    <3> QED BY <2>1, <2>3, <3>1, AuditStep DEF DownloadSteps, MidStream
  <2> QED BY <2>2, <2>3
<1>7. ASSUME Dropped(t) PROVE BuildInv'
  <2>1. request[t].step = "dropped" /\ UNCHANGED <<jenkins, slots>> /\ (s.ended => s.lost)
    BY <1>1, <1>7 DEF Dropped, DownloadInv, DownloadSteps
  <2> QED BY <1>7, <2>1, AuditStep DEF Dropped, DownloadSteps
<1> QED BY <1>2, <1>3, <1>4, <1>5, <1>6, <1>7

\* A step of Jenkins alone.
LEMMA JenkinsStep ==
  ASSUME BuildInv, JenkinsMoves, UNCHANGED <<slots, request>>
  PROVE  BuildInv'
<1>1. \A t \in Handlers : RequestInv(request[t])'
  <2> SUFFICES ASSUME NEW t \in Handlers PROVE RequestInv(request[t])'
    OBVIOUS
  <2>1. request[t] \in Requests /\ RequestInv(request[t]) /\ request'[t] = request[t]
    BY DEF BuildInv
  <2>2. \A q \in Requests : RequestInv(q) =>
          /\ q.step = "trigger" => q.before.ids \subseteq 1 .. items'
          /\ q.step = "cancel" =>
               q.id <= items' /\ \A item \in queue' : item.id = q.id => item.job \in Triggerable
          /\ q.step = "status" => q.lines <= builds'[q.job]
    BY OthersKeep DEF JenkinsMoves, RequestInv
  <2> QED BY <2>1, <2>2 DEF RequestInv, DownloadInv
<1>2. SlotsComeBack'
  BY DEF BuildInv, SlotsComeBack, Streaming
<1> QED BY <1>1, <1>2 DEF BuildInv, JenkinsMoves

LEMMA OthersStep ==
  ASSUME BuildInv,
         \/ \E job \in Jobs : OthersQueue(job)
         \/ \E item \in queue : Begin(item)
  PROVE  BuildInv'
<1>1. ASSUME NEW job \in Jobs, OthersQueue(job) PROVE BuildInv'
  BY <1>1, QueueTakes, JenkinsStep DEF OthersQueue
<1>2. ASSUME NEW item \in queue, Begin(item) PROVE BuildInv'
  <2>1. item.job \in Jobs /\ queue' = queue \ {item} /\ builds' = [builds EXCEPT ![item.job] = @ + 1]
        /\ UNCHANGED <<items, cancelled, slots, request>>
    BY <1>2 DEF Begin, BuildInv, QueueInv
  <2>2. JenkinsMoves
    BY <2>1 DEF BuildInv, QueueInv, JenkinsMoves
  <2> QED BY <2>1, <2>2, JenkinsStep
<1> QED BY <1>1, <1>2

LEMMA BuildsKeep == BuildInv /\ [Next]_vars => BuildInv'
<1> SUFFICES ASSUME BuildInv, [Next]_vars PROVE BuildInv'
  OBVIOUS
<1>1. ASSUME UNCHANGED buildVars PROVE BuildInv'
  <2>1. UNCHANGED <<queue, items, builds, cancelled, slots, request>>
    BY <1>1 DEF buildVars, jenkins
  <2> QED BY <2>1, JenkinsStays, JenkinsStep DEF jenkins
<1>2. ASSUME NEW t \in Threads, CiTool(t) PROVE BuildInv'
  <2>1. t \in Handlers
    BY CapacityAssumption
  <2> QED BY <1>2, <2>1, RerunKeeps, StopKeeps, LogKeeps DEF CiTool
<1>3. ASSUME NEW t \in Threads, Download(t) PROVE BuildInv'
  <2>1. t \in Handlers
    BY CapacityAssumption
  <2> QED BY <1>3, <2>1, DownloadKeeps DEF Download
<1>4. ASSUME NEW job \in Jobs, Others(job) PROVE BuildInv'
  BY <1>4, OthersStep DEF Others
<1>5. ASSUME NEW t \in Handlers, RequestFails(t) \/ Return(t) PROVE BuildInv'
  <2>1. Set(t, Idle) /\ UNCHANGED <<jenkins, slots>>
        /\ request[t].step \notin DownloadSteps \ {"refused", "done"}
    BY <1>5 DEF RequestFails, Return, DownloadSteps
  <2> QED BY <2>1, JenkinsStays, IdleStep
<1>6. ASSUME BuildNext PROVE BuildInv'
  BY <1>5, <1>6, RerunKeeps, StopKeeps, LogKeeps, DownloadKeeps, AuditKeeps, OthersStep DEF BuildNext
<1>7. ASSUME UNCHANGED vars PROVE BuildInv'
  BY <1>1, <1>7 DEF vars
<1>8. ASSUME NEW t \in Threads,
             \/ \E kind \in Kinds, user \in Users : Call(t, kind, user)
             \/ Decide(t) /\ UNCHANGED <<buildVars, calls>>
             \/ Memory(t)
      PROVE  BuildInv'
  BY <1>1, <1>8 DEF Call, Memory
<1>9. ASSUME Tick /\ UNCHANGED <<buildVars, calls>> PROVE BuildInv'
  BY <1>1, <1>9
<1> QED BY <1>2, <1>3, <1>4, <1>6, <1>7, <1>8, <1>9 DEF Next

LEMMA BuildInvariant == Spec => []BuildInv
<1>1. Init => BuildInv
  BY InitBuilds DEF Init
<1> QED BY <1>1, BuildsKeep, PTL DEF Spec

-------------------------------------------------------------------------------
\* Every slot is free or held by a download under way: none is lost on any way out of
\* the route (artifact_route.py), a failing audit sink included.
THEOREM SlotsAlwaysComeBack == Spec => []SlotsComeBack
<1>1. BuildInv => SlotsComeBack
  BY DEF BuildInv
<1> QED BY <1>1, BuildInvariant, PTL

\* The audit of a finished download says what was delivered, in one line, and "ok" when
\* the client takes that for whole; what a raising sink and an exception that nobody
\* catches make of it is told apart.
THEOREM DownloadsAlwaysAccounted == Spec => []DownloadsAreAccounted
<1>1. BuildInv => DownloadsAreAccounted
  <2> SUFFICES ASSUME BuildInv, NEW t \in Handlers, request[t].step = "done"
               PROVE  DownloadInv(request[t])
    BY DEF DownloadsAreAccounted, DownloadInv
  <2> QED BY DEF BuildInv, RequestInv, DownloadSteps
<1> QED BY <1>1, BuildInvariant, PTL

\* "alreadyQueued: true" of ci.rerun is certain.
THEOREM AlreadyQueuedAlwaysCertain == Spec => []AlreadyQueuedIsCertain
<1>1. BuildInv => AlreadyQueuedIsCertain
  BY DEF BuildInv, RequestInv, AlreadyQueuedIsCertain
<1> QED BY <1>1, BuildInvariant, PTL

\* ci.stop cancels no queued build of a job outside the trigger allowlist.
THEOREM OnlyOwnEverCancelled == Spec => []OnlyOwnCancelled
<1>1. BuildInv => OnlyOwnCancelled
  BY DEF BuildInv, QueueInv, OnlyOwnCancelled
<1> QED BY <1>1, BuildInvariant, PTL

\* ci.log never names a build older than the one whose console it shows.
THEOREM LogNeverNamesOlderBuild == Spec => []LogNamesNoOlderBuild
<1>1. BuildInv => LogNamesNoOlderBuild
  BY DEF BuildInv, RequestInv, LogNamesNoOlderBuild
<1> QED BY <1>1, BuildInvariant, PTL

-------------------------------------------------------------------------------
Times == 0 .. MaxTime

LEMMA WithinIsSeq ==
  ASSUME NEW times \in Seq(Times), NEW now \in Times
  PROVE  Within(times, now) \in Seq(Times)
<1> DEFINE dropped == {n \in 1 .. Len(times) : \A i \in 1 .. n : times[i] <= now - Minute}
<1>1. Len(times) \in Nat
  OBVIOUS
<1>2. IsFiniteSet(1 .. Len(times))
  BY <1>1, FS_Interval
<1>3. IsFiniteSet(dropped)
  BY <1>2, FS_Subset
<1>4. Cardinality(dropped) \in Nat
  BY <1>3, FS_CardinalityType
<1> DEFINE from == Cardinality(dropped) + 1
<1>5. from \in Nat \ {0}
  BY <1>4
<1>6. Within(times, now) = SubSeq(times, from, Len(times))
  BY DEF Within
<1> HIDE DEF from
<1> QED BY <1>1, <1>5, <1>6, SubSeqProperties

QuotaInv ==
  /\ QuotaTypeOK
  /\ \A t \in Threads : call[t].step = "decide" => call[t].now <= time

\* A count never passes the day's limit: a write is counted only below it.
LEMMA DecideTyped ==
  ASSUME QuotaInv, NEW t \in Threads, Decide(t)
  PROVE  QuotaInv'
<1> DEFINE c == call[t]
           times == Within(recent[<<c.kind, c.user>>], c.now)
           within == /\ Len(times) < PerMinute[c.kind]
                     /\ c.kind = "write" => Used(c.now) < PerDay
<1>1. /\ c.kind \in Kinds /\ c.user \in Users /\ c.now \in Times
      /\ MaxTime \in Nat /\ Day \in Nat \ {0} /\ PerDay \in Nat \ {0}
      /\ time \in Times
  BY QuotaAssumption DEF QuotaInv, QuotaTypeOK, Decide, Times
<1>2. recent[<<c.kind, c.user>>] \in Seq(Times)
  BY <1>1 DEF QuotaInv, QuotaTypeOK, Times
<1>3. times \in Seq(Times)
  BY <1>1, <1>2, WithinIsSeq
<1> HIDE DEF times
<1>4. recent' \in [Kinds \X Users -> Seq(Times)]
  <2>1. Append(times, c.now) \in Seq(Times)
    BY <1>1, <1>3
  <2> DEFINE next == IF within THEN Append(times, c.now) ELSE times
  <2>2. next \in Seq(Times)
    BY <1>3, <2>1
  <2>3. recent' = [recent EXCEPT ![<<c.kind, c.user>>] = next]
    BY DEF Decide, times
  <2> HIDE DEF next
  <2> QED BY <1>1, <2>2, <2>3 DEF QuotaInv, QuotaTypeOK, Times
<1>5. dayWrites' \in [day : 0 .. MaxTime \div Day, count : 0 .. PerDay]
  <2>1. DayIndex(c.now) \in 0 .. MaxTime \div Day
    BY <1>1 DEF DayIndex, Times
  <2>2. Used(c.now) \in 0 .. PerDay
    BY <1>1 DEF Used, QuotaInv, QuotaTypeOK
  <2>3. CASE within /\ c.kind = "write"
    <3>1. Used(c.now) < PerDay
      BY <2>3
    <3>2. Counted(c.now) \in 0 .. PerDay
      BY <1>1, <2>2, <3>1 DEF Counted
    <3>3. dayWrites' = [day |-> DayIndex(c.now), count |-> Counted(c.now)]
      BY <2>3 DEF Decide, times
    <3> QED BY <2>1, <3>2, <3>3
  <2>4. CASE ~(within /\ c.kind = "write")
    <3>1. dayWrites' = dayWrites
      BY <2>4 DEF Decide, times
    <3> QED BY <3>1 DEF QuotaInv, QuotaTypeOK
  <2> QED BY <2>3, <2>4
<1>6. granted' \in Seq([kind : Kinds, user : Users, now : Times, at : Times])
  <2> DEFINE g == [kind |-> c.kind, user |-> c.user, now |-> c.now, at |-> time]
  <2>1. g \in [kind : Kinds, user : Users, now : Times, at : Times]
    BY <1>1
  <2>2. granted' = IF within THEN Append(granted, g) ELSE granted
    BY DEF Decide, times
  <2>3. granted \in Seq([kind : Kinds, user : Users, now : Times, at : Times])
    BY DEF QuotaInv, QuotaTypeOK, Times
  <2> HIDE DEF g
  <2>4. Append(granted, g) \in Seq([kind : Kinds, user : Users, now : Times, at : Times])
    BY <2>1, <2>3
  <2> QED BY <2>2, <2>3, <2>4
<1>7. PICK next \in {[step |-> "admitted", kind |-> c.kind], [step |-> "idle"]} :
        call' = [call EXCEPT ![t] = next]
  BY DEF Decide
<1>8. time' = time
  BY DEF Decide
<1> QED BY <1>1, <1>4, <1>5, <1>6, <1>7, <1>8 DEF QuotaInv, QuotaTypeOK, Times

LEMMA QuotasKeep == QuotaInv /\ [Next]_vars => QuotaInv'
<1> SUFFICES ASSUME QuotaInv, [Next]_vars PROVE QuotaInv'
  OBVIOUS
<1>1. ASSUME UNCHANGED quotaVars PROVE QuotaInv'
  BY <1>1 DEF quotaVars, QuotaInv, QuotaTypeOK
<1>2. ASSUME NEW t \in Threads, NEW kind \in Kinds, NEW user \in Users, Ask(t, kind, user)
      PROVE  QuotaInv'
  <2>1. time \in 0 .. MaxTime /\ call' = [call EXCEPT ![t] =
          [step |-> "decide", kind |-> kind, user |-> user, now |-> time]]
        /\ UNCHANGED <<time, recent, dayWrites, granted>>
    BY <1>2 DEF Ask, QuotaInv, QuotaTypeOK
  <2> QED BY <2>1, QuotaAssumption DEF QuotaInv, QuotaTypeOK
<1>3. ASSUME NEW t \in Threads, NEW kind \in Kinds, Proceed(t, kind) PROVE QuotaInv'
  BY <1>3 DEF Proceed, QuotaInv, QuotaTypeOK
<1>4. ASSUME Tick PROVE QuotaInv'
  <2>1. /\ time \in 0 .. MaxTime /\ MaxTime \in Nat /\ time < MaxTime /\ time' = time + 1
        /\ UNCHANGED <<call, recent, dayWrites, granted>>
    BY <1>4, QuotaAssumption DEF Tick, QuotaInv, QuotaTypeOK
  <2>2. time' \in 0 .. MaxTime
    BY <2>1
  <2>3. \A t \in Threads : call'[t].step = "decide" => call'[t].now \in 0 .. MaxTime
    BY <2>1 DEF QuotaInv, QuotaTypeOK
  <2>4. \A t \in Threads : call'[t].step = "decide" => call'[t].now <= time'
    BY <2>1, <2>3 DEF QuotaInv
  <2>5. QuotaTypeOK'
    BY <2>1, <2>2 DEF QuotaInv, QuotaTypeOK
  <2> QED BY <2>4, <2>5 DEF QuotaInv
<1>5. ASSUME NEW t \in Threads, CiTool(t) \/ Memory(t) PROVE QuotaInv'
  BY <1>3, <1>5 DEF CiTool, Memory, Kinds
<1>6. CASE UNCHANGED vars
  BY <1>1, <1>6 DEF vars
<1>7. CASE \E t \in Threads : Download(t)
  BY <1>1, <1>7 DEF Download
<1>8. CASE \E job \in Jobs : Others(job)
  BY <1>1, <1>8 DEF Others
<1>9. CASE \E t \in Threads, kind \in Kinds, user \in Users : Call(t, kind, user)
  BY <1>2, <1>9 DEF Call
<1>10. CASE \E t \in Threads : Decide(t)
  BY <1>10, DecideTyped
<1>11. CASE BuildNext /\ UNCHANGED <<quotaVars, calls>>
  BY <1>1, <1>11
<1> QED BY <1>4, <1>5, <1>6, <1>7, <1>8, <1>9, <1>10, <1>11 DEF Next

LEMMA InitQuotas == QuotaInit => QuotaInv
<1> SUFFICES ASSUME QuotaInit PROVE QuotaInv
  OBVIOUS
<1> USE DEF QuotaInit
<1>1. /\ time \in 0 .. MaxTime
      /\ 0 \in 0 .. MaxTime \div Day /\ 0 \in 0 .. PerDay
  <2>1. MaxTime \in Nat /\ Day \in Nat \ {0} /\ PerDay \in Nat \ {0}
    BY QuotaAssumption
  <2>2. MaxTime \div Day \in Nat
    BY <2>1, SMT
  <2>3. time = 0
    OBVIOUS
  <2> HIDE DEF QuotaInit
  <2>4. 0 \in 0 .. MaxTime \div Day
    BY <2>2
  <2> QED BY <2>1, <2>3, <2>4
<1>2. call \in [Threads -> [step : {"idle"}]]
  OBVIOUS
<1>3. recent \in [Kinds \X Users -> Seq(0 .. MaxTime)]
  OBVIOUS
<1>4. granted \in Seq([kind : Kinds, user : Users, now : 0 .. MaxTime, at : 0 .. MaxTime])
  OBVIOUS
<1> QED BY <1>1, <1>2, <1>3, <1>4 DEF QuotaInv, QuotaTypeOK

\* The variables keep their types, for any bounds: a day's count stays within its limit,
\* the slots within theirs.
THEOREM TypeCorrect == Spec => []TypeOK
<1>1. Init => QuotaInv
  BY InitQuotas DEF Init
<1>2. Spec => []QuotaInv
  BY <1>1, QuotasKeep, PTL DEF Spec
<1>3. Init => calls \in 0 .. MaxCalls
  BY CapacityAssumption DEF Init
<1>4. calls \in 0 .. MaxCalls /\ [Next]_vars => (calls \in 0 .. MaxCalls)'
  BY CapacityAssumption DEF Next, vars, Call, Download, Memory, CiTool, Others
<1>5. Spec => [](calls \in 0 .. MaxCalls)
  BY <1>3, <1>4, PTL DEF Spec
<1>6. BuildInv => BuildTypeOK
  <2> SUFFICES ASSUME BuildInv PROVE BuildTypeOK
    OBVIOUS
  <2>1. IsFiniteSet({t \in Handlers : Streaming(t)})
    BY BuildAssumption, FS_Subset
  <2>2. slots <= Streams
    BY <2>1, FS_CardinalityType, BuildAssumption DEF BuildInv, SlotsComeBack
  <2> QED BY <2>2, BuildAssumption DEF BuildInv, QueueInv, BuildTypeOK
<1> QED BY <1>2, <1>5, <1>6, BuildInvariant, PTL DEF TypeOK, QuotaInv

-------------------------------------------------------------------------------
(* The quotas themselves.  Decisions are granted in the order of the lock, and not of the *)
(* times they are made for; what ties the two is that no thread is later than Stall. *)

GrantsInOrder ==
  /\ \A t \in Threads : call[t].step = "decide" => time <= call[t].now + Stall
  /\ \A n \in 1 .. Len(granted) :
       /\ granted[n].now <= granted[n].at
       /\ granted[n].at <= granted[n].now + Stall
       /\ granted[n].at <= time
  /\ \A m, n \in 1 .. Len(granted) : m <= n => granted[m].at <= granted[n].at

\* The grants of a user that may still be within a minute of the next one.
Young(k, u) ==
  {n \in 1 .. Len(granted) :
     granted[n].kind = k /\ granted[n].user = u /\ granted[n].at > time - Minute + Stall}

\* Every one of them has an entry of its own among the times still counted.
Remembered(k, u) ==
  \E g \in [Young(k, u) -> 1 .. Len(recent[<<k, u>>])] :
    /\ \A m, n \in Young(k, u) : g[m] = g[n] => m = n
    /\ \A n \in Young(k, u) : recent[<<k, u>>][g[n]] = granted[n].now

MinuteInv ==
  /\ GrantsInOrder
  /\ \A k \in Kinds, u \in Users : Remembered(k, u)
  /\ QuotaPerMinute

Writes(i, j) == {n \in i .. j : granted[n].kind = "write"}
OfDay(n) == DayIndex(granted[n].now) = dayWrites.day

\* The day in the store is that of the last write, and its count is at least the number
\* of the writes since one of another day.
DayInv ==
  /\ \A i \in 1 .. Len(granted) :
       LET writes == Writes(i, Len(granted))
       IN  /\ writes # {} => \E n \in writes : OfDay(n)
           /\ (\A n \in writes : OfDay(n)) => Cardinality(writes) <= dayWrites.count
  /\ QuotaPerDay

\* What dropping the old times leaves: the rest, in order; what goes is a minute old.
LEMMA WithinDropsOld ==
  ASSUME NEW times \in Seq(Times), NEW now \in Times
  PROVE  \E d \in 0 .. Len(times) :
           /\ Len(Within(times, now)) = Len(times) - d
           /\ \A i \in 1 .. Len(times) - d : Within(times, now)[i] = times[i + d]
           /\ \A i \in 1 .. d : times[i] <= now - Minute
<1> DEFINE dropped == {n \in 1 .. Len(times) : \A i \in 1 .. n : times[i] <= now - Minute}
           d == Cardinality(dropped)
<1>1. Len(times) \in Nat
  OBVIOUS
<1>2. IsFiniteSet(1 .. Len(times)) /\ Cardinality(1 .. Len(times)) = Len(times)
  BY <1>1, FS_Interval
<1>3. IsFiniteSet(dropped) /\ d <= Len(times)
  BY <1>2, FS_Subset
<1>4. d \in Nat
  BY <1>3, FS_CardinalityType
<1>5. ASSUME NEW i \in 1 .. d PROVE times[i] <= now - Minute
  <2>1. SUFFICES ASSUME ~(times[i] <= now - Minute) PROVE FALSE
    OBVIOUS
  <2>2. i \in Nat /\ i >= 1
    BY <1>4
  <2>3. \A n \in dropped : n \in 1 .. i - 1
    BY <1>1, <2>1, <2>2
  <2>4. IsFiniteSet(1 .. i - 1) /\ Cardinality(1 .. i - 1) = i - 1
    BY <2>2, FS_Interval
  <2>5. d <= i - 1
    <3>1. dropped \subseteq 1 .. i - 1
      BY <2>3
    <3> HIDE DEF dropped
    <3> QED BY <3>1, <2>4, FS_Subset
  <2> QED BY <2>5, <2>2, <1>4
<1>6. Within(times, now) = SubSeq(times, d + 1, Len(times))
  BY DEF Within
<1> HIDE DEF dropped, d
<1>7. /\ Len(Within(times, now)) = Len(times) - d
      /\ \A i \in 1 .. Len(times) - d : Within(times, now)[i] = times[i + d]
  BY <1>1, <1>3, <1>4, <1>6
<1> QED BY <1>1, <1>3, <1>4, <1>5, <1>7

\* A decision is one of two: a grant, which is recorded, or a refusal.
Granted(t) ==
  LET c == call[t]
  IN  /\ granted' = Append(granted, [kind |-> c.kind, user |-> c.user, now |-> c.now, at |-> time])
      /\ Len(Within(recent[<<c.kind, c.user>>], c.now)) < PerMinute[c.kind]
      /\ recent' = [recent EXCEPT ![<<c.kind, c.user>>] =
           Append(Within(recent[<<c.kind, c.user>>], c.now), c.now)]
      /\ c.kind = "write" =>
           /\ Used(c.now) < PerDay
           /\ dayWrites' = [day |-> DayIndex(c.now), count |-> Used(c.now) + 1]
      /\ c.kind # "write" => dayWrites' = dayWrites

TurnedAway(t) ==
  LET c == call[t]
  IN  /\ recent' = [recent EXCEPT ![<<c.kind, c.user>>] =
           Within(recent[<<c.kind, c.user>>], c.now)]
      /\ UNCHANGED <<granted, dayWrites>>

LEMMA DecideIsEither ==
  ASSUME QuotaInv, NEW t \in Threads, Decide(t)
  PROVE  /\ Granted(t) \/ TurnedAway(t)
         /\ call[t].step = "decide" /\ time' = time
         /\ call[t].kind \in Kinds /\ call[t].user \in Users /\ call[t].now \in Times
         /\ \A u \in Threads : call'[u].step = "decide" => call'[u] = call[u] /\ call[u].step = "decide"
<1> DEFINE c == call[t]
           times == Within(recent[<<c.kind, c.user>>], c.now)
           within == /\ Len(times) < PerMinute[c.kind]
                     /\ c.kind = "write" => Used(c.now) < PerDay
<1>1. c.step = "decide" /\ time' = time
  BY DEF Decide
<1>2. c.kind \in Kinds /\ c.user \in Users /\ c.now \in Times
  BY <1>1 DEF QuotaInv, QuotaTypeOK, Times
<1>3. Granted(t) \/ TurnedAway(t)
  <2>1. CASE within
    <3>1. /\ granted' = Append(granted, [kind |-> c.kind, user |-> c.user, now |-> c.now, at |-> time])
          /\ recent' = [recent EXCEPT ![<<c.kind, c.user>>] = Append(times, c.now)]
          /\ dayWrites' = IF c.kind = "write"
                          THEN [day |-> DayIndex(c.now), count |-> Counted(c.now)]
                          ELSE dayWrites
      BY <2>1 DEF Decide
    <3> QED BY <2>1, <3>1 DEF Granted, Counted
  <2>2. CASE ~within
    <3>1. /\ granted' = granted /\ dayWrites' = dayWrites
          /\ recent' = [recent EXCEPT ![<<c.kind, c.user>>] = times]
      BY <2>2 DEF Decide
    <3> QED BY <3>1 DEF TurnedAway
  <2> QED BY <2>1, <2>2
<1>5. \A u \in Threads : call'[u].step = "decide" => call'[u] = call[u] /\ call[u].step = "decide"
  <2>1. PICK next \in {[step |-> "admitted", kind |-> c.kind], [step |-> "idle"]} :
          call' = [call EXCEPT ![t] = next]
    BY DEF Decide
  <2>2. next.step # "decide"
    OBVIOUS
  <2> QED BY <2>1, <2>2 DEF QuotaInv, QuotaTypeOK
<1> QED BY <1>1, <1>2, <1>3, <1>5

\* The numbers the quotas compare.
LEMMA QuotaNumbers ==
  ASSUME QuotaInv
  PROVE  /\ {Minute, Day, PerDay} \subseteq Nat \ {0}
         /\ {Stall, time, Len(granted)} \subseteq Nat
         /\ \A k \in Kinds : PerMinute[k] \in Nat \ {0}
         /\ \A n \in 1 .. Len(granted) :
              /\ granted[n].kind \in Kinds /\ granted[n].user \in Users
              /\ granted[n].now \in Nat /\ granted[n].at \in Nat
         /\ \A k \in Kinds, u \in Users : recent[<<k, u>>] \in Seq(Times)
         /\ \A t \in Threads : call[t].step = "decide" => call[t].now \in Nat /\ call[t].now <= time
<1>1. \A n \in 1 .. Len(granted) :
        granted[n] \in [kind : Kinds, user : Users, now : 0 .. MaxTime, at : 0 .. MaxTime]
  <2> DEFINE S == [kind : Kinds, user : Users, now : 0 .. MaxTime, at : 0 .. MaxTime]
  <2>1. granted \in Seq(S)
    BY DEF QuotaInv, QuotaTypeOK
  <2> HIDE DEF S
  <2>2. \A n \in 1 .. Len(granted) : granted[n] \in S
    BY <2>1
  <2> QED BY <2>2 DEF S
<1>2. MaxTime \in Nat
  BY QuotaAssumption
<1>3. \A n \in 1 .. Len(granted) :
        /\ granted[n].kind \in Kinds /\ granted[n].user \in Users
        /\ granted[n].now \in Nat /\ granted[n].at \in Nat
  BY <1>1, <1>2
<1>4. {Minute, Day, PerDay} \subseteq Nat \ {0} /\ \A k \in Kinds : PerMinute[k] \in Nat \ {0}
  BY QuotaAssumption
<1>5. {Stall, time, Len(granted)} \subseteq Nat
  BY QuotaAssumption DEF QuotaInv, QuotaTypeOK
<1>6. \A k \in Kinds, u \in Users : recent[<<k, u>>] \in Seq(Times)
  BY DEF QuotaInv, QuotaTypeOK, Times
<1>7. \A t \in Threads : call[t].step = "decide" => call[t].now \in Nat /\ call[t].now <= time
  <2>1. SUFFICES ASSUME NEW t \in Threads, call[t].step = "decide"
                 PROVE  call[t].now \in Nat
    BY DEF QuotaInv
  <2> DEFINE c == call[t]
  <2>2. \/ c \in [step : {"idle"}]
        \/ c \in [step : {"decide"}, kind : Kinds, user : Users, now : 0 .. MaxTime]
        \/ c \in [step : {"admitted"}, kind : Kinds]
    BY DEF QuotaInv, QuotaTypeOK
  <2> HIDE DEF c
  <2>3. c.step = "decide" => c.now \in 0 .. MaxTime
    BY <2>2
  <2> QED BY <2>1, <2>3, <1>2 DEF c
<1> QED BY <1>3, <1>4, <1>5, <1>6, <1>7

\* A grant is the last one.
LEMMA GrantIsLast ==
  ASSUME QuotaInv, NEW t \in Threads, Granted(t)
  PROVE  /\ Len(granted') = Len(granted) + 1
         /\ \A n \in 1 .. Len(granted) : granted'[n] = granted[n]
         /\ granted'[Len(granted) + 1] =
              [kind |-> call[t].kind, user |-> call[t].user, now |-> call[t].now, at |-> time]
<1> DEFINE g == [kind |-> call[t].kind, user |-> call[t].user, now |-> call[t].now, at |-> time]
           S == [kind : Kinds, user : Users, now : 0 .. MaxTime, at : 0 .. MaxTime]
<1>1. granted \in Seq(S) /\ granted' = Append(granted, g)
  BY DEF QuotaInv, QuotaTypeOK, Granted
<1> HIDE DEF g, S
<1>2. /\ Len(granted') = Len(granted) + 1
      /\ \A n \in 1 .. Len(granted) : granted'[n] = granted[n]
      /\ granted'[Len(granted) + 1] = g
  BY <1>1
<1> QED BY <1>2 DEF g

LEMMA OrderOfGrants ==
  ASSUME QuotaInv, GrantsInOrder, NEW t \in Threads, Decide(t)
  PROVE  GrantsInOrder'
<1> DEFINE L == Len(granted)
<1>1. /\ call[t].step = "decide" /\ time' = time /\ {Stall, time, L} \subseteq Nat
      /\ call[t].now \in Nat /\ call[t].now <= time /\ time <= call[t].now + Stall
  BY DecideIsEither, QuotaNumbers DEF GrantsInOrder
<1>2. \A u \in Threads : call'[u].step = "decide" => time' <= call'[u].now + Stall
  BY DecideIsEither DEF GrantsInOrder
<1>3. CASE TurnedAway(t)
  BY <1>1, <1>2, <1>3 DEF TurnedAway, GrantsInOrder
<1>4. CASE Granted(t)
  <2>1. /\ Len(granted') = L + 1
        /\ \A n \in 1 .. L : granted'[n] = granted[n]
        /\ granted'[L + 1].at = time /\ granted'[L + 1].now = call[t].now
    <3> DEFINE g == [kind |-> call[t].kind, user |-> call[t].user, now |-> call[t].now, at |-> time]
    <3>1. g.at = time /\ g.now = call[t].now
      OBVIOUS
    <3>2. /\ Len(granted') = L + 1
          /\ \A n \in 1 .. L : granted'[n] = granted[n]
          /\ granted'[L + 1] = g
      BY <1>4, GrantIsLast
    <3> HIDE DEF g
    <3> QED BY <3>1, <3>2
  <2>2. ASSUME NEW n \in 1 .. L + 1
        PROVE  /\ granted'[n].now <= granted'[n].at
               /\ granted'[n].at <= granted'[n].now + Stall
               /\ granted'[n].at <= time
    <3>1. CASE n = L + 1
      BY <3>1, <2>1, <1>1
    <3>2. CASE n # L + 1
      <4>1. n \in 1 .. L
        BY <3>2, <1>1
      <4> QED BY <4>1, <2>1 DEF GrantsInOrder
    <3> QED BY <3>1, <3>2
  <2>3. ASSUME NEW m \in 1 .. L + 1, NEW n \in 1 .. L + 1, m <= n
        PROVE  granted'[m].at <= granted'[n].at
    <3>1. CASE n = L + 1
      BY <3>1, <2>1, <2>2, <1>1
    <3>2. CASE n # L + 1
      <4>1. n \in 1 .. L /\ m \in 1 .. L
        BY <3>2, <2>3, <1>1
      <4> QED BY <4>1, <2>1, <2>3 DEF GrantsInOrder
    <3> QED BY <3>1, <3>2
  <2> QED BY <1>1, <1>2, <2>1, <2>2, <2>3 DEF GrantsInOrder
<1> QED BY <1>3, <1>4, DecideIsEither

\* A decision drops no time of a young grant: the clock was read at most Stall before.
LEMMA YoungOutlastDropping ==
  ASSUME QuotaInv, GrantsInOrder, NEW t \in Threads, Decide(t),
         Remembered(call[t].kind, call[t].user)
  PROVE  LET c == call[t]
             W == Within(recent[<<c.kind, c.user>>], c.now)
             Y == Young(c.kind, c.user)
         IN  \E h \in [Y -> 1 .. Len(W)] :
               /\ \A m, n \in Y : h[m] = h[n] => m = n
               /\ \A n \in Y : W[h[n]] = granted[n].now
<1> DEFINE c == call[t]
           R == recent[<<c.kind, c.user>>]
           W == Within(R, c.now)
           Y == Young(c.kind, c.user)
<1>1. /\ c.kind \in Kinds /\ c.user \in Users /\ c.now \in Times /\ c.step = "decide"
      /\ R \in Seq(Times) /\ c.now \in Nat /\ c.now <= time
      /\ {Minute, Stall, time} \subseteq Nat
  BY DecideIsEither, QuotaNumbers
<1>2. PICK d \in 0 .. Len(R) :
        /\ Len(W) = Len(R) - d
        /\ \A i \in 1 .. Len(R) - d : W[i] = R[i + d]
        /\ \A i \in 1 .. d : R[i] <= c.now - Minute
  BY <1>1, WithinDropsOld
<1>3. PICK g \in [Y -> 1 .. Len(R)] :
        /\ \A m, n \in Y : g[m] = g[n] => m = n
        /\ \A n \in Y : R[g[n]] = granted[n].now
  BY DEF Remembered
<1>4. \A n \in Y :
        /\ granted[n].now \in Nat /\ granted[n].at \in Nat
        /\ granted[n].at <= granted[n].now + Stall
        /\ granted[n].at > time - Minute + Stall
  BY QuotaNumbers DEF Young, GrantsInOrder
<1> HIDE DEF c, R, W, Y
<1>5. \A n \in Y : granted[n].now > c.now - Minute
  <2> TAKE n \in Y
  <2> DEFINE now == granted[n].now
             at == granted[n].at
  <2>1. now \in Nat /\ at \in Nat /\ at <= now + Stall /\ at > time - Minute + Stall
    BY <1>4
  <2> HIDE DEF now, at
  <2>2. now > c.now - Minute
    BY <1>1, <2>1
  <2> QED BY <2>2 DEF now
<1>6. Len(R) \in Nat
  BY <1>1
<1>7. \A n \in Y : g[n] \in 1 .. Len(R) /\ g[n] > d
  <2> TAKE n \in Y
  <2>1. g[n] \in 1 .. Len(R)
    BY <1>3
  <2>2. ~(R[g[n]] <= c.now - Minute)
    BY <1>1, <1>3, <1>4, <1>5
  <2> QED BY <1>2, <1>6, <2>1, <2>2
<1> DEFINE h == [n \in Y |-> g[n] - d]
<1>8. h \in [Y -> 1 .. Len(W)]
  BY <1>2, <1>6, <1>7
<1>9. \A m, n \in Y : h[m] = h[n] => m = n
  BY <1>2, <1>3, <1>6, <1>7
<1>10. \A n \in Y : W[h[n]] = granted[n].now
  BY <1>2, <1>3, <1>6, <1>7
<1> HIDE DEF h
<1> QED BY <1>8, <1>9, <1>10 DEF c, R, W, Y

\* After a decision every young grant still has its entry, the new one among them.
LEMMA DecideRemembers ==
  ASSUME QuotaInv, GrantsInOrder, NEW t \in Threads, Decide(t),
         NEW k \in Kinds, NEW u \in Users, Remembered(k, u)
  PROVE  Remembered(k, u)'
<1> DEFINE c == call[t]
           L == Len(granted)
           W == Within(recent[<<c.kind, c.user>>], c.now)
           Y == Young(k, u)
<1>1. /\ c.kind \in Kinds /\ c.user \in Users /\ c.now \in Times /\ time' = time
      /\ recent[<<c.kind, c.user>>] \in Seq(Times) /\ L \in Nat
  BY DecideIsEither, QuotaNumbers
<1>2. W \in Seq(Times)
  BY <1>1, WithinIsSeq
<1>3. /\ granted' = granted \/ /\ Granted(t)
                               /\ Len(granted') = L + 1
                               /\ \A n \in 1 .. L : granted'[n] = granted[n]
  BY DecideIsEither, GrantIsLast DEF TurnedAway
<1>4. CASE k # c.kind \/ u # c.user
  <2>1. recent'[<<k, u>>] = recent[<<k, u>>]
    <3>1. <<k, u>> # <<c.kind, c.user>> /\ <<k, u>> \in Kinds \X Users
      BY <1>4
    <3>2. PICK next : recent' = [recent EXCEPT ![<<c.kind, c.user>>] = next]
      BY DecideIsEither DEF Granted, TurnedAway
    <3>3. recent \in [Kinds \X Users -> Seq(Times)]
      BY DEF QuotaInv, QuotaTypeOK, Times
    <3> QED BY <3>1, <3>2, <3>3
  <2>2. Young(k, u)' = Y
    <3>1. CASE granted' = granted
      BY <3>1, <1>1 DEF Young
    <3>2. CASE Granted(t)
      <4>1. granted'[L + 1].kind = c.kind /\ granted'[L + 1].user = c.user
        <5> DEFINE r == [kind |-> c.kind, user |-> c.user, now |-> c.now, at |-> time]
        <5>1. r.kind = c.kind /\ r.user = c.user
          OBVIOUS
        <5>2. granted'[L + 1] = r
          BY <3>2, GrantIsLast
        <5> HIDE DEF r
        <5> QED BY <5>1, <5>2
      <4>2. \A n \in 1 .. L + 1 : n = L + 1 \/ n \in 1 .. L
        BY <1>1
      <4>3. Len(granted') = L + 1 /\ \A n \in 1 .. L : n \in 1 .. L + 1 /\ granted'[n] = granted[n]
        <5>1. Len(granted') = L + 1 /\ \A n \in 1 .. L : granted'[n] = granted[n]
          BY <3>2, GrantIsLast
        <5> QED BY <1>1, <5>1
      <4> QED BY <1>1, <1>4, <4>1, <4>2, <4>3 DEF Young
    <3> QED BY <1>3, <3>1, <3>2
  <2>3. \A n \in Y : granted'[n] = granted[n]
    BY <1>3 DEF Young
  <2>4. PICK g \in [Y -> 1 .. Len(recent[<<k, u>>])] :
          /\ \A m, n \in Y : g[m] = g[n] => m = n
          /\ \A n \in Y : recent[<<k, u>>][g[n]] = granted[n].now
    BY DEF Remembered
  <2> HIDE DEF Y
  <2>5. g \in [Young(k, u)' -> 1 .. Len(recent'[<<k, u>>])]
    BY <2>1, <2>2, <2>4
  <2>6. \A m, n \in Young(k, u)' : g[m] = g[n] => m = n
    BY <2>2, <2>4
  <2>7. \A n \in Young(k, u)' : recent'[<<k, u>>][g[n]] = granted'[n].now
    BY <2>1, <2>2, <2>3, <2>4
  <2> QED BY <2>5, <2>6, <2>7 DEF Remembered
<1>5. CASE k = c.kind /\ u = c.user
  <2>1. PICK h \in [Y -> 1 .. Len(W)] :
          /\ \A m, n \in Y : h[m] = h[n] => m = n
          /\ \A n \in Y : W[h[n]] = granted[n].now
    <3>1. Remembered(c.kind, c.user)
      BY <1>5
    <3>2. PICK h \in [Young(c.kind, c.user) -> 1 .. Len(W)] :
            /\ \A m, n \in Young(c.kind, c.user) : h[m] = h[n] => m = n
            /\ \A n \in Young(c.kind, c.user) : W[h[n]] = granted[n].now
      BY <3>1, YoungOutlastDropping
    <3>3. Young(c.kind, c.user) = Y
      BY <1>5
    <3> HIDE DEF Y, W
    <3> QED BY <3>2, <3>3
  <2>2. CASE TurnedAway(t)
    <3>1. recent'[<<k, u>>] = W /\ granted' = granted
      BY <1>1, <1>5, <2>2 DEF TurnedAway, QuotaInv, QuotaTypeOK
    <3>2. Young(k, u)' = Y
      BY <1>1, <3>1 DEF Young
    <3> HIDE DEF W, Y
    <3> QED BY <2>1, <3>1, <3>2 DEF Remembered
  <2>3. CASE Granted(t)
    <3> DEFINE Z == Young(k, u)'
               i == [n \in Z |-> IF n = L + 1 THEN Len(W) + 1 ELSE h[n]]
    <3>1. recent'[<<k, u>>] = Append(W, c.now)
      BY <1>1, <1>5, <2>3 DEF Granted, QuotaInv, QuotaTypeOK
    <3>2. /\ Len(granted') = L + 1
          /\ \A n \in 1 .. L : granted'[n] = granted[n]
          /\ granted'[L + 1].now = c.now
      <4> DEFINE r == [kind |-> c.kind, user |-> c.user, now |-> c.now, at |-> time]
      <4>1. r.now = c.now
        OBVIOUS
      <4>2. /\ Len(granted') = L + 1
            /\ \A n \in 1 .. L : granted'[n] = granted[n]
            /\ granted'[L + 1] = r
        BY <2>3, GrantIsLast
      <4> HIDE DEF r
      <4> QED BY <4>1, <4>2
    <3>3. \A n \in Z : n = L + 1 \/ (n \in Y /\ n \in 1 .. L)
      BY <1>1, <3>2 DEF Young
    <3>4. \A n \in Y : n \in 1 .. L
      BY DEF Young
    <3>5. /\ Len(W) \in Nat /\ Len(Append(W, c.now)) = Len(W) + 1
          /\ Append(W, c.now)[Len(W) + 1] = c.now
          /\ \A n \in 1 .. Len(W) : Append(W, c.now)[n] = W[n]
      <4> HIDE DEF W, c
      <4> QED BY <1>1, <1>2
    <3> HIDE DEF Y, Z, W, c, L
    <3>6. L + 1 \notin 1 .. L
      BY <1>1
    <3>7. i \in [Z -> 1 .. Len(W) + 1]
      BY <2>1, <3>3, <3>5
    <3>8. \A m, n \in Z : i[m] = i[n] => m = n
      BY <2>1, <3>3, <3>5
    <3>9. \A n \in Z : Append(W, c.now)[i[n]] = granted'[n].now
      BY <2>1, <3>2, <3>3, <3>5, <3>6
    <3> HIDE DEF i
    <3>10. i \in [Z -> 1 .. Len(recent'[<<k, u>>])]
      BY <3>1, <3>5, <3>7
    <3>11. \A n \in Z : recent'[<<k, u>>][i[n]] = granted'[n].now
      BY <3>1, <3>9
    <3> QED BY <3>8, <3>10, <3>11 DEF Remembered, Z
  <2> QED BY <2>2, <2>3, DecideIsEither
<1> QED BY <1>4, <1>5

Own(k, u, i, j) == {n \in i .. j : granted[n].kind = k /\ granted[n].user = u}

\* A refusal grants nothing; a grant closes a stretch that holds no more grants than there
\* are times still counted, or began a minute ago.
LEMMA DecideKeepsMinute ==
  ASSUME QuotaInv, MinuteInv, NEW t \in Threads, Decide(t)
  PROVE  QuotaPerMinute'
<1> DEFINE c == call[t]
           L == Len(granted)
<1>1. CASE TurnedAway(t)
  <2>1. granted' = granted
    BY <1>1 DEF TurnedAway
  <2> QED BY <2>1 DEF MinuteInv, QuotaPerMinute
<1>2. CASE Granted(t)
  <2>1. /\ Len(granted') = L + 1
        /\ \A n \in 1 .. L : granted'[n] = granted[n]
        /\ granted'[L + 1].at = time
        /\ granted'[L + 1].kind = c.kind /\ granted'[L + 1].user = c.user
    <3> DEFINE r == [kind |-> c.kind, user |-> c.user, now |-> c.now, at |-> time]
    <3>1. r.kind = c.kind /\ r.user = c.user /\ r.at = time
      OBVIOUS
    <3>2. /\ Len(granted') = L + 1
          /\ \A n \in 1 .. L : granted'[n] = granted[n]
          /\ granted'[L + 1] = r
      BY <1>2, GrantIsLast
    <3> HIDE DEF r
    <3> QED BY <3>1, <3>2
  <2>2. /\ {Minute, Stall, time, L} \subseteq Nat
        /\ \A n \in 1 .. L : granted[n].at \in Nat /\ granted[n].at <= time
        /\ \A m, n \in 1 .. L : m <= n => granted[m].at <= granted[n].at
        /\ c.kind \in Kinds /\ c.user \in Users
        /\ \A k \in Kinds : PerMinute[k] \in Nat \ {0}
    BY QuotaNumbers, DecideIsEither DEF MinuteInv, GrantsInOrder
  <2> HIDE DEF L
  <2>3. SUFFICES ASSUME NEW k \in Kinds, NEW u \in Users,
                        NEW i \in 1 .. L + 1, NEW j \in 1 .. L + 1,
                        Cardinality(Own(k, u, i, j)') > PerMinute[k]
                 PROVE  granted'[j].at - granted'[i].at >= Minute - Stall
    BY <2>1 DEF QuotaPerMinute, Own
  <2>4. \A n \in 1 .. L + 1 : n = L + 1 \/ n \in 1 .. L
    BY <2>2
  <2>5. i \in Nat /\ j \in Nat /\ i <= j
    <3>1. i \in Nat /\ j \in Nat
      BY <2>2
    <3>2. CASE i > j
      <4>1. Own(k, u, i, j)' = {}
        BY <3>1, <3>2 DEF Own
      <4> QED BY <4>1, <2>2, <2>3, FS_EmptySet
    <3> QED BY <3>1, <3>2
  <2>6. CASE j \in 1 .. L
    <3>1. i \in 1 .. L /\ \A n \in i .. j : n \in 1 .. L
      BY <2>2, <2>5, <2>6
    <3>2. Own(k, u, i, j)' = Own(k, u, i, j)
      BY <2>1, <3>1 DEF Own
    <3>3. granted[j].at - granted[i].at >= Minute - Stall
      BY <2>3, <2>6, <3>1, <3>2 DEF MinuteInv, QuotaPerMinute, Own, L
    <3> QED BY <2>1, <2>6, <3>1, <3>3
  <2>7. CASE j = L + 1 /\ ~(k = c.kind /\ u = c.user)
    <3>1. CASE i \in 1 .. L
      <4>1. L \in 1 .. L /\ \A n \in i .. L : n \in 1 .. L /\ n \in i .. j
        BY <2>2, <2>7, <3>1
      <4>2. \A n \in i .. j : n = L + 1 \/ n \in i .. L
        BY <2>2, <2>7
      <4>3. Own(k, u, i, j)' = Own(k, u, i, L)
        BY <2>1, <2>7, <4>1, <4>2 DEF Own
      <4>4. granted[L].at - granted[i].at >= Minute - Stall
        BY <2>3, <3>1, <4>1, <4>3 DEF MinuteInv, QuotaPerMinute, Own, L
      <4>5. granted[L].at \in Nat /\ granted[L].at <= time /\ granted[i].at \in Nat
        BY <2>2, <3>1, <4>1
      <4>6. \A a, b \in Nat : b <= time /\ b - a >= Minute - Stall => time - a >= Minute - Stall
        BY <2>2
      <4>7. time - granted[i].at >= Minute - Stall
        BY <4>4, <4>5, <4>6
      <4> QED BY <2>1, <2>7, <3>1, <4>7
    <3>2. CASE i = L + 1
      <4>1. \A n \in i .. j : n = L + 1
        BY <2>2, <2>7, <3>2
      <4>2. Own(k, u, i, j)' = {}
        BY <2>1, <2>7, <4>1 DEF Own
      <4> QED BY <2>2, <2>3, <4>2, FS_EmptySet
    <3> QED BY <2>4, <3>1, <3>2
  <2>8. CASE j = L + 1 /\ k = c.kind /\ u = c.user
    <3> DEFINE W == Within(recent[<<c.kind, c.user>>], c.now)
               Y == Young(c.kind, c.user)
    <3>1. SUFFICES ASSUME ~(time - granted'[i].at >= Minute - Stall) PROVE FALSE
      BY <2>1, <2>8
    <3>2. PICK h \in [Y -> 1 .. Len(W)] : \A m, n \in Y : h[m] = h[n] => m = n
      <4>1. GrantsInOrder /\ Remembered(c.kind, c.user)
        BY <2>2 DEF MinuteInv
      <4>2. \E h \in [Y -> 1 .. Len(W)] :
              /\ \A m, n \in Y : h[m] = h[n] => m = n
              /\ \A n \in Y : W[h[n]] = granted[n].now
        BY <4>1, YoungOutlastDropping
      <4> HIDE DEF W, Y
      <4> QED BY <4>2
    <3>3. W \in Seq(Times) /\ Len(W) < PerMinute[k]
      BY <1>2, <2>8, DecideIsEither, QuotaNumbers, WithinIsSeq DEF Granted
    <3>4. Own(k, u, i, j)' \subseteq Y \cup {L + 1}
      <4>1. SUFFICES ASSUME NEW n \in i .. j, n # L + 1,
                            granted'[n].kind = k, granted'[n].user = u
                     PROVE  n \in Y
        BY DEF Own
      <4>2. n \in 1 .. L /\ i \in 1 .. L /\ i <= n
        BY <2>2, <2>5, <2>8, <4>1
      <4>3. granted[i].at <= granted[n].at /\ granted[i].at \in Nat /\ granted[n].at \in Nat
        BY <2>2, <4>2
      <4>4. granted[n].at > time - Minute + Stall
        <5>1. \A a, b \in Nat :
                a <= b /\ ~(time - a >= Minute - Stall) => b > time - Minute + Stall
          BY <2>2
        <5>2. ~(time - granted[i].at >= Minute - Stall)
          BY <2>1, <3>1, <4>2
        <5> QED BY <4>3, <5>1, <5>2
      <4> QED BY <2>1, <2>8, <4>1, <4>2, <4>4 DEF Young, L
    <3>5. Len(W) \in Nat
      BY <3>3
    <3> HIDE DEF W, Y
    <3>6. IsFiniteSet(1 .. Len(W)) /\ Cardinality(1 .. Len(W)) = Len(W)
      <4> DEFINE N == Len(W)
      <4>1. N \in Nat
        BY <3>5
      <4> HIDE DEF N
      <4>2. IsFiniteSet(1 .. N) /\ Cardinality(1 .. N) = N
        BY <4>1, FS_Interval
      <4> QED BY <4>2 DEF N
    <3>7. h \in Injection(Y, 1 .. Len(W))
      BY <3>2 DEF Injection, IsInjective
    <3>8. IsFiniteSet(Y) /\ Cardinality(Y) <= Len(W)
      BY <3>6, <3>7, FS_Injection
    <3>9. IsFiniteSet(Y \cup {L + 1}) /\ Cardinality(Y \cup {L + 1}) <= Len(W) + 1
      <4>1. Cardinality(Y) \in Nat
        BY <3>8, FS_CardinalityType
      <4>2. /\ IsFiniteSet(Y \cup {L + 1})
            /\ Cardinality(Y \cup {L + 1}) = Cardinality(Y)
                 \/ Cardinality(Y \cup {L + 1}) = Cardinality(Y) + 1
        BY <3>8, FS_AddElement
      <4> QED BY <3>5, <3>8, <4>1, <4>2
    <3>10. Cardinality(Own(k, u, i, j)') <= Len(W) + 1
      <4> DEFINE O == Own(k, u, i, j)'
      <4>1. O \subseteq Y \cup {L + 1}
        BY <3>4
      <4> HIDE DEF O
      <4>2. IsFiniteSet(O) /\ Cardinality(O) <= Cardinality(Y \cup {L + 1})
        BY <3>9, <4>1, FS_Subset
      <4>3. Cardinality(O) \in Nat /\ Cardinality(Y \cup {L + 1}) \in Nat
        BY <3>9, <4>2, FS_CardinalityType
      <4>4. Cardinality(O) <= Len(W) + 1
        BY <3>5, <3>9, <4>2, <4>3
      <4> QED BY <4>4 DEF O
    <3>11. Cardinality(Own(k, u, i, j)') \in Nat
      <4> DEFINE O == Own(k, u, i, j)'
      <4>1. O \subseteq Y \cup {L + 1}
        BY <3>4
      <4> HIDE DEF O
      <4>2. Cardinality(O) \in Nat
        BY <3>9, <4>1, FS_Subset, FS_CardinalityType
      <4> QED BY <4>2 DEF O
    <3> QED BY <2>2, <2>3, <3>3, <3>5, <3>10, <3>11
  <2> QED BY <2>4, <2>6, <2>7, <2>8
<1> QED BY <1>1, <1>2, DecideIsEither

\* The writes of a stretch are finitely many.
LEMMA WritesAreFinite ==
  ASSUME NEW i \in Nat, NEW j \in Nat
  PROVE  IsFiniteSet(Writes(i, j)) /\ Cardinality(Writes(i, j)) \in Nat
<1>1. IsFiniteSet(i .. j)
  BY FS_Interval
<1>2. Writes(i, j) \subseteq i .. j
  BY DEF Writes
<1> QED BY <1>1, <1>2, FS_Subset, FS_CardinalityType

\* The writes of a stretch that ends with the grant of one are those before it, and it.
LEMMA OneMoreWrite ==
  ASSUME QuotaInv, NEW t \in Threads, Granted(t), call[t].kind = "write",
         NEW L, L = Len(granted), NEW i \in 1 .. L + 1
  PROVE  /\ Writes(i, L + 1)' = Writes(i, L) \cup {L + 1}
         /\ Cardinality(Writes(i, L + 1)') = Cardinality(Writes(i, L)) + 1
<1> DEFINE S == Writes(i, L)
<1>1. /\ L \in Nat
      /\ \A n \in 1 .. L : granted'[n] = granted[n]
      /\ granted'[L + 1].kind = "write"
  <2> DEFINE r == [kind |-> call[t].kind, user |-> call[t].user, now |-> call[t].now, at |-> time]
  <2>1. r.kind = "write"
    OBVIOUS
  <2>2. /\ \A n \in 1 .. L : granted'[n] = granted[n]
        /\ granted'[L + 1] = r
    BY GrantIsLast
  <2> HIDE DEF r
  <2> QED BY <2>1, <2>2, QuotaNumbers
<1>2. /\ \A n \in i .. L + 1 : n = L + 1 \/ n \in i .. L
      /\ \A n \in i .. L : n \in i .. L + 1 /\ n \in 1 .. L
      /\ L + 1 \in i .. L + 1
      /\ L + 1 \notin i .. L
      /\ i \in Nat
  BY <1>1
<1>3. Writes(i, L + 1)' = S \cup {L + 1}
  BY <1>1, <1>2 DEF Writes
<1>4. IsFiniteSet(S) /\ L + 1 \notin S
  BY <1>1, <1>2, WritesAreFinite DEF Writes
<1> HIDE DEF S
<1>5. Cardinality(S \cup {L + 1}) = Cardinality(S) + 1
  BY <1>4, FS_AddElement
<1> QED BY <1>3, <1>5 DEF S

\* The quota of a day, with the stretches of grants named as the proof names them.
LEMMA WritesOfTwoDays ==
  ASSUME QuotaPerDay, NEW i \in 1 .. Len(granted), NEW j \in 1 .. Len(granted),
         Cardinality(Writes(i, j)) > PerDay
  PROVE  \E m, n \in Writes(i, j) : DayIndex(granted[m].now) # DayIndex(granted[n].now)
  BY DEF QuotaPerDay, Writes

\* A write is counted for its day: the count covers the stretch that ends with it, unless
\* a write of another day is in it, and it is below the limit before.
LEMMA DecideKeepsDay ==
  ASSUME QuotaInv, DayInv, NEW t \in Threads, Decide(t)
  PROVE  DayInv'
<1>0. PICK L, c, today : L = Len(granted) /\ c = call[t] /\ today = DayIndex(c.now)
  OBVIOUS
<1>1. CASE TurnedAway(t)
  <2>1. granted' = granted /\ dayWrites' = dayWrites
    BY <1>1 DEF TurnedAway
  <2> QED BY <2>1 DEF DayInv, QuotaPerDay, Writes, OfDay
<1>2. CASE Granted(t)
  <2>1. /\ Len(granted') = L + 1
        /\ \A n \in 1 .. L : granted'[n] = granted[n]
        /\ granted'[L + 1].now = c.now /\ granted'[L + 1].kind = c.kind
    <3> DEFINE r == [kind |-> c.kind, user |-> c.user, now |-> c.now, at |-> time]
    <3>1. r.kind = c.kind /\ r.now = c.now
      OBVIOUS
    <3>2. /\ Len(granted') = L + 1
          /\ \A n \in 1 .. L : granted'[n] = granted[n]
          /\ granted'[L + 1] = r
      BY <1>0, <1>2, GrantIsLast
    <3> HIDE DEF r
    <3> QED BY <3>1, <3>2
  <2>2. L \in Nat /\ PerDay \in Nat \ {0} /\ dayWrites.count \in Nat
    BY <1>0, QuotaNumbers DEF QuotaInv, QuotaTypeOK
  <2>3. ASSUME NEW i \in 1 .. L + 1, NEW j \in 1 .. L
        PROVE  /\ Writes(i, j)' = Writes(i, j)
               /\ \A n \in Writes(i, j) : n \in 1 .. L /\ granted'[n] = granted[n]
    <3>1. \A n \in i .. j : n \in 1 .. L
      BY <2>2, <2>3
    <3> QED BY <2>1, <3>1 DEF Writes
  <2>4. ASSUME NEW i \in 1 .. L + 1, NEW j \in 1 .. L, Cardinality(Writes(i, j)') > PerDay
        PROVE  \E m, n \in Writes(i, j)' : DayIndex(granted'[m].now) # DayIndex(granted'[n].now)
    <3>1. CASE i \in 1 .. L
      <4>1. Cardinality(Writes(i, j)) > PerDay
        BY <2>3, <2>4
      <4>2. \E m, n \in Writes(i, j) : DayIndex(granted[m].now) # DayIndex(granted[n].now)
        BY <1>0, <2>4, <3>1, <4>1, WritesOfTwoDays DEF DayInv
      <4> QED BY <2>3, <4>2
    <3>2. CASE i = L + 1
      <4>1. Writes(i, j)' = {}
        BY <2>2, <3>2 DEF Writes
      <4> QED BY <2>2, <2>4, <4>1, FS_EmptySet
    <3> QED BY <2>2, <3>1, <3>2
  <2>5. CASE c.kind # "write"
    <3>1. dayWrites' = dayWrites
      BY <1>0, <1>2, <2>5 DEF Granted
    <3>2. ASSUME NEW i \in 1 .. L + 1
          PROVE  /\ Writes(i, L + 1)' = Writes(i, L)
                 /\ \A n \in Writes(i, L) : n \in 1 .. L /\ granted'[n] = granted[n]
      <4>1. /\ \A n \in i .. L + 1 : n = L + 1 \/ n \in i .. L
            /\ \A n \in i .. L : n \in i .. L + 1 /\ n \in 1 .. L
        BY <2>2
      <4> QED BY <2>1, <2>5, <4>1 DEF Writes
    <3>3. Writes(L + 1, L) = {}
      BY <2>2 DEF Writes
    <3>4. ASSUME NEW i \in 1 .. L + 1
          PROVE  /\ Writes(i, L) # {} => \E n \in Writes(i, L) : OfDay(n)
                 /\ (\A n \in Writes(i, L) : OfDay(n)) => Cardinality(Writes(i, L)) <= dayWrites.count
      <4>1. CASE i \in 1 .. L
        BY <1>0, <4>1 DEF DayInv
      <4>2. CASE i = L + 1
        BY <2>2, <3>3, <4>2, FS_EmptySet
      <4> QED BY <2>2, <4>1, <4>2
    <3>5. ASSUME NEW i \in 1 .. L + 1
          PROVE  /\ Writes(i, L + 1)' # {} => \E n \in Writes(i, L + 1)' : OfDay(n)'
                 /\ (\A n \in Writes(i, L + 1)' : OfDay(n)') =>
                      Cardinality(Writes(i, L + 1)') <= dayWrites'.count
      <4>1. \A n \in Writes(i, L) : OfDay(n)' <=> OfDay(n)
        BY <3>1, <3>2 DEF OfDay
      <4> QED BY <3>1, <3>2, <3>4, <4>1
    <3>6. ASSUME NEW i \in 1 .. L + 1, Cardinality(Writes(i, L + 1)') > PerDay
          PROVE  \E m, n \in Writes(i, L + 1)' :
                   DayIndex(granted'[m].now) # DayIndex(granted'[n].now)
      <4>1. CASE i \in 1 .. L
        <5>1. L \in 1 .. L
          BY <2>2, <4>1
        <5>2. \E m, n \in Writes(i, L) : DayIndex(granted[m].now) # DayIndex(granted[n].now)
          <6>1. Cardinality(Writes(i, L)) > PerDay
            BY <3>2, <3>6
          <6> QED BY <1>0, <4>1, <5>1, <6>1, WritesOfTwoDays DEF DayInv
        <5> QED BY <3>2, <5>2
      <4>2. CASE i = L + 1
        BY <2>2, <3>2, <3>3, <3>6, <4>2, FS_EmptySet
      <4> QED BY <2>2, <4>1, <4>2
    <3>7. QuotaPerDay'
      <4>1. \A j \in 1 .. L + 1 : j = L + 1 \/ j \in 1 .. L
        BY <2>2
      <4> QED BY <2>1, <2>4, <3>6, <4>1 DEF QuotaPerDay, Writes
    <3> QED BY <2>1, <3>5, <3>7 DEF DayInv
  <2>6. CASE c.kind = "write"
    <3>0. PICK used : used = Used(c.now)
      OBVIOUS
    <3>1. /\ used < PerDay /\ used \in Nat
          /\ dayWrites'.day = today /\ dayWrites'.count = used + 1
      <4>1. used < PerDay /\ dayWrites' = [day |-> today, count |-> used + 1]
        BY <1>0, <1>2, <2>6, <3>0 DEF Granted
      <4>2. used \in Nat
        BY <2>2, <3>0 DEF Used
      <4> QED BY <4>1, <4>2
    <3>2. ASSUME NEW i \in 1 .. L + 1
          PROVE  /\ Writes(i, L + 1)' = Writes(i, L) \cup {L + 1}
                 /\ Cardinality(Writes(i, L + 1)') = Cardinality(Writes(i, L)) + 1
                 /\ \A n \in Writes(i, L) : n \in 1 .. L /\ granted'[n] = granted[n]
                 /\ Cardinality(Writes(i, L)) \in Nat
      <4>1. /\ Writes(i, L + 1)' = Writes(i, L) \cup {L + 1}
            /\ Cardinality(Writes(i, L + 1)') = Cardinality(Writes(i, L)) + 1
        BY <1>0, <1>2, <2>6, OneMoreWrite
      <4>2. \A n \in i .. L : n \in 1 .. L
        BY <2>2
      <4>3. i \in Nat
        BY <2>2
      <4>4. \A n \in Writes(i, L) : n \in 1 .. L /\ granted'[n] = granted[n]
        BY <2>1, <4>2 DEF Writes
      <4> QED BY <4>1, <4>3, <4>4, <2>2, WritesAreFinite
    <3>3. OfDay(L + 1)'
      BY <1>0, <2>1, <3>1 DEF OfDay
    <3>4. ASSUME NEW i \in 1 .. L + 1,
                 \A n \in Writes(i, L) : DayIndex(granted[n].now) = today
          PROVE  Cardinality(Writes(i, L)) <= used
      <4>1. CASE Writes(i, L) = {}
        BY <3>1, <4>1, FS_EmptySet
      <4>2. CASE Writes(i, L) # {}
        <5>1. i \in 1 .. L
          BY <2>2, <4>2 DEF Writes
        <5>2. \E n \in Writes(i, L) : OfDay(n)
          BY <1>0, <4>2, <5>1 DEF DayInv
        <5>3. dayWrites.day = today
          BY <3>4, <5>2 DEF OfDay
        <5>4. Cardinality(Writes(i, L)) <= dayWrites.count
          BY <1>0, <3>4, <5>1, <5>3 DEF DayInv, OfDay
        <5> QED BY <1>0, <3>0, <5>3, <5>4 DEF Used
      <4> QED BY <4>1, <4>2
    <3>5. ASSUME NEW i \in 1 .. L + 1, \A n \in Writes(i, L + 1)' : DayIndex(granted'[n].now) = today
          PROVE  Cardinality(Writes(i, L + 1)') <= used + 1
      <4>1. \A n \in Writes(i, L) : DayIndex(granted[n].now) = today
        BY <3>2, <3>5
      <4>2. Cardinality(Writes(i, L)) <= used
        BY <3>4, <4>1
      <4> QED BY <3>1, <3>2, <4>2
    <3>6. ASSUME NEW i \in 1 .. L + 1, Cardinality(Writes(i, L + 1)') > PerDay
          PROVE  \E m, n \in Writes(i, L + 1)' :
                   DayIndex(granted'[m].now) # DayIndex(granted'[n].now)
      <4>1. ~(Cardinality(Writes(i, L + 1)') <= used + 1)
        BY <2>2, <3>1, <3>2, <3>6
      <4>2. PICK n \in Writes(i, L + 1)' : DayIndex(granted'[n].now) # today
        BY <3>5, <4>1
      <4>3. L + 1 \in Writes(i, L + 1)' /\ DayIndex(granted'[L + 1].now) = today
        BY <1>0, <2>1, <3>2
      <4> QED BY <4>2, <4>3
    <3>7. QuotaPerDay'
      <4>1. \A j \in 1 .. L + 1 : j = L + 1 \/ j \in 1 .. L
        BY <2>2
      <4> QED BY <2>1, <2>4, <3>6, <4>1 DEF QuotaPerDay, Writes
    <3>8. ASSUME NEW i \in 1 .. L + 1
          PROVE  /\ \E n \in Writes(i, L + 1)' : OfDay(n)'
                 /\ (\A n \in Writes(i, L + 1)' : OfDay(n)') =>
                      Cardinality(Writes(i, L + 1)') <= dayWrites'.count
      <4>1. \E n \in Writes(i, L + 1)' : OfDay(n)'
        BY <3>2, <3>3
      <4> QED BY <3>1, <3>5, <4>1 DEF OfDay
    <3> QED BY <2>1, <3>7, <3>8 DEF DayInv
  <2> QED BY <2>5, <2>6
<1> QED BY <1>1, <1>2, DecideIsEither

\* Time passing, and a call that looks at the clock: no grant gets younger.
LEMMA MinuteGoesOn ==
  ASSUME QuotaInv, MinuteInv, UNCHANGED <<recent, granted>>, time' \in Nat, time <= time',
         \A t \in Threads : call'[t].step = "decide" => time' <= call'[t].now + Stall
  PROVE  MinuteInv'
<1>1. /\ {Minute, Stall, time} \subseteq Nat
      /\ \A n \in 1 .. Len(granted) : granted[n].at \in Nat
  BY QuotaNumbers
<1>2. GrantsInOrder'
  <2>1. \A n \in 1 .. Len(granted) : granted[n].at <= time'
    BY <1>1 DEF MinuteInv, GrantsInOrder
  <2> QED BY <2>1 DEF MinuteInv, GrantsInOrder
<1>3. ASSUME NEW k \in Kinds, NEW u \in Users PROVE Remembered(k, u)'
  <2> DEFINE Y == Young(k, u)
             Z == Young(k, u)'
             R == recent[<<k, u>>]
  <2>1. PICK g \in [Y -> 1 .. Len(R)] :
          /\ \A m, n \in Y : g[m] = g[n] => m = n
          /\ \A n \in Y : R[g[n]] = granted[n].now
    BY DEF MinuteInv, Remembered
  <2>2. Z \subseteq Y
    <3>1. \A a \in Nat : a > time' - Minute + Stall => a > time - Minute + Stall
      BY <1>1
    <3> QED BY <1>1, <3>1 DEF Young
  <2> HIDE DEF Y, Z, R
  <2> DEFINE h == [n \in Z |-> g[n]]
  <2>3. /\ h \in [Z -> 1 .. Len(R)]
        /\ \A m, n \in Z : h[m] = h[n] => m = n
        /\ \A n \in Z : R[h[n]] = granted[n].now
    BY <2>1, <2>2
  <2> HIDE DEF h
  <2>4. \E f \in [Z -> 1 .. Len(R)] :
          /\ \A m, n \in Z : f[m] = f[n] => m = n
          /\ \A n \in Z : R[f[n]] = granted[n].now
    BY <2>3
  <2> QED BY <2>4 DEF Remembered, Z, R
<1> QED BY <1>2, <1>3 DEF MinuteInv, QuotaPerMinute

\* The quotas and what they rest on.
LimitsInv == QuotaInv /\ MinuteInv /\ DayInv

LEMMA LimitsKeep == LimitsInv /\ [Next]_vars => LimitsInv'
<1> SUFFICES ASSUME LimitsInv, [Next]_vars PROVE LimitsInv'
  OBVIOUS
<1>1. QuotaInv'
  BY QuotasKeep DEF LimitsInv
<1>2. QuotaInv /\ MinuteInv /\ DayInv
  BY DEF LimitsInv
<1>3. time \in Nat /\ time' \in Nat /\ Stall \in Nat
  BY <1>1, <1>2, QuotaAssumption DEF QuotaInv, QuotaTypeOK
<1>4. ASSUME UNCHANGED <<recent, granted, dayWrites>> PROVE DayInv'
  <2>1. granted' = granted /\ dayWrites' = dayWrites
    BY <1>4
  <2>2. QuotaPerDay'
    BY <1>2, <2>1 DEF DayInv, QuotaPerDay
  <2>3. \A i, j : Writes(i, j)' = Writes(i, j)
    BY <2>1 DEF Writes
  <2>4. \A n : OfDay(n)' <=> OfDay(n)
    BY <2>1 DEF OfDay
  <2> QED BY <1>2, <2>1, <2>2, <2>3, <2>4 DEF DayInv
<1>5. ASSUME UNCHANGED quotaVars PROVE LimitsInv'
  <2>1. UNCHANGED <<time, call, recent, dayWrites, granted>>
    BY <1>5 DEF quotaVars
  <2>2. MinuteInv'
    BY <1>2, <1>3, <2>1, MinuteGoesOn DEF MinuteInv, GrantsInOrder
  <2> QED BY <1>1, <1>4, <2>1, <2>2 DEF LimitsInv
<1>6. ASSUME NEW t \in Threads, NEW kind \in Kinds, NEW user \in Users, Ask(t, kind, user)
      PROVE  LimitsInv'
  <2> DEFINE c == [step |-> "decide", kind |-> kind, user |-> user, now |-> time]
  <2>1. call' = [call EXCEPT ![t] = c] /\ UNCHANGED <<time, recent, dayWrites, granted>>
    BY <1>6 DEF Ask
  <2>2. c.now = time
    OBVIOUS
  <2> HIDE DEF c
  <2>3. \A v \in Threads : call'[v].step = "decide" => time' <= call'[v].now + Stall
    BY <1>2, <1>3, <2>1, <2>2 DEF QuotaInv, QuotaTypeOK, MinuteInv, GrantsInOrder
  <2> QED BY <1>1, <1>2, <1>3, <1>4, <2>1, <2>3, MinuteGoesOn DEF LimitsInv
<1>7. ASSUME NEW t \in Threads, NEW kind \in Kinds, Proceed(t, kind) PROVE LimitsInv'
  <2> DEFINE c == [step |-> "idle"]
  <2>1. call' = [call EXCEPT ![t] = c] /\ UNCHANGED <<time, recent, dayWrites, granted>>
    BY <1>7 DEF Proceed
  <2>2. c.step # "decide"
    OBVIOUS
  <2> HIDE DEF c
  <2>3. \A v \in Threads : call'[v].step = "decide" => time' <= call'[v].now + Stall
    BY <1>2, <2>1, <2>2 DEF QuotaInv, QuotaTypeOK, MinuteInv, GrantsInOrder
  <2> QED BY <1>1, <1>2, <1>3, <1>4, <2>1, <2>3, MinuteGoesOn DEF LimitsInv
<1>8. ASSUME Tick PROVE LimitsInv'
  <2>1. /\ time' = time + 1 /\ UNCHANGED <<call, recent, dayWrites, granted>>
        /\ \A t \in Threads : call[t].step = "decide" => time - call[t].now < Stall
    BY <1>8 DEF Tick
  <2>2. \A v \in Threads : call'[v].step = "decide" => time' <= call'[v].now + Stall
    <3> SUFFICES ASSUME NEW v \in Threads, call[v].step = "decide"
                 PROVE  time' <= call[v].now + Stall
      BY <2>1
    <3>1. call[v].now \in Nat /\ time - call[v].now < Stall
      BY <1>2, <2>1, QuotaNumbers
    <3> QED BY <1>3, <2>1, <3>1
  <2> QED BY <1>1, <1>2, <1>3, <1>4, <2>1, <2>2, MinuteGoesOn DEF LimitsInv
<1>9. ASSUME NEW t \in Threads, Decide(t) PROVE LimitsInv'
  <2>1. GrantsInOrder'
    BY <1>2, <1>9, OrderOfGrants DEF MinuteInv
  <2>2. \A k \in Kinds, u \in Users : Remembered(k, u)'
    BY <1>2, <1>9, DecideRemembers DEF MinuteInv
  <2>3. QuotaPerMinute'
    BY <1>2, <1>9, DecideKeepsMinute
  <2>4. MinuteInv'
    BY <2>1, <2>2, <2>3 DEF MinuteInv
  <2> QED BY <1>1, <1>2, <1>9, <2>4, DecideKeepsDay DEF LimitsInv
<1>10. ASSUME NEW t \in Threads, CiTool(t) \/ Memory(t) PROVE LimitsInv'
  BY <1>7, <1>10 DEF CiTool, Memory, Kinds
<1>11. CASE UNCHANGED vars
  BY <1>5, <1>11 DEF vars
<1>12. CASE \E t \in Threads : Download(t)
  BY <1>5, <1>12 DEF Download
<1>13. CASE \E job \in Jobs : Others(job)
  BY <1>5, <1>13 DEF Others
<1>14. CASE \E t \in Threads, kind \in Kinds, user \in Users : Call(t, kind, user)
  BY <1>6, <1>14 DEF Call
<1>15. CASE BuildNext /\ UNCHANGED <<quotaVars, calls>>
  BY <1>5, <1>15
<1> QED BY <1>8, <1>9, <1>10, <1>11, <1>12, <1>13, <1>14, <1>15 DEF Next

LEMMA LimitsInvariant == Spec => []LimitsInv
<1>1. Init => LimitsInv
  <2> SUFFICES ASSUME QuotaInit PROVE LimitsInv
    BY DEF Init
  <2>1. QuotaInv
    BY InitQuotas
  <2>2. /\ granted = << >> /\ Len(granted) = 0
        /\ \A t \in Threads : call[t].step # "decide"
    BY DEF QuotaInit
  <2>3. 1 .. Len(granted) = {}
    BY <2>2
  <2>4. GrantsInOrder /\ QuotaPerMinute /\ DayInv
    BY <2>2, <2>3 DEF GrantsInOrder, QuotaPerMinute, DayInv, QuotaPerDay
  <2>5. ASSUME NEW k \in Kinds, NEW u \in Users PROVE Remembered(k, u)
    <3> DEFINE R == recent[<<k, u>>]
    <3>1. Young(k, u) = {}
      BY <2>3 DEF Young
    <3> HIDE DEF R
    <3>2. [n \in {} |-> 0] \in [{} -> 1 .. Len(R)]
      OBVIOUS
    <3>3. \E g \in [{} -> 1 .. Len(R)] :
            /\ \A m, n \in {} : g[m] = g[n] => m = n
            /\ \A n \in {} : R[g[n]] = granted[n].now
      BY <3>2
    <3> QED BY <3>1, <3>3 DEF Remembered, R
  <2> QED BY <2>1, <2>4, <2>5 DEF LimitsInv, MinuteInv
<1> QED BY <1>1, LimitsKeep, PTL DEF Spec

\* In any stretch of a user's calls of a kind that were let through, one more than the
\* minute's limit takes a minute, less the time a thread may stall between the clock and
\* the lock: for any limits, users and threads.
THEOREM QuotaPerMinuteHolds == Spec => []QuotaPerMinute
<1>1. LimitsInv => QuotaPerMinute
  BY DEF LimitsInv, MinuteInv
<1> QED BY <1>1, LimitsInvariant, PTL

\* One more write than the day's limit are not let through without one of another day
\* among them.
THEOREM QuotaPerDayHolds == Spec => []QuotaPerDay
<1>1. LimitsInv => QuotaPerDay
  BY DEF LimitsInv, DayInv
<1> QED BY <1>1, LimitsInvariant, PTL
===============================================================================

------------------------------- MODULE CiBuilds -------------------------------
(***************************************************************************)
(* What the gateway asks of a Jenkins that others use too: start a build,  *)
(* cancel a queued one, read the console of the last one (ci_backend.py),  *)
(* and stream an artifact under a limit on streams (artifact_route.py).    *)
(*                                                                         *)
(* Each request to Jenkins is a step, and between two of them anything may *)
(* happen to its queue and its builds.  An artifact is so many chunks.     *)
(***************************************************************************)
EXTENDS Integers, Sequences, FiniteSets

CONSTANTS
  Handlers,      \* the threads that serve requests
  Jobs,
  Triggerable,   \* the jobs the project may start
  Streams,       \* ci_artifact_max_concurrent
  Cap,           \* ci_artifact_max_bytes, in chunks
  MaxItems       \* how many queue items there are

ASSUME BuildAssumption ==
  /\ IsFiniteSet(Handlers)
  /\ Triggerable \subseteq Jobs
  /\ {Streams, Cap, MaxItems} \subseteq Nat

VARIABLES
  queue,     \* queue items: the id and its job
  items,     \* ids given out
  builds,    \* how many builds of each job have begun
  cancelled, \* history: the jobs whose queued build the gateway has cancelled
  slots,     \* artifact_streams
  request    \* what each thread's request is doing

jenkins == <<queue, items, builds, cancelled>>
buildVars == <<jenkins, slots, request>>

Idle == [step |-> "idle"]
NoBuild == 0
Ids(q) == {item.id : item \in q}
Set(t, r) == request' = [request EXCEPT ![t] = r]

BuildInit ==
  /\ queue = {}
  /\ items = 0
  /\ builds = [j \in Jobs |-> 0]
  /\ cancelled = {}
  /\ slots = Streams
  /\ request = [t \in Handlers |-> Idle]

-------------------------------------------------------------------------------
(* ci.rerun *)

\* require_triggerable and _queue_ids, which may fail to read the queue.
LookQueue(t, job) ==
  /\ request[t] = Idle
  /\ job \in Triggerable
  /\ \E before \in {[read |-> TRUE, ids |-> Ids(queue)], [read |-> FALSE, ids |-> {}]} :
       Set(t, [step |-> "trigger", job |-> job, before |-> before])
  /\ UNCHANGED <<jenkins, slots>>

\* _already_queued
AlreadyQueued(id, before) ==
  IF ~before.read \/ id = 0 THEN "unknown" ELSE IF id \in before.ids THEN "yes" ELSE "no"

\* A job that is queued already keeps its item.
Queued(job) ==
  LET mine == {item \in queue : item.job = job}
  IN  IF mine # {} THEN CHOOSE item \in mine : TRUE ELSE [id |-> items + 1, job |-> job]

\* Faulty variant: the queue is read when the build has been asked for.
TriggerThenLook(t) ==
  LET r == request[t]
      item == Queued(r.job)
  IN  /\ r.step = "trigger"
      /\ item.id <= MaxItems
      /\ queue' = queue \cup {item}
      /\ items' = IF item \in queue THEN items ELSE items + 1
      /\ \/ \E id \in {item.id, 0} :
              Set(t, [step |-> "rerun", added |-> item \notin queue,
                      already |-> AlreadyQueued(id, [r.before EXCEPT !.ids = Ids(queue')])])
         \/ Set(t, Idle)
      /\ UNCHANGED <<builds, cancelled, slots>>

\* The POST: Jenkins queues the job; the answer may name the item (0: it does not), or
\* get lost.
Trigger(t) ==
  LET r == request[t]
      item == Queued(r.job)
  IN  /\ r.step = "trigger"
      /\ item.id <= MaxItems
      /\ queue' = queue \cup {item}
      /\ items' = IF item \in queue THEN items ELSE items + 1
      /\ \/ \E id \in {item.id, 0} :
              Set(t, [step |-> "rerun", added |-> item \notin queue,
                      already |-> AlreadyQueued(id, r.before)])
         \/ Set(t, Idle)
      /\ UNCHANGED <<builds, cancelled, slots>>

-------------------------------------------------------------------------------
(* ci.stop of a queue item *)

\* Faulty variant: an item that Jenkins knows is enough.
VerifyExists(t, job, id) ==
  /\ request[t] = Idle
  /\ job \in Triggerable
  /\ \E item \in queue : item.id = id
  /\ Set(t, [step |-> "cancel", id |-> id])
  /\ UNCHANGED <<jenkins, slots>>

\* _require_queue_item_belongs_to
Verify(t, job, id) ==
  /\ request[t] = Idle
  /\ job \in Triggerable
  /\ [id |-> id, job |-> job] \in queue
  /\ Set(t, [step |-> "cancel", id |-> id])
  /\ UNCHANGED <<jenkins, slots>>

\* By now the item may have left the queue, and nothing is cancelled.
Cancel(t) ==
  LET mine == {item \in queue : item.id = request[t].id}
  IN  /\ request[t].step = "cancel"
      /\ queue' = queue \ mine
      /\ cancelled' = cancelled \cup {item.job : item \in mine}
      /\ Set(t, Idle)
      /\ UNCHANGED <<items, builds, slots>>

-------------------------------------------------------------------------------
(* ci.log *)

\* _tail_bytes of lastBuild
ReadConsole(t, job) ==
  /\ request[t] = Idle
  /\ builds[job] > 0
  /\ Set(t, [step |-> "status", job |-> job, lines |-> builds[job]])
  /\ UNCHANGED <<jenkins, slots>>

\* Faulty variant: the build is the one it was before the console was read.
StatusFirst(t) ==
  LET r == request[t]
  IN  /\ r.step = "status"
      /\ Set(t, [step |-> "log", lines |-> builds[r.job], build |-> r.lines])
      /\ UNCHANGED <<jenkins, slots>>

\* _job_status, a request of its own; if the job is not there any more (404), the log
\* is shown all the same and names no build.
Status(t) ==
  LET r == request[t]
  IN  /\ r.step = "status"
      /\ \E build \in {builds[r.job], NoBuild} :
           Set(t, [step |-> "log", lines |-> r.lines, build |-> build])
      /\ UNCHANGED <<jenkins, slots>>

-------------------------------------------------------------------------------
(* GET /ci/artifact.  The upstream delimits the body by a length, by chunks of its  *)
(* own, or by closing the connection, and may send less of it than there is.  An     *)
(* audit line is written and then flushed (audit.py): when that raises, the line is  *)
(* lost, or stays in the buffer and appears with a later one.                        *)

\* `size` is the body's true size; `ended` (history) says that the client takes what it
\* got for the whole body; `lost`, that writing an audit line raised; `escaped`, that
\* something else did which nobody catches.
Stream == [framing |-> "close", size |-> 0, sent |-> 0, delivered |-> 0,
           ended |-> FALSE, lines |-> << >>, lost |-> FALSE, escaped |-> FALSE]

\* The length that the route declares to the client, or 0: it then sends chunks.
Declared(s) == IF s.framing = "length" THEN s.size ELSE 0

At(step, s) == [step |-> step, stream |-> s]

\* One line of audit; the request then goes on, or takes the way of an error.
Audit(t, outcome, next, errors) ==
  LET s == request[t].stream
      more == Append(s.lines, [outcome |-> outcome, sent |-> s.sent])
  IN  \/ Set(t, At(next, [s EXCEPT !.lines = more]))
      \/ \E error \in errors, lines \in {s.lines, more} :
           Set(t, At(error, [s EXCEPT !.lines = lines, !.lost = TRUE]))

\* Once the headers are on their way an OSError, the sink's too, counts as a connection
\* that dropped; anything else goes past it.
MidStream == {"dropped", "release"}

Acquire(t) ==
  /\ request[t] = Idle
  /\ IF slots > 0
     THEN slots' = slots - 1 /\ Set(t, At("open", Stream))
     ELSE UNCHANGED slots /\ Set(t, At("refused", Stream))
  /\ UNCHANGED jenkins

\* "artifact stream limit reached"
Refused(t) ==
  /\ request[t].step = "refused"
  /\ Audit(t, "rejected", "done", {"done"})
  /\ UNCHANGED <<jenkins, slots>>

\* Faulty variant: a refusal returns before the slot is given back.
NotFoundKeepsSlot(t) ==
  /\ request[t].step = "open"
  /\ Audit(t, "backend_error", "done", {"done"})
  /\ UNCHANGED <<jenkins, slots>>

\* locate_artifact refuses, or Jenkins does not answer one of the two requests; or one
\* of them raises something that is no CiBackendError (a build number that isdigit takes
\* and int does not, an answer that json cannot hold) and no line is written.
NotFound(t) ==
  /\ request[t].step = "open"
  /\ \/ Audit(t, "backend_error", "release", {"release"})
     \/ Set(t, At("release", [request[t].stream EXCEPT !.escaped = TRUE]))
  /\ UNCHANGED <<jenkins, slots>>

Framings == {"length", "chunked", "close"}

Open(t, framing, size) ==
  /\ request[t].step = "open"
  /\ Set(t, At("headers", [Stream EXCEPT !.framing = framing, !.size = size]))
  /\ UNCHANGED <<jenkins, slots>>

\* A coding that is not decoded here, or a declared length over the cap.
NotServed(t) ==
  /\ request[t].step = "headers"
  /\ \/ Audit(t, "backend_error", "release", {"release"})
     \/ Declared(request[t].stream) > Cap /\ Audit(t, "rejected", "release", {"release"})
  /\ UNCHANGED <<jenkins, slots>>

Headers(t) ==
  /\ request[t].step = "headers"
  /\ Declared(request[t].stream) <= Cap
  /\ \E step \in {"body", "dropped"} : Set(t, At(step, request[t].stream))
  /\ UNCHANGED <<jenkins, slots>>

\* Faulty variant: a chunk is counted when it is read.
ChunkCountedFirst(t) ==
  LET s == request[t].stream
      read == [s EXCEPT !.sent = @ + 1]
  IN  /\ request[t].step = "body"
      /\ s.sent < s.size
      /\ s.sent < Cap
      /\ \/ Set(t, At("body", [read EXCEPT !.delivered = @ + 1]))
         \/ Set(t, At("dropped", read))
      /\ UNCHANGED <<jenkins, slots>>

\* One chunk is read and written: it is delivered and counted, or the connection drops.
Chunk(t) ==
  LET s == request[t].stream
  IN  /\ request[t].step = "body"
      /\ s.sent < s.size
      /\ s.sent < Cap
      /\ \/ Set(t, At("body", [s EXCEPT !.sent = @ + 1, !.delivered = @ + 1]))
         \/ Set(t, At("dropped", s))
      /\ UNCHANGED <<jenkins, slots>>

\* The next chunk would pass the cap.
Truncate(t) ==
  LET s == request[t].stream
  IN  /\ request[t].step = "body"
      /\ s.sent < s.size
      /\ s.sent >= Cap
      /\ Audit(t, "truncated", "release", MidStream)
      /\ UNCHANGED <<jenkins, slots>>

\* Nothing more comes.  A body cut short is an error when it came in chunks; under a
\* length or a closed connection it may look like its end.  Without a declared length
\* the client gets a terminator, unless the connection drops over it.
Finish(t) ==
  LET s == request[t].stream
      short == s.sent < s.size
  IN  /\ request[t].step = "body"
      /\ \/ /\ short \/ Declared(s) = 0
            /\ Set(t, At("dropped", s))
         \/ /\ ~(short /\ s.framing = "chunked")
            /\ Set(t, At("account", [s EXCEPT !.ended = Declared(s) \in {0, s.delivered}]))
      /\ UNCHANGED <<jenkins, slots>>

\* Less than was declared is not a success.
Account(t) ==
  LET s == request[t].stream
  IN  /\ request[t].step = "account"
      /\ Audit(t, IF Declared(s) # 0 /\ s.sent # Declared(s) THEN "interrupted" ELSE "ok",
               "release", MidStream)
      /\ UNCHANGED <<jenkins, slots>>

Dropped(t) ==
  /\ request[t].step = "dropped"
  /\ Audit(t, "interrupted", "release", {"release"})
  /\ UNCHANGED <<jenkins, slots>>

\* finally
Release(t) ==
  /\ request[t].step = "release"
  /\ slots' = slots + 1
  /\ Set(t, At("done", request[t].stream))
  /\ UNCHANGED jenkins

-------------------------------------------------------------------------------
\* A request to Jenkins that does not get there, or whose answer is an error.
RequestFails(t) ==
  /\ request[t].step \in {"trigger", "cancel", "status"}
  /\ Set(t, Idle)
  /\ UNCHANGED <<jenkins, slots>>

\* The request is over.
Return(t) ==
  /\ request[t].step \in {"rerun", "log", "done"}
  /\ Set(t, Idle)
  /\ UNCHANGED <<jenkins, slots>>

\* Somebody else asks for a build.
OthersQueue(job) ==
  LET item == Queued(job)
  IN  /\ item.id <= MaxItems
      /\ item \notin queue
      /\ queue' = queue \cup {item}
      /\ items' = items + 1
      /\ UNCHANGED <<builds, cancelled, slots, request>>

\* An executor takes an item: a build begins.
Begin(item) ==
  /\ item \in queue
  /\ queue' = queue \ {item}
  /\ builds' = [builds EXCEPT ![item.job] = @ + 1]
  /\ UNCHANGED <<items, cancelled, slots, request>>

\* A download under way.
Streaming(t) ==
  request[t].step \in {"open", "headers", "body", "account", "dropped", "release"}

\* Everything but the beginning of a request and what others ask for.
BuildNext ==
  \/ \E t \in Handlers :
       \/ Trigger(t) \/ Cancel(t) \/ Status(t) \/ RequestFails(t) \/ Return(t)
       \/ Refused(t) \/ NotFound(t) \/ NotServed(t) \/ Headers(t) \/ Chunk(t)
       \/ Truncate(t) \/ Finish(t) \/ Account(t) \/ Dropped(t) \/ Release(t)
       \/ \E framing \in Framings, size \in 0 .. Cap + 1 : Open(t, framing, size)
  \/ \E item \in queue : Begin(item)

-------------------------------------------------------------------------------
AuditLines ==
  [outcome : {"ok", "rejected", "backend_error", "truncated", "interrupted"}, sent : 0 .. Cap + 1]

Downloads ==
  LET chunks == 0 .. Cap + 1
  IN  [framing : Framings, size : chunks, sent : chunks, delivered : chunks,
       ended : BOOLEAN, lines : Seq(AuditLines), lost : BOOLEAN, escaped : BOOLEAN]

Requests ==
  {Idle}
    \cup [step : {"trigger"}, job : Triggerable,
           before : [read : BOOLEAN, ids : SUBSET (1 .. MaxItems)]]
    \cup [step : {"rerun"}, added : BOOLEAN, already : {"yes", "no", "unknown"}]
    \cup [step : {"cancel"}, id : 1 .. MaxItems]
    \cup [step : {"status"}, job : Jobs, lines : Nat]
    \cup [step : {"log"}, lines : Nat, build : Nat]
    \cup [step : {"refused", "open", "headers", "body", "account", "dropped", "release", "done"},
           stream : Downloads]

BuildTypeOK ==
  /\ queue \subseteq [id : 1 .. MaxItems, job : Jobs]
  /\ items \in 0 .. MaxItems
  /\ builds \in [Jobs -> Nat]
  /\ cancelled \subseteq Jobs
  /\ slots \in 0 .. Streams
  /\ request \in [Handlers -> Requests]

\* A rerun that is told its build was queued already has added none, whatever others do
\* to the queue between the look at it and the request (docs/adapters/ci.md: "the only
\* certain answer").
AlreadyQueuedIsCertain ==
  \A t \in Handlers :
    request[t].step = "rerun" /\ request[t].already = "yes" => ~request[t].added

\* The gateway cancels no queued build of a job that the project may not start, though
\* queue ids are global and the item is looked at before it is cancelled.
OnlyOwnCancelled == cancelled \subseteq Triggerable

\* A console that ci.log shows is not of a later build than the one it names, if it
\* names one, though the two are read one after the other: the result of a build that is
\* over never comes with the lines of one that is under way.  (The other way round it
\* may.)
LogNamesNoOlderBuild ==
  \A t \in Handlers :
    request[t].step = "log" /\ request[t].build # NoBuild => request[t].lines <= request[t].build

\* The slots in use are those of the downloads under way, whichever of the ways out of
\* the route the earlier ones took, a failing audit sink included.
SlotsComeBack == slots + Cardinality({t \in Handlers : Streaming(t)}) = Streams

\* A download that is over has one line of audit, with the bytes that were delivered,
\* and says "ok" exactly when the client takes the body for whole -- which it then is,
\* unless only the end of the upstream's connection delimited it.  What makes a
\* difference is a sink that raised (the line is missing, or a second one calls
\* interrupted what went well), and an exception nobody foresaw (no line).
DownloadsAreAccounted ==
  \A t \in Handlers : request[t].step = "done" =>
    LET s == request[t].stream
        ok == \E i \in DOMAIN s.lines : s.lines[i].outcome = "ok"
    IN  /\ Len(s.lines) <= 1 \/ s.lost
        /\ s.lines = << >> => s.lost \/ s.escaped
        /\ \A i \in DOMAIN s.lines : s.lines[i].sent = s.delivered
        /\ ok => s.ended
        /\ s.ended => ok \/ s.lost
        /\ s.ended => s.delivered = s.size \/ s.framing = "close"
===============================================================================

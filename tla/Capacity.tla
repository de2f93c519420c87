------------------------------- MODULE Capacity -------------------------------
(***************************************************************************)
(* What callers may use up: calls in a minute, writes in a day, streams,   *)
(* and the build capacity behind ci.rerun.  Every CI tool takes a read of  *)
(* its caller's quota before it asks anything of Jenkins (tools/ci.py), as *)
(* the memory tools do (tools/memory.py); an artifact is streamed without. *)
(***************************************************************************)
EXTENDS Quotas, CiBuilds

CONSTANT MaxCalls   \* calls and downloads, and the builds that others queue

ASSUME CapacityAssumption == Handlers = Threads /\ MaxCalls \in Nat

VARIABLE calls

vars == <<quotaVars, buildVars, calls>>

Init == QuotaInit /\ BuildInit /\ calls = 0

Free(t) == call[t].step = "idle" /\ request[t] = Idle

\* A tool call asks for its quota: a read, or a write to memory.
Call(t, kind, user) ==
  /\ Free(t)
  /\ calls < MaxCalls
  /\ calls' = calls + 1
  /\ Ask(t, kind, user)
  /\ UNCHANGED buildVars

\* A download asks for a slot and for no quota.
Download(t) ==
  /\ Free(t)
  /\ calls < MaxCalls
  /\ calls' = calls + 1
  /\ Acquire(t)
  /\ UNCHANGED quotaVars

\* The memory backend is called; so are the reads that are of no further interest.
Memory(t) ==
  /\ \E kind \in Kinds : Proceed(t, kind)
  /\ UNCHANGED <<buildVars, calls>>

\* The CI tools.
CiTool(t) ==
  /\ Proceed(t, "read")
  /\ \E job \in Jobs :
       \/ LookQueue(t, job)
       \/ \E id \in 1 .. items : Verify(t, job, id)
       \/ ReadConsole(t, job)
  /\ UNCHANGED calls

\* Others use this Jenkins as well.
Others(job) ==
  /\ calls < MaxCalls
  /\ calls' = calls + 1
  /\ OthersQueue(job)
  /\ UNCHANGED quotaVars

Next ==
  \/ \E t \in Threads :
       \/ \E kind \in Kinds, user \in Users : Call(t, kind, user)
       \/ Decide(t) /\ UNCHANGED <<buildVars, calls>>
       \/ Download(t) \/ Memory(t) \/ CiTool(t)
  \/ Tick /\ UNCHANGED <<buildVars, calls>>
  \/ BuildNext /\ UNCHANGED <<quotaVars, calls>>
  \/ \E job \in Jobs : Others(job)

Spec == Init /\ [][Next]_vars

-------------------------------------------------------------------------------
TypeOK == QuotaTypeOK /\ BuildTypeOK /\ calls \in 0 .. MaxCalls
===============================================================================

------------------------------- MODULE WriteGate -------------------------------
(***************************************************************************)
(* A confirmable write from the request to the audit line: the server's    *)
(* threads run _handle_tool_call (mcp.py) over one ConfirmationStore, call *)
(* the backend and write the audit trail, while tokens gain and lose their *)
(* role and the process may die between any two steps.                     *)
(*                                                                         *)
(* Every tool here is a write of the issues, docs or ci family behind the  *)
(* gate: it differs from the others in its arguments and its backend only, *)
(* so a tool is a name in the request.                                     *)
(***************************************************************************)
EXTENDS ConfirmationStore

VARIABLES
  call,       \* what each server thread is doing
  writer,     \* the principals whose token carries the tool's write role now
  attempts,   \* history: the backend writes an id paid for
  trail,      \* history: the audit lines of the tool calls an id was spent on
  lost        \* history: the ids whose tool call ended in an exception nobody catches

outside == <<writer, attempts, trail, lost>>
gateVars == <<vars, call, outside>>

Idle == [step |-> "idle"]

\* How a call that got past the gate can end: the audit's `outcome`, "backend_error"
\* standing for "invalid" too.
Outcomes == {"ok", "backend_error"}

\* What a caller may present: nothing, or an id somebody has been told.
Presentable == 1 .. Len(entry) \cup {NoConfirm}

\* A call in progress; `role` is the one its own authentication saw.
Calls == [step : {"verify", "stamp", "issue", "write"},
          request : Requests, provided : Ids \cup {NoConfirm}, role : BOOLEAN]
           \cup [step : {"audit"}, outcome : {"refused", "confirm_required"}]
           \cup [step : {"audit"}, outcome : Outcomes, paid : Ids]

Goto(th, step) == call' = [call EXCEPT ![th].step = step]

GateInit ==
  /\ Init
  /\ call = [th \in Threads |-> Idle]
  /\ writer \in SUBSET Principals
  /\ attempts = [id \in Ids |-> << >>]
  /\ trail = [id \in Ids |-> << >>]
  /\ lost = {}

\* Policy.decide on the principal this request authenticated as, then the
\* handler's checks ahead of the gate.  "refused" stands for the denied, invalid and
\* backend_error lines of a call that the policy, a quota, its arguments or a backend
\* asked first (the job allow-list of ci.rerun, the staged body of docs.create) stops.
Begin(th, r, provided) ==
  LET role == r.principal \in writer
  IN  /\ call[th] = Idle
      /\ \/ /\ role
            /\ call' = [call EXCEPT ![th] =
                 [step |-> "verify", request |-> r, provided |-> provided, role |-> role]]
         \/ call' = [call EXCEPT ![th] = [step |-> "audit", outcome |-> "refused"]]
      /\ UNCHANGED <<vars, outside>>

\* confirmation_gate, first critical section.
GateVerify(th) ==
  /\ call[th].step = "verify"
  /\ Verify(call[th].request, call[th].provided)
  /\ Goto(th, IF Verdict(call[th].request, call[th].provided) = "ok" THEN "write" ELSE "stamp")
  /\ UNCHANGED outside

\* A confirmation that did not resolve is answered with a fresh id.
GateStamp(th) ==
  /\ call[th].step = "stamp"
  /\ ReadClock(th)
  /\ Goto(th, "issue")
  /\ UNCHANGED outside

GateIssue(th) ==
  /\ call[th].step = "issue"
  /\ Issue(th, call[th].request)
  /\ call' = [call EXCEPT ![th] = [step |-> "audit", outcome |-> "confirm_required"]]
  /\ UNCHANGED outside

\* The handler's tool call is over, with an id spent on it.
EndsAs(th, outcome) ==
  call' = [call EXCEPT ![th] =
    [step |-> "audit", outcome |-> outcome, paid |-> call[th].provided]]

\* Behind the gate the handler still looks things up before it writes: the claim of the
\* staged body, the queue item of ci.stop, the caller's credential, the issue and its
\* project.  When one of them refuses, the confirmation is spent and nothing is written.
Refuse(th, outcome) ==
  /\ call[th].step = "write"
  /\ EndsAs(th, outcome)
  /\ UNCHANGED <<vars, outside>>

\* Otherwise the backend is asked to write.  That ends with a result, a BackendError (the
\* write may have landed all the same when only the answer was lost) or a ValueError.
Write(th, outcome) ==
  /\ call[th].step = "write"
  /\ LET c == call[th]
     IN  attempts' = [attempts EXCEPT ![c.provided] =
           Append(@, [request |-> c.request, role |-> c.role, outcome |-> outcome])]
  /\ EndsAs(th, outcome)
  /\ UNCHANGED <<vars, writer, trail, lost>>

\* Faulty variant: only what succeeded is audited.
AuditSuccess(th) ==
  /\ call[th].step = "audit"
  /\ LET c == call[th]
     IN  trail' = IF c.outcome = "ok"
                  THEN [trail EXCEPT ![c.paid] = Append(@, c.outcome)]
                  ELSE trail
  /\ call' = [call EXCEPT ![th] = Idle]
  /\ UNCHANGED <<vars, writer, attempts, lost>>

\* The trail with the line of a tool call.
Recorded(c) ==
  IF "paid" \in DOMAIN c THEN [trail EXCEPT ![c.paid] = Append(@, c.outcome)] ELSE trail

\* _audit, after which the reply goes out.
Audit(th) ==
  /\ call[th].step = "audit"
  /\ trail' = Recorded(call[th])
  /\ call' = [call EXCEPT ![th] = Idle]
  /\ UNCHANGED <<vars, writer, attempts, lost>>

\* Writing the line fails, or the handler has raised something _handle_tool_call does
\* not catch: the connection is dropped.  No line is written, or it is the flush that
\* failed and the line comes out with a later one.
Escape(th) ==
  /\ call[th].step = "audit"
  /\ LET c == call[th]
     IN  /\ lost' = IF "paid" \in DOMAIN c THEN lost \cup {c.paid} ELSE lost
         /\ trail' \in {trail, Recorded(c)}
  /\ call' = [call EXCEPT ![th] = Idle]
  /\ UNCHANGED <<vars, writer, attempts>>

\* An operator edits the token file.
ChangeRole(p) ==
  /\ writer' = IF p \in writer THEN writer \ {p} ELSE writer \cup {p}
  /\ UNCHANGED <<vars, call, attempts, trail, lost>>

\* The process dies and comes back: threads and pending ids are gone, what the
\* backend did and what was flushed to the audit stream stay.
GateRestart ==
  /\ Restart
  /\ call' = [th \in Threads |-> Idle]
  /\ UNCHANGED outside

GateClock(t) == SetClock(t) /\ UNCHANGED <<call, outside>>

GateNext ==
  \/ \E th \in Threads, r \in Requests, provided \in Presentable :
       Begin(th, r, provided)
  \/ \E th \in Threads :
       \/ GateVerify(th)
       \/ GateStamp(th)
       \/ GateIssue(th)
       \/ \E outcome \in Outcomes \ {"ok"} : Refuse(th, outcome)
       \/ \E outcome \in Outcomes : Write(th, outcome)
       \/ Audit(th)
       \/ Escape(th)
  \/ \E p \in Principals : ChangeRole(p)
  \/ GateRestart
  \/ \E t \in 0 .. MaxClock : GateClock(t)

GateSpec == GateInit /\ [][GateNext]_gateVars

-------------------------------------------------------------------------------
GateTypeOK ==
  /\ TypeOK
  /\ call \in [Threads -> Calls \cup {Idle}]
  /\ writer \subseteq Principals
  /\ attempts \in [Ids -> Seq([request : Requests, role : BOOLEAN, outcome : Outcomes])]
  /\ trail \in [Ids -> Seq(Outcomes)]
  /\ lost \subseteq Ids

\* One id pays for one backend call at most, whatever the number of threads that
\* present it at once and however often the client retries after an error; the
\* call is the one the id was prepared for, and the principal that made it still
\* had the role when it confirmed -- having had it when it prepared is not enough.
OneWritePerConfirmation ==
  \A id \in Ids : attempts[id] # << >> =>
    /\ Len(attempts[id]) = 1
    /\ attempts[id][1].request = entry[id].request
    /\ attempts[id][1].role

\* What a line with that outcome says is what became of the id: of its one write how it
\* ended, of a tool call that wrote nothing never that it went well.
Tells(id, outcome) ==
  \/ attempts[id] = << >> /\ outcome # "ok"
  \/ [i \in DOMAIN attempts[id] |-> attempts[id][i].outcome] = <<outcome>>

\* The thread has yet to write, or to come to the audit line, for the id it spent.
OnTheWay(th, id) ==
  \/ call[th].step = "write" /\ call[th].provided = id /\ attempts[id] = << >>
  \/ "paid" \in DOMAIN call[th] /\ call[th].paid = id /\ Tells(id, call[th].outcome)

\* A confirmation that was spent is accounted for, whatever became of it: the trail has
\* one line for it, which says of a write what came of it and of a refusal behind the
\* gate never that it went well; or the tool call is still on its way there; or it was
\* lost to an exception or to the end of the process (SECURITY.md, "A committed write is
\* not a transactional one").  What was not granted writes nothing and has no such line.
AuditAccountsForWrites ==
  \A id \in Ids :
    \/ granted[id] = << >> /\ attempts[id] = << >> /\ trail[id] = << >>
    \/ /\ granted[id] # << >>
       /\ \/ \E outcome \in Outcomes : trail[id] = <<outcome>> /\ Tells(id, outcome)
          \/ /\ trail[id] = << >>
             /\ (\E th \in Threads : OnTheWay(th, id)) \/ id \in lost \/ id <= boot
===============================================================================

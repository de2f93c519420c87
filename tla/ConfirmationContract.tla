------------------------- MODULE ConfirmationContract -------------------------
(***************************************************************************)
(* What `ConfirmationBackend` (confirm.py) promises the gate of mcp.py,    *)
(* said without caps, clocks or bookkeeping: an id is prepared for one     *)
(* request, is live for a while, may be granted once while it is live and  *)
(* only to the request it was prepared for, and is otherwise forgotten.    *)
(***************************************************************************)
EXTENDS Naturals, Sequences

CONSTANTS
  Requests,   \* principal, tool and arguments of one action
  Ids         \* the ids a caller can present, issued or not

VARIABLES
  bound,      \* bound[id] is the request id was prepared for, oldest id first
  live,       \* the ids that can still be granted
  granted     \* granted[id] lists the requests id was granted to

cvars == <<bound, live, granted>>

\* What a backend that keeps the contract may hold at most: one grant for an
\* id, to the request it was prepared for.
KeepsThePromise ==
  \A id \in Ids : \/ granted[id] = << >>
                  \/ /\ id \in DOMAIN bound \ live
                     /\ granted[id] = <<bound[id]>>

ContractInit ==
  /\ bound = << >>
  /\ live = {}
  /\ granted = [id \in Ids |-> << >>]

\* A new id is live; room for it may cost ids that were live.
Prepare(r) ==
  /\ bound' = Append(bound, r)
  /\ \E gone \in SUBSET live : live' = (live \ gone) \cup {Len(bound')}
  /\ UNCHANGED granted

Grant(id, r) ==
  /\ id \in live
  /\ bound[id] = r
  /\ granted' = [granted EXCEPT ![id] = Append(@, r)]
  /\ live' = live \ {id}
  /\ UNCHANGED bound

Forget(gone) ==
  /\ live' = live \ gone
  /\ UNCHANGED <<bound, granted>>

ContractNext ==
  \/ \E r \in Requests : Prepare(r)
  \/ \E id \in Ids, r \in Requests : Grant(id, r)
  \/ \E gone \in SUBSET live : Forget(gone)

ContractSpec == ContractInit /\ [][ContractNext]_cvars
===============================================================================

------------------------------- MODULE AssetStage -------------------------------
(***************************************************************************)
(* Staged document bodies: AssetStage (docs_assets.py) and the two tools   *)
(* that use it, docs.create and docs.update (tools/docs.py).  A client     *)
(* mints an upload URL, uploads a body once, names the stage in a tool     *)
(* call and confirms; the call claims the stage across the write to the    *)
(* review host.                                                            *)
(*                                                                         *)
(* Stages are numbered in the order they are minted and an upload token is *)
(* named by its stage.  A body is named by its length: 0 is no body.  The  *)
(* gate between peek and claim (mcp.py, module WriteGate) is left open     *)
(* here: any call may be confirmed, or be answered with a confirm id.      *)
(***************************************************************************)
EXTENDS Naturals, FiniteSets, Functions, Sequences

CONSTANTS
  Principals,       \* records [actor, seat]; a seat is a project and a token id
  Threads,          \* server threads that run docs.create / docs.update
  UrlTtl, StageTtl, MaxAssetBytes,
  MaxStaged, MaxStagedBytes,   \* per actor
  NotText,          \* an upload that is not UTF-8
  MaxIds,           \* bound: stages ever minted
  MaxClock,         \* bound: the monotonic clock
  MaxProposals      \* bound: writes to the host for one stage

ASSUME LimitsAssumption ==
  /\ {UrlTtl, StageTtl, MaxStagedBytes} \subseteq Nat
  /\ {MaxAssetBytes, MaxStaged} \subseteq Nat \ {0}
ASSUME BoundsAssumption == {MaxIds, MaxClock, MaxProposals} \subseteq Nat
ASSUME NotTextAssumption == NotText \notin Nat

Ids == 1 .. MaxIds
Bodies == 0 .. MaxAssetBytes

\* What a client may upload, the refused bodies included.
Uploads == 0 .. MaxAssetBytes + 1 \cup {NotText}

Outcomes == {"ok", "failed"}

VARIABLES
  staged,      \* self._staged
  uploads,     \* the stages self._uploads has a token for
  clock,       \* time.monotonic()
  minted,      \* stages minted so far
  call,        \* where each docs.create / docs.update is
  proposals    \* history: how the host writes of each stage ended, in order

stageVars == <<staged, uploads, minted>>
vars == <<stageVars, clock, call, proposals>>

Idle == [step |-> "idle"]

Init ==
  /\ staged = << >>
  /\ uploads = {}
  /\ clock = 0
  /\ minted = 0
  /\ call = [th \in Threads |-> Idle]
  /\ proposals = [id \in Ids |-> << >>]

-------------------------------------------------------------------------------
\* Faulty variant: a stage that is late goes, claimed or not.
LiveByExpiry == {id \in DOMAIN staged : staged[id].expiry > clock}

\* _gc_locked, which every operation runs first: a stage that is claimed stays
\* however late it is.
Live == {id \in DOMAIN staged : staged[id].expiry > clock \/ staged[id].busy}

Swept == Restrict(staged, Live)

\* Faulty variant: a URL that waits for its body does not count.
MineWithBody(actor) == {id \in Live : staged[id].owner.actor = actor /\ staged[id].body # 0}

Mine(actor) == {id \in Live : staged[id].owner.actor = actor}

\* _owned_locked
Owned(id, p) == id \in Live /\ staged[id].owner = p

\* The bytes of some stages, one by one: to add lengths up is to count them.
Bytes(ids) == {b \in ids \X (1 .. MaxAssetBytes) : b[2] <= staged[b[1]].body}

\* How many bytes an actor's other stages hold.
Used(id, actor) == Cardinality(Bytes(Mine(actor) \ {id}))

\* accept_upload's checks, in its order; they only differ in the message.
Acceptable(id, data, actor) ==
  /\ data \in 1 .. MaxAssetBytes
  /\ Used(id, actor) + data <= MaxStagedBytes

Without(id) == Restrict(staged, Live \ {id})

Added(f, id, stage) == [i \in DOMAIN f \cup {id} |-> IF i = id THEN stage ELSE f[i]]

Goto(th, next) == call' = [call EXCEPT ![th] = next]

-------------------------------------------------------------------------------
\* mint_upload_url: a pending URL counts towards the quota.
Mint(p) ==
  /\ minted < MaxIds
  /\ IF Cardinality(Mine(p.actor)) >= MaxStaged
     THEN /\ staged' = Swept
          /\ uploads' = uploads \cap Live
          /\ UNCHANGED minted
     ELSE /\ minted' = minted + 1
          /\ staged' = Added(Swept, minted',
               [owner |-> p, expiry |-> clock + UrlTtl, body |-> 0, busy |-> FALSE])
          /\ uploads' = (uploads \cap Live) \cup {minted'}
  /\ UNCHANGED <<clock, call, proposals>>

\* Faulty variant: an upload that was accepted does not spend the URL.
UploadAgain(p, id, data) ==
  /\ id \in uploads /\ Owned(id, p)
  /\ Acceptable(id, data, p.actor)
  /\ uploads' = uploads \cap Live
  /\ staged' = Added(Swept, id, [staged[id] EXCEPT !.body = data, !.expiry = clock + StageTtl])
  /\ UNCHANGED <<clock, minted, call, proposals>>

\* accept_upload by the owner: the URL is spent, and the stage with it unless
\* the body is acceptable.
Upload(p, id, data) ==
  /\ id \in uploads /\ Owned(id, p)
  /\ uploads' = (uploads \cap Live) \ {id}
  /\ staged' = IF Acceptable(id, data, p.actor)
               THEN Added(Swept, id, [staged[id] EXCEPT !.body = data,
                                                        !.expiry = clock + StageTtl])
               ELSE Without(id)
  /\ UNCHANGED <<clock, minted, call, proposals>>

\* accept_upload with a spent or expired URL, or with somebody else's.
UploadRefused(p, id) ==
  /\ ~(id \in uploads /\ Owned(id, p))
  /\ staged' = Swept
  /\ uploads' = uploads \cap Live
  /\ UNCHANGED <<clock, minted, call, proposals>>

\* A tool call names a stage: peek() hands out its body, which is scanned for
\* secrets and shown in the preview.  A stage somebody has claimed can be read.
Peek(th, p, id) ==
  /\ call[th] = Idle
  /\ staged' = Swept
  /\ uploads' = uploads \cap Live
  /\ Goto(th, IF Owned(id, p) /\ staged[id].body # 0
              THEN [step |-> "gate", who |-> p, id |-> id, body |-> staged[id].body]
              ELSE Idle)
  /\ UNCHANGED <<clock, minted, proposals>>

\* The gate answers with an id to confirm, or the scan refuses the body.
AnswerPending(th) ==
  /\ call[th].step = "gate"
  /\ Goto(th, Idle)
  /\ UNCHANGED <<stageVars, clock, proposals>>

\* claim() on entry, in a call the gate lets through.
Claim(th) ==
  /\ call[th].step = "gate"
  /\ LET c == call[th]
         available == Owned(c.id, c.who) /\ staged[c.id].body # 0 /\ ~staged[c.id].busy
     IN  /\ staged' = IF available THEN [Swept EXCEPT ![c.id].busy = TRUE] ELSE Swept
         /\ Goto(th, IF available
                     THEN [step |-> "propose", who |-> c.who, id |-> c.id,
                           body |-> staged[c.id].body, scanned |-> c.body]
                     ELSE Idle)
  /\ uploads' = uploads \cap Live
  /\ UNCHANGED <<clock, minted, proposals>>

\* The write to the review host, outside the lock.  One that failed for the
\* gateway may have landed all the same.
Propose(th, outcome) ==
  /\ call[th].step = "propose"
  /\ LET c == call[th]
     IN  /\ Len(proposals[c.id]) < MaxProposals
         /\ proposals' = [proposals EXCEPT ![c.id] = Append(@, outcome)]
         /\ Goto(th, [step |-> "leave", id |-> c.id, outcome |-> outcome])
  /\ UNCHANGED <<stageVars, clock>>

\* Faulty variant: success releases the stage instead of consuming it.
LeaveReleased(th) ==
  /\ call[th].step = "leave"
  /\ staged' = [staged EXCEPT ![call[th].id].busy = FALSE]
  /\ Goto(th, Idle)
  /\ UNCHANGED <<uploads, minted, clock, proposals>>

\* claim() on exit: success consumes the stage, an exception releases it.
Leave(th) ==
  /\ call[th].step = "leave"
  /\ LET c == call[th]
     IN  staged' = IF c.outcome = "ok"
                   THEN Restrict(staged, DOMAIN staged \ {c.id})
                   ELSE [staged EXCEPT ![c.id].busy = FALSE]
  /\ Goto(th, Idle)
  /\ UNCHANGED <<uploads, minted, clock, proposals>>

Tick ==
  /\ clock < MaxClock
  /\ clock' = clock + 1
  /\ UNCHANGED <<stageVars, call, proposals>>

\* The process restarts: the stages and the calls are gone.
Restart ==
  /\ staged' = << >>
  /\ uploads' = {}
  /\ call' = [th \in Threads |-> Idle]
  /\ UNCHANGED <<minted, clock, proposals>>

Next ==
  \/ \E p \in Principals : Mint(p)
  \/ \E p \in Principals, id \in 1 .. minted, data \in Uploads : Upload(p, id, data)
  \/ \E p \in Principals, id \in 1 .. minted : UploadRefused(p, id)
  \/ \E th \in Threads :
       \/ \E p \in Principals, id \in 1 .. minted : Peek(th, p, id)
       \/ AnswerPending(th)
       \/ Claim(th)
       \/ \E outcome \in Outcomes : Propose(th, outcome)
       \/ Leave(th)
  \/ Tick
  \/ Restart

Spec == Init /\ [][Next]_vars

-------------------------------------------------------------------------------
(***************************************************************************)
(* Properties.                                                             *)
(***************************************************************************)
Stages == [owner : Principals, expiry : Nat, body : Bodies, busy : BOOLEAN]

Calls == [step : {"gate"}, who : Principals, id : Ids, body : Bodies]
          \cup [step : {"propose"}, who : Principals, id : Ids, body : Bodies, scanned : Bodies]
          \cup [step : {"leave"}, id : Ids, outcome : Outcomes]

TypeOK ==
  /\ minted \in 0 .. MaxIds
  /\ DOMAIN staged \subseteq 1 .. minted
  /\ staged \in [DOMAIN staged -> Stages]
  /\ uploads \subseteq 1 .. minted
  /\ clock \in Nat
  /\ call \in [Threads -> Calls \cup {Idle}]
  /\ proposals \in [Ids -> Seq(Outcomes)]

\* The stages in `ids` that belong to an actor.
OfActor(actor) == {id \in DOMAIN staged : staged[id].owner.actor = actor}

\* Neither URLs nor bodies of an actor grow past its quota, through any number of
\* its tokens and projects.
StageQuota == \A p \in Principals : Cardinality(OfActor(p.actor)) <= MaxStaged

ByteQuota == \A p \in Principals : Cardinality(Bytes(OfActor(p.actor))) <= MaxStagedBytes

Quotas == StageQuota /\ ByteQuota

\* The two dictionaries agree: a stage waits for a body exactly as long as there
\* is a URL to send it to, so no URL reaches a stage that has its body and no
\* token outlives its stage.
UrlsAwaitBodies == uploads = {id \in DOMAIN staged : staged[id].body = 0}

\* A claimed stage is there, and claimed by exactly one call, until that call is
\* done with the host -- however long the host takes -- and no stage stays claimed
\* by nobody.
Claimants(id) == {th \in Threads : call[th].step \in {"propose", "leave"} /\ call[th].id = id}

ClaimsAreExclusive ==
  \A id \in 1 .. minted :
    Cardinality(Claimants(id)) = IF id \in DOMAIN staged /\ staged[id].busy THEN 1 ELSE 0

\* "A stage is immutable: its id binds the body": what is written to the host is
\* the body that was scanned and previewed, and it is the caller's own.
ProposedAsScanned ==
  \A th \in Threads : call[th].step = "propose" =>
    LET c == call[th]
    IN  c.body = c.scanned /\ staged[c.id].body = c.body /\ staged[c.id].owner = c.who

\* One body makes one successful proposal: the host is asked again only after a
\* failure.
OneSuccess ==
  \A id \in Ids : \A i \in DOMAIN proposals[id] :
    proposals[id][i] = "ok" => i = Len(proposals[id])
===============================================================================

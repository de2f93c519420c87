---------------------------- MODULE AssetStageProofs ----------------------------
(***************************************************************************)
(* Proofs about AssetStage, for any principals, threads, limits and bounds. *)
(***************************************************************************)
EXTENDS AssetStage, FiniteSetTheorems, TLAPS

Claiming(th, id) == call[th].step \in {"propose", "leave"} /\ call[th].id = id

\* The busy flag is one call's, and the call's stage is there.
ClaimInv ==
  /\ \A th \in Threads, id \in Ids :
       Claiming(th, id) => id \in DOMAIN staged /\ staged[id].busy
  /\ \A id \in DOMAIN staged : staged[id].busy => \E th \in Threads : Claiming(th, id)
  /\ \A id \in Ids : \A t1, t2 \in Threads :
       Claiming(t1, id) /\ Claiming(t2, id) => t1 = t2

\* What a call remembers of its stage is still so, if the stage is there.
BodyInv ==
  \A th \in Threads :
    /\ call[th].step = "gate" =>
         /\ call[th].id \in 1 .. minted
         /\ call[th].body # 0
         /\ call[th].id \in DOMAIN staged =>
              staged[call[th].id].body = call[th].body /\ staged[call[th].id].owner = call[th].who
    /\ call[th].step = "propose" =>
         /\ call[th].body = call[th].scanned
         /\ call[th].body # 0
         /\ staged[call[th].id].body = call[th].body
         /\ staged[call[th].id].owner = call[th].who
    /\ call[th].step = "leave" => staged[call[th].id].body # 0

\* A stage whose body was proposed is gone, or its call is about to remove it.
SpentInv ==
  \A id \in Ids :
    /\ proposals[id] # << >> => id <= minted
    /\ \A i \in DOMAIN proposals[id] :
         proposals[id][i] = "ok" =>
           /\ i = Len(proposals[id])
           /\ \/ id \notin DOMAIN staged
              \/ \E th \in Threads : /\ call[th].step = "leave"
                                      /\ call[th].id = id
                                      /\ call[th].outcome = "ok"

AInv == TypeOK /\ UrlsAwaitBodies /\ ClaimInv /\ BodyInv /\ SpentInv

LEMMA InitAInv == Init => AInv
<1> SUFFICES ASSUME Init PROVE AInv
  OBVIOUS
<1>1. /\ staged = << >> /\ DOMAIN staged = {} /\ uploads = {} /\ clock = 0 /\ minted = 0
      /\ call = [th \in Threads |-> Idle]
      /\ proposals = [id \in Ids |-> << >>]
  BY DEF Init
<1>2. TypeOK
  <2>1. staged \in [DOMAIN staged -> Stages]
    BY <1>1
  <2>2. << >> \in Seq(Outcomes)
    OBVIOUS
  <2> QED
    BY <1>1, <2>1, <2>2, BoundsAssumption DEF TypeOK
<1>3. UrlsAwaitBodies /\ ClaimInv /\ BodyInv /\ SpentInv
  BY <1>1 DEF UrlsAwaitBodies, ClaimInv, BodyInv, SpentInv, Claiming, Idle
<1> QED
  BY <1>2, <1>3 DEF AInv

\* The sweep removes stages that nobody has claimed and changes none.
LEMMA SweepFacts ==
  ASSUME TypeOK
  PROVE  /\ Live \subseteq DOMAIN staged
         /\ \A id \in DOMAIN staged : staged[id].busy => id \in Live
         /\ DOMAIN Swept = Live
         /\ Swept \in [Live -> Stages]
         /\ \A id \in Live : Swept[id] = staged[id]
         /\ \A id \in DOMAIN staged :
              /\ id \in Ids /\ id \in Nat /\ id <= minted
              /\ staged[id] \in Stages
  BY BoundsAssumption DEF TypeOK, Live, Swept, Restrict, Ids

\* What a call knows of the stage it has claimed.
LEMMA ClaimedStage ==
  ASSUME TypeOK, ClaimInv, NEW th \in Threads, call[th].step \in {"propose", "leave"}
  PROVE  /\ call[th].id \in Ids
         /\ call[th].id \in Live
         /\ call[th].id \in DOMAIN staged
         /\ staged[call[th].id].busy
<1>1. call[th] \in Calls \cup {Idle}
  BY DEF TypeOK
<1>2. call[th].id \in Ids
  BY <1>1 DEF Calls, Idle
<1>3. call[th].id \in DOMAIN staged /\ staged[call[th].id].busy
  BY <1>2 DEF ClaimInv, Claiming
<1> QED
  BY <1>2, <1>3, SweepFacts

\* An operation that is no step of a call keeps what calls rely on: it leaves a
\* claimed stage as it is, and any other as it is, or filled for the first time, or
\* it mints a new one.
LEMMA CallsUndisturbed ==
  ASSUME AInv, TypeOK', minted' >= minted, UNCHANGED <<call, proposals>>,
         \A id \in DOMAIN staged : staged[id].busy => id \in DOMAIN staged',
         \A id \in DOMAIN staged' :
           \/ id \in DOMAIN staged /\ staged'[id] = staged[id]
           \/ id \in DOMAIN staged /\ staged[id].body = 0 /\ ~staged[id].busy /\ ~staged'[id].busy
           \/ id > minted /\ ~staged'[id].busy
  PROVE  ClaimInv' /\ BodyInv' /\ SpentInv'
<1>0. \A id \in DOMAIN staged : id <= minted /\ id \in Ids /\ ~(id > minted)
  BY SweepFacts, BoundsAssumption DEF AInv, TypeOK, Ids
<1>1. \A id \in DOMAIN staged : staged[id].busy => staged'[id] = staged[id]
  BY <1>0
<1>2. ClaimInv'
  BY <1>0, <1>1 DEF AInv, ClaimInv, Claiming, TypeOK
<1>3. BodyInv'
  <2> SUFFICES ASSUME NEW th \in Threads
               PROVE  /\ call[th].step = "gate" =>
                           /\ call[th].id \in 1 .. minted'
                           /\ call[th].body # 0
                           /\ call[th].id \in DOMAIN staged' =>
                                /\ staged'[call[th].id].body = call[th].body
                                /\ staged'[call[th].id].owner = call[th].who
                      /\ call[th].step = "propose" =>
                           /\ call[th].body = call[th].scanned
                           /\ call[th].body # 0
                           /\ staged'[call[th].id].body = call[th].body
                           /\ staged'[call[th].id].owner = call[th].who
                      /\ call[th].step = "leave" => staged'[call[th].id].body # 0
    BY DEF BodyInv
  <2>1. CASE call[th].step = "gate"
    <3>1. call[th].id \in 1 .. minted /\ call[th].body # 0
      BY <2>1 DEF AInv, BodyInv
    <3>2. minted \in Nat /\ minted' \in Nat
      BY DEF AInv, TypeOK
    <3>3. call[th].id \in DOMAIN staged' => /\ call[th].id \in DOMAIN staged
                                            /\ staged'[call[th].id] = staged[call[th].id]
      BY <2>1, <3>1, <3>2 DEF AInv, BodyInv
    <3> QED
      BY <2>1, <3>1, <3>2, <3>3 DEF AInv, BodyInv
  <2>2. CASE call[th].step \in {"propose", "leave"}
    <3>1. call[th].id \in Ids
      BY <2>2 DEF AInv, TypeOK, Calls, Idle
    <3>2. call[th].id \in DOMAIN staged /\ staged'[call[th].id] = staged[call[th].id]
      BY <1>1, <2>2, <3>1 DEF AInv, ClaimInv, Claiming
    <3> QED
      BY <2>2, <3>2 DEF AInv, BodyInv
  <2> QED
    BY <2>1, <2>2
<1>4. SpentInv'
  <2>1. minted \in Nat /\ minted' \in Nat
    BY DEF AInv, TypeOK
  <2>2. \A id \in Ids : proposals[id] # << >> => id <= minted /\ id <= minted'
    BY <2>1, BoundsAssumption DEF AInv, SpentInv, Ids
  <2> SUFFICES ASSUME NEW id \in Ids, NEW i \in DOMAIN proposals[id], proposals[id][i] = "ok"
               PROVE  /\ i = Len(proposals[id])
                      /\ \/ id \notin DOMAIN staged'
                         \/ \E th \in Threads : /\ call[th].step = "leave" /\ call[th].id = id
                                                /\ call[th].outcome = "ok"
    BY <2>2 DEF SpentInv
  <2>3. proposals[id] # << >>
    OBVIOUS
  <2>4. id \in DOMAIN staged' => id \in DOMAIN staged
    BY <2>1, <2>2, <2>3, BoundsAssumption DEF Ids
  <2> QED
    BY <2>4 DEF AInv, SpentInv
<1> QED
  BY <1>2, <1>3, <1>4

\* Each operation of the stage and each step of a call keeps the invariant.
LEMMA MintKeeps ==
  ASSUME AInv, NEW p \in Principals, Mint(p)
  PROVE  AInv'
<1> USE SweepFacts, BoundsAssumption, LimitsAssumption DEF AInv
<1> DEFINE new == minted + 1
           stage == [owner |-> p, expiry |-> clock + UrlTtl, body |-> 0, busy |-> FALSE]
<1>1. CASE Cardinality(Mine(p.actor)) >= MaxStaged
  <2>1. staged' = Swept /\ uploads' = uploads \cap Live /\ minted' = minted /\ UNCHANGED <<clock, call, proposals>>
    BY <1>1 DEF Mint
  <2>2. TypeOK'
    BY <2>1 DEF TypeOK
  <2>3. UrlsAwaitBodies'
    BY <2>1 DEF UrlsAwaitBodies
  <2>4. minted' >= minted
    BY <2>1 DEF TypeOK
  <2> QED
    BY <2>1, <2>2, <2>3, <2>4, CallsUndisturbed
<1>2. CASE ~(Cardinality(Mine(p.actor)) >= MaxStaged)
  <2>1. /\ minted < MaxIds /\ minted' = new /\ staged' = Added(Swept, new, stage)
        /\ uploads' = (uploads \cap Live) \cup {new} /\ UNCHANGED <<clock, call, proposals>>
    BY <1>2 DEF Mint
  <2>2. minted \in Nat /\ new \in 1 .. MaxIds /\ new \notin Live /\ new > minted /\ stage \in Stages
    <3>1. minted \in Nat /\ clock \in Nat /\ new \in 1 .. MaxIds /\ new > minted
      BY <2>1 DEF TypeOK
    <3>2. new \notin Live
      BY <3>1
    <3>3. stage \in Stages
      BY <3>1 DEF Stages, Bodies
    <3> QED
      BY <3>1, <3>2, <3>3
  <2>3. /\ DOMAIN staged' = Live \cup {new} /\ staged' \in [Live \cup {new} -> Stages]
        /\ staged'[new] = stage
        /\ \A i \in Live : staged'[i] = staged[i]
    <3> HIDE DEF stage, new
    <3>1. Swept \in [Live -> Stages] /\ \A i \in Live : i # new /\ Swept[i] = staged[i]
      BY <2>2
    <3> QED
      BY <2>1, <2>2, <3>1 DEF Added
  <2>4. stage.body = 0 /\ ~stage.busy
    OBVIOUS
  <2> HIDE DEF stage
  <2>5. TypeOK'
    <3>1. DOMAIN staged' \subseteq 1 .. minted' /\ uploads' \subseteq 1 .. minted' /\ minted' \in 0 .. MaxIds
      BY <2>1, <2>2, <2>3 DEF TypeOK
    <3>2. staged' \in [DOMAIN staged' -> Stages]
      BY <2>3
    <3> QED
      BY <2>1, <3>1, <3>2 DEF TypeOK
  <2>6. UrlsAwaitBodies'
    <3>1. \A i \in Live : (i \in uploads <=> staged'[i].body = 0)
      BY <2>3 DEF UrlsAwaitBodies
    <3>2. uploads' \subseteq DOMAIN staged'
      BY <2>1, <2>3
    <3> QED
      BY <2>1, <2>2, <2>3, <2>4, <3>1, <3>2 DEF UrlsAwaitBodies
  <2>7. minted' >= minted
    BY <2>1, <2>2
  <2> HIDE DEF new
  <2> QED
    BY <2>1, <2>2, <2>3, <2>4, <2>5, <2>6, <2>7, CallsUndisturbed
<1> QED
  BY <1>1, <1>2

LEMMA UploadKeeps ==
  ASSUME AInv, NEW p \in Principals, NEW id \in 1 .. minted, NEW data \in Uploads, Upload(p, id, data)
  PROVE  AInv'
<1> USE SweepFacts, BoundsAssumption, LimitsAssumption DEF AInv
<1>1. /\ id \in uploads /\ id \in Live /\ id \in DOMAIN staged /\ staged[id].body = 0
      /\ uploads' = (uploads \cap Live) \ {id}
      /\ UNCHANGED <<clock, minted, call, proposals>>
  BY DEF Upload, Owned, UrlsAwaitBodies
<1>2. ~staged[id].busy
  BY <1>1 DEF ClaimInv, BodyInv, Claiming
<1>3. minted' >= minted
  BY <1>1 DEF TypeOK
<1>4. CASE Acceptable(id, data, p.actor)
  <2> DEFINE stage == [staged[id] EXCEPT !.body = data, !.expiry = clock + StageTtl]
  <2>1. staged' = Added(Swept, id, stage) /\ data \in 1 .. MaxAssetBytes
    BY <1>4 DEF Upload, Acceptable
  <2>2. stage \in Stages /\ stage.body # 0 /\ stage.busy = staged[id].busy
    <3>1. staged[id] \in Stages
      BY <1>1
    <3>2. clock + StageTtl \in Nat
      BY DEF TypeOK
    <3>3. data \in Bodies /\ data # 0
      BY <2>1 DEF Bodies
    <3> QED
      BY <3>1, <3>2, <3>3 DEF Stages
  <2>3. /\ DOMAIN staged' = Live /\ staged' \in [Live -> Stages]
        /\ staged'[id] = stage
        /\ \A i \in Live : i # id => staged'[i] = staged[i]
    <3> HIDE DEF stage
    <3>1. Live \cup {id} = Live
      BY <1>1
    <3>2. Swept \in [Live -> Stages] /\ \A i \in Live : Swept[i] = staged[i]
      OBVIOUS
    <3> QED
      BY <2>1, <2>2, <3>1, <3>2 DEF Added
  <2> HIDE DEF stage
  <2>4. TypeOK'
    BY <1>1, <2>3 DEF TypeOK
  <2>5. UrlsAwaitBodies'
    BY <1>1, <2>2, <2>3 DEF UrlsAwaitBodies
  <2> QED
    BY <1>1, <1>2, <1>3, <2>2, <2>3, <2>4, <2>5, CallsUndisturbed
<1>5. CASE ~Acceptable(id, data, p.actor)
  <2>1. staged' = Restrict(staged, Live \ {id})
    BY <1>5 DEF Upload, Without
  <2>2. /\ DOMAIN staged' = Live \ {id} /\ staged' \in [Live \ {id} -> Stages]
        /\ \A i \in Live \ {id} : staged'[i] = staged[i]
    BY <2>1 DEF Restrict
  <2>3. TypeOK'
    BY <1>1, <2>2 DEF TypeOK
  <2>4. UrlsAwaitBodies'
    BY <1>1, <2>2 DEF UrlsAwaitBodies
  <2> QED
    BY <1>1, <1>2, <1>3, <2>2, <2>3, <2>4, CallsUndisturbed
<1> QED
  BY <1>4, <1>5

LEMMA UploadRefusedKeeps ==
  ASSUME AInv, NEW p \in Principals, NEW id \in 1 .. minted, UploadRefused(p, id)
  PROVE  AInv'
<1> USE SweepFacts, BoundsAssumption, LimitsAssumption DEF AInv, UploadRefused
<1>1. TypeOK'
  BY DEF TypeOK
<1>2. UrlsAwaitBodies'
  BY DEF UrlsAwaitBodies
<1>3. minted' >= minted
  BY DEF TypeOK
<1> QED
  BY <1>1, <1>2, <1>3, CallsUndisturbed

LEMMA PeekKeeps ==
  ASSUME AInv, NEW th \in Threads, NEW p \in Principals, NEW id \in 1 .. minted, Peek(th, p, id)
  PROVE  AInv'
<1> USE SweepFacts, BoundsAssumption, LimitsAssumption DEF AInv
<1> DEFINE peeked == [step |-> "gate", who |-> p, id |-> id, body |-> staged[id].body]
<1>1. /\ call[th] = Idle /\ staged' = Swept /\ uploads' = uploads \cap Live
      /\ UNCHANGED <<clock, minted, proposals>>
  BY DEF Peek
<1>2. \A t \in Threads \ {th} : call'[t] = call[t]
  BY DEF Peek, Goto, TypeOK
<1>3. \/ call'[th] = Idle
      \/ call'[th] = peeked /\ id \in Live /\ staged[id].owner = p /\ staged[id].body # 0
  BY DEF Peek, Goto, Owned, TypeOK
<1>4. TypeOK'
  BY DEF TypeOK, Stages, Calls, Idle, Ids, Bodies, Peek, Owned, Goto
<1>5. UrlsAwaitBodies'
  BY <1>1 DEF UrlsAwaitBodies
<1>6. \A t \in Threads : call'[t].step \in {"propose", "leave"} => t # th /\ call'[t] = call[t]
  BY <1>2, <1>3 DEF Idle
<1>7. \A t \in Threads : call[t].step \in {"propose", "leave"} => t # th /\ call'[t] = call[t]
  BY <1>1, <1>2 DEF Idle
<1>8. ClaimInv'
  BY <1>1, <1>6, <1>7 DEF ClaimInv, Claiming
<1>9. BodyInv'
  <2>1. \A t \in Threads : call'[t].step = "gate" =>
          /\ call'[t].id \in 1 .. minted /\ call'[t].body # 0
          /\ call'[t].id \in DOMAIN staged' => /\ staged'[call'[t].id].body = call'[t].body
                                               /\ staged'[call'[t].id].owner = call'[t].who
    <3> TAKE t \in Threads
    <3>1. CASE t = th
      BY <1>1, <1>3, <3>1 DEF Idle
    <3>2. CASE t # th
      BY <1>1, <1>2, <3>2 DEF BodyInv
    <3> QED
      BY <3>1, <3>2
  <2>2. \A t \in Threads : call'[t].step \in {"propose", "leave"} =>
          call'[t] = call[t] /\ call[t].id \in Live /\ staged'[call[t].id] = staged[call[t].id]
    BY <1>1, <1>6, ClaimedStage
  <2> QED
    BY <1>1, <2>1, <2>2 DEF BodyInv
<1>10. SpentInv'
  <2>1. DOMAIN staged' \subseteq DOMAIN staged
    BY <1>1
  <2>2. \A t \in Threads : call[t].step = "leave" => call'[t] = call[t]
    BY <1>7
  <2> QED
    BY <1>1, <2>1, <2>2 DEF SpentInv
<1> QED
  BY <1>4, <1>5, <1>8, <1>9, <1>10

LEMMA AnswerPendingKeeps ==
  ASSUME AInv, NEW th \in Threads, AnswerPending(th)
  PROVE  AInv'
<1> USE SweepFacts, BoundsAssumption, LimitsAssumption DEF AInv
<1>1. TypeOK'
  BY DEF TypeOK, Stages, Calls, Idle, Ids, Bodies, Outcomes, AnswerPending, Goto, stageVars
<1>2. UrlsAwaitBodies'
  BY DEF UrlsAwaitBodies, AnswerPending, stageVars
<1>3. ClaimInv'
  <2>1. \A t \in Threads, id \in Ids : Claiming(t, id)' <=> Claiming(t, id)
    BY DEF Claiming, TypeOK, AnswerPending, Goto, Idle
  <2>2. staged' = staged
    BY DEF AnswerPending, stageVars
  <2> QED
    BY <2>1, <2>2 DEF ClaimInv
<1>4. BodyInv'
  BY DEF BodyInv, TypeOK, Calls, Idle, AnswerPending, Goto, stageVars
<1>5. SpentInv'
  BY DEF SpentInv, TypeOK, Calls, Idle, AnswerPending, Goto, stageVars
<1> QED
  BY <1>1, <1>2, <1>3, <1>4, <1>5

LEMMA ClaimKeeps ==
  ASSUME AInv, NEW th \in Threads, Claim(th)
  PROVE  AInv'
<1> USE SweepFacts, BoundsAssumption, LimitsAssumption DEF AInv
<1> DEFINE c == call[th]
           available == Owned(c.id, c.who) /\ staged[c.id].body # 0 /\ ~staged[c.id].busy
           claim == [step |-> "propose", who |-> c.who, id |-> c.id,
                     body |-> staged[c.id].body, scanned |-> c.body]
<1>1. /\ c.step = "gate" /\ uploads' = uploads \cap Live
      /\ UNCHANGED <<clock, minted, proposals>>
      /\ c \in [step : {"gate"}, who : Principals, id : Ids, body : Bodies]
  BY DEF Claim, TypeOK, Calls, Idle
<1>2. \A t \in Threads \ {th} : call'[t] = call[t]
  BY DEF Claim, Goto, TypeOK
<1>3. CASE ~available
  <2>1. staged' = Swept /\ call'[th] = Idle /\ call' \in [Threads -> Calls \cup {Idle}]
    BY <1>3 DEF Claim, Goto, TypeOK
  <2>2. TypeOK'
    BY <1>1, <2>1 DEF TypeOK
  <2>3. UrlsAwaitBodies'
    BY <1>1, <2>1 DEF UrlsAwaitBodies
  <2>4. \A t \in Threads : call'[t].step # "idle" => t # th /\ call'[t] = call[t]
    BY <1>2, <2>1 DEF Idle
  <2>5. \A t \in Threads : call[t].step \in {"propose", "leave"} => call'[t] = call[t]
    BY <1>1, <1>2
  <2>6. ClaimInv'
    BY <1>1, <2>1, <2>4, <2>5 DEF ClaimInv, Claiming
  <2>7. BodyInv'
    <3>1. \A t \in Threads : call'[t].step \in {"propose", "leave"} =>
            call'[t] = call[t] /\ call[t].id \in Live /\ staged'[call[t].id] = staged[call[t].id]
      BY <2>1, <2>4 DEF ClaimInv, Claiming, TypeOK, Calls, Idle
    <3> QED
      BY <1>1, <2>1, <2>4, <3>1 DEF BodyInv
  <2>8. SpentInv'
    BY <1>1, <2>1, <2>5 DEF SpentInv
  <2> QED
    BY <2>2, <2>3, <2>6, <2>7, <2>8
<1>4. CASE available
  <2>1. /\ staged' = [Swept EXCEPT ![c.id].busy = TRUE]
        /\ call' = [call EXCEPT ![th] = claim]
        /\ c.id \in Live /\ staged[c.id].owner = c.who /\ staged[c.id].body # 0 /\ ~staged[c.id].busy
    BY <1>4 DEF Claim, Goto, Owned
  <2>2. call'[th] = claim /\ call' \in [Threads -> Calls \cup {Idle}]
    <3>1. claim \in Calls
      BY <1>1, <2>1 DEF Calls, Stages
    <3> QED
      BY <2>1, <3>1 DEF TypeOK
  <2>3. /\ staged' \in [Live -> Stages] /\ DOMAIN staged' = Live
        /\ \A i \in Live : i # c.id => staged'[i] = staged[i]
        /\ staged'[c.id].body = staged[c.id].body /\ staged'[c.id].owner = staged[c.id].owner
        /\ staged'[c.id].busy
    <3> HIDE DEF c
    <3>1. /\ DOMAIN staged' = Live
          /\ \A i \in Live : i # c.id => staged'[i] = staged[i]
          /\ staged'[c.id] = [staged[c.id] EXCEPT !.busy = TRUE]
      BY <2>1
    <3>2. staged[c.id] \in Stages /\ staged' = [i \in Live |-> staged'[i]]
          /\ \A i \in Live : staged[i] \in Stages
      BY <2>1
    <3>3. staged'[c.id] \in Stages /\ staged'[c.id].body = staged[c.id].body
          /\ staged'[c.id].owner = staged[c.id].owner /\ staged'[c.id].busy
      BY <3>1, <3>2 DEF Stages
    <3> QED
      BY <3>1, <3>2, <3>3
  <2>4. staged[c.id].body = c.body
    BY <1>1, <2>1 DEF BodyInv
  <2>5. \A t \in Threads : call[t].step \in {"propose", "leave"} =>
          t # th /\ call'[t] = call[t] /\ call[t].id \in Live /\ call[t].id # c.id
    <3> TAKE t \in Threads
    <3> HAVE call[t].step \in {"propose", "leave"}
    <3>1. t # th /\ call'[t] = call[t]
      BY <1>1, <1>2
    <3> QED
      BY <2>1, <3>1, ClaimedStage
  <2> HIDE DEF c, available
  <2>6. TypeOK'
    BY <1>1, <2>2, <2>3 DEF TypeOK
  <2>7. UrlsAwaitBodies'
    BY <1>1, <2>1, <2>3 DEF UrlsAwaitBodies
  <2>8. ClaimInv'
    <3>1. \A t \in Threads, id \in Ids : Claiming(t, id)' <=> (Claiming(t, id) \/ (t = th /\ id = c.id))
      BY <1>2, <2>2, <2>5 DEF Claiming, c
    <3>2. \A t \in Threads : ~Claiming(t, c.id)
      BY <2>5 DEF Claiming
    <3>3. \A t \in Threads, id \in Ids : Claiming(t, id)' => id \in DOMAIN staged' /\ staged'[id].busy
      BY <2>3, <2>1, <3>1, <3>2 DEF ClaimInv
    <3>4. \A id \in DOMAIN staged' : staged'[id].busy => \E t \in Threads : Claiming(t, id)'
      <4> TAKE id \in DOMAIN staged'
      <4>1. CASE id = c.id
        BY <4>1, <3>1, <2>3
      <4>2. CASE id # c.id
        BY <4>2, <3>1, <2>3 DEF ClaimInv
      <4> QED
        BY <4>1, <4>2
    <3>5. \A id \in Ids : \A t1, t2 \in Threads : Claiming(t1, id)' /\ Claiming(t2, id)' => t1 = t2
      BY <3>1, <3>2 DEF ClaimInv
    <3> QED
      BY <3>3, <3>4, <3>5 DEF ClaimInv
  <2>9. BodyInv'
    <3> SUFFICES ASSUME NEW t \in Threads
                 PROVE  /\ call'[t].step = "gate" =>
                             /\ call'[t].id \in 1 .. minted /\ call'[t].body # 0
                             /\ call'[t].id \in DOMAIN staged' =>
                                  /\ staged'[call'[t].id].body = call'[t].body
                                  /\ staged'[call'[t].id].owner = call'[t].who
                        /\ call'[t].step = "propose" =>
                             /\ call'[t].body = call'[t].scanned /\ call'[t].body # 0
                             /\ staged'[call'[t].id].body = call'[t].body
                             /\ staged'[call'[t].id].owner = call'[t].who
                        /\ call'[t].step = "leave" => staged'[call'[t].id].body # 0
      BY <1>1 DEF BodyInv
    <3>1. CASE t = th
      BY <3>1, <2>1, <2>2, <2>3, <2>4 DEF c
    <3>2. CASE t # th
      <4>1. call'[t] = call[t]
        BY <3>2, <1>2
      <4>2. \A i \in Live : staged'[i].body = staged[i].body /\ staged'[i].owner = staged[i].owner
        BY <2>3
      <4> QED
        BY <4>1, <4>2, <2>3, <2>5 DEF BodyInv
    <3> QED
      BY <3>1, <3>2
  <2>10. SpentInv'
    <3>1. DOMAIN staged' \subseteq DOMAIN staged
      BY <2>3
    <3>2. \A t \in Threads : call[t].step = "leave" => call'[t] = call[t]
      BY <2>5
    <3>3. SpentInv /\ proposals' = proposals /\ minted' = minted
      BY <1>1
    <3> HIDE DEF AInv
    <3> QED
      BY ONLY <3>1, <3>2, <3>3 DEF SpentInv
  <2> QED
    BY <2>6, <2>7, <2>8, <2>9, <2>10
<1> QED
  BY <1>3, <1>4

LEMMA ProposeKeeps ==
  ASSUME AInv, NEW th \in Threads, NEW outcome \in Outcomes, Propose(th, outcome)
  PROVE  AInv'
<1> USE SweepFacts, BoundsAssumption, LimitsAssumption DEF AInv
<1> DEFINE c == call[th]
<1>1. /\ c.step = "propose" /\ c.id \in Ids /\ c.id \in DOMAIN staged /\ staged[c.id].busy
      /\ proposals' = [proposals EXCEPT ![c.id] = Append(@, outcome)]
      /\ call' = [call EXCEPT ![th] = [step |-> "leave", id |-> c.id, outcome |-> outcome]]
      /\ UNCHANGED <<staged, uploads, minted, clock>>
  <2>1. c.step = "propose"
    BY DEF Propose
  <2>2. c.id \in Ids
    BY <2>1 DEF TypeOK, Calls, Idle
  <2>3. c.id \in DOMAIN staged /\ staged[c.id].busy
    BY <2>1, <2>2 DEF ClaimInv, Claiming
  <2> QED
    BY <2>1, <2>2, <2>3 DEF Propose, Goto, stageVars
<1>2. call'[th] = [step |-> "leave", id |-> c.id, outcome |-> outcome]
  BY <1>1 DEF TypeOK
<1>3. \A t \in Threads \ {th} : call'[t] = call[t]
  BY <1>1 DEF TypeOK
<1>4. TypeOK'
  <2>1. Append(proposals[c.id], outcome) \in Seq(Outcomes)
    BY <1>1 DEF TypeOK
  <2>2. proposals' \in [Ids -> Seq(Outcomes)]
    BY <1>1, <2>1 DEF TypeOK
  <2>3. [step |-> "leave", id |-> c.id, outcome |-> outcome] \in Calls
    BY <1>1 DEF Calls
  <2>4. call' \in [Threads -> Calls \cup {Idle}]
    BY <1>1, <2>3 DEF TypeOK
  <2> QED
    BY <1>1, <2>2, <2>4 DEF TypeOK
<1>5. UrlsAwaitBodies'
  BY <1>1 DEF UrlsAwaitBodies
<1>6. ClaimInv'
  <2>1. \A t \in Threads, id \in Ids : Claiming(t, id)' <=> Claiming(t, id)
    BY <1>1, <1>2, <1>3 DEF Claiming
  <2> QED
    BY <1>1, <2>1 DEF ClaimInv
<1>7. BodyInv'
  BY <1>1, <1>2, <1>3 DEF BodyInv
<1>8. SpentInv'
  <2>1. \A i \in DOMAIN proposals[c.id] : proposals[c.id][i] # "ok"
    <3> SUFFICES ASSUME NEW i \in DOMAIN proposals[c.id], proposals[c.id][i] = "ok" PROVE FALSE
      OBVIOUS
    <3>1. PICK t \in Threads : call[t].step = "leave" /\ call[t].id = c.id
      BY <1>1 DEF SpentInv
    <3>2. t = th
      BY <1>1, <3>1 DEF ClaimInv, Claiming
    <3> QED
      BY <1>1, <3>1, <3>2
  <2>2. proposals[c.id] \in Seq(Outcomes)
    BY <1>1 DEF TypeOK
  <2>3. \A i \in DOMAIN Append(proposals[c.id], outcome) :
          Append(proposals[c.id], outcome)[i] = "ok" =>
            i = Len(Append(proposals[c.id], outcome)) /\ outcome = "ok"
    <3> DEFINE before == proposals[c.id]
    <3>1. before \in Seq(Outcomes) /\ \A i \in 1 .. Len(before) : before[i] # "ok"
      BY <2>1, <2>2
    <3> HIDE DEF before
    <3>2. \A i \in DOMAIN Append(before, outcome) :
            Append(before, outcome)[i] = "ok" => i = Len(Append(before, outcome)) /\ outcome = "ok"
      BY <3>1
    <3> QED
      BY <3>2 DEF before
  <2>4. \A id \in Ids : id # c.id => proposals'[id] = proposals[id]
    BY <1>1 DEF TypeOK
  <2>5. proposals'[c.id] = Append(proposals[c.id], outcome)
    BY <1>1 DEF TypeOK
  <2> SUFFICES ASSUME NEW id \in Ids
               PROVE  /\ proposals'[id] # << >> => id <= minted'
                      /\ \A i \in DOMAIN proposals'[id] : proposals'[id][i] = "ok" =>
                           /\ i = Len(proposals'[id])
                           /\ \/ id \notin DOMAIN staged'
                              \/ \E t \in Threads : /\ call'[t].step = "leave" /\ call'[t].id = id
                                                    /\ call'[t].outcome = "ok"
    BY DEF SpentInv
  <2>6. CASE id = c.id
    BY <1>1, <1>2, <2>3, <2>5, <2>6
  <2>7. CASE id # c.id
    <3>1. \A t \in Threads : call[t].step = "leave" => t # th /\ call'[t] = call[t]
      BY <1>1, <1>3
    <3> QED
      BY <1>1, <2>4, <2>7, <3>1 DEF SpentInv
  <2> QED
    BY <2>6, <2>7
<1> QED
  BY <1>4, <1>5, <1>6, <1>7, <1>8

LEMMA LeaveKeeps ==
  ASSUME AInv, NEW th \in Threads, Leave(th)
  PROVE  AInv'
<1> USE SweepFacts, BoundsAssumption, LimitsAssumption DEF AInv
<1> DEFINE c == call[th]
<1>1. /\ c.step = "leave" /\ c.id \in Ids /\ c.id \in DOMAIN staged /\ staged[c.id].busy
      /\ staged[c.id].body # 0
      /\ call' = [call EXCEPT ![th] = Idle]
      /\ UNCHANGED <<uploads, minted, clock, proposals>>
  BY DEF Leave, Goto, TypeOK, Calls, Idle, ClaimInv, Claiming, BodyInv
<1>2. call'[th] = Idle /\ call' \in [Threads -> Calls \cup {Idle}]
  BY <1>1 DEF TypeOK
<1>3. \A t \in Threads \ {th} : call'[t] = call[t]
  BY <1>1 DEF TypeOK
<1>4. /\ staged' \in [DOMAIN staged' -> Stages] /\ DOMAIN staged' \subseteq DOMAIN staged
      /\ \A i \in DOMAIN staged : i # c.id => i \in DOMAIN staged' /\ staged'[i] = staged[i]
      /\ \/ c.outcome = "ok" /\ c.id \notin DOMAIN staged'
         \/ /\ c.outcome # "ok" /\ c.id \in DOMAIN staged'
            /\ staged'[c.id].body = staged[c.id].body /\ staged'[c.id].owner = staged[c.id].owner
            /\ ~staged'[c.id].busy
  <2>1. CASE c.outcome = "ok"
    <3>1. staged' = Restrict(staged, DOMAIN staged \ {c.id})
      BY <2>1 DEF Leave
    <3> QED
      BY <2>1, <3>1 DEF Restrict, TypeOK
  <2>2. CASE c.outcome # "ok"
    <3>1. staged' = [staged EXCEPT ![c.id].busy = FALSE]
      BY <2>2 DEF Leave
    <3>2. /\ DOMAIN staged' = DOMAIN staged
          /\ \A i \in DOMAIN staged : i # c.id => staged'[i] = staged[i]
          /\ staged'[c.id] = [staged[c.id] EXCEPT !.busy = FALSE]
      BY <1>1, <3>1
    <3>3. staged[c.id] \in Stages /\ staged' = [i \in DOMAIN staged |-> staged'[i]]
      BY <1>1, <3>1 DEF TypeOK
    <3>4. staged'[c.id] \in Stages /\ staged'[c.id].body = staged[c.id].body
          /\ staged'[c.id].owner = staged[c.id].owner /\ ~staged'[c.id].busy
      BY <3>2, <3>3 DEF Stages
    <3> QED
      BY <1>1, <2>2, <3>2, <3>3, <3>4 DEF TypeOK
  <2> QED
    BY <2>1, <2>2
<1>5. \A t \in Threads : call[t].step \in {"propose", "leave"} /\ t # th =>
        call'[t] = call[t] /\ call[t].id \in DOMAIN staged /\ call[t].id # c.id
  BY <1>1, <1>3 DEF ClaimInv, Claiming, TypeOK, Calls, Idle
<1>6. \A t \in Threads : call'[t].step # "idle" => t # th /\ call'[t] = call[t]
  BY <1>2, <1>3 DEF Idle
<1>7. TypeOK'
  BY <1>1, <1>2, <1>4 DEF TypeOK
<1>8. UrlsAwaitBodies'
  <2>1. c.id \notin uploads
    BY <1>1 DEF UrlsAwaitBodies
  <2>2. \A i \in DOMAIN staged' : staged'[i].body = staged[i].body
    BY <1>4
  <2> QED
    BY <1>1, <1>4, <2>1, <2>2 DEF UrlsAwaitBodies
<1> HIDE DEF c
<1>9. ClaimInv'
  <2>1. \A t \in Threads, id \in Ids : Claiming(t, id)' <=> (Claiming(t, id) /\ t # th)
    BY <1>1, <1>5, <1>6 DEF Claiming
  <2>2. \A t \in Threads : Claiming(t, c.id) => t = th
    BY <1>5 DEF Claiming
  <2>3. \A t \in Threads, id \in Ids : Claiming(t, id)' => id \in DOMAIN staged' /\ staged'[id].busy
    BY <1>4, <2>1, <2>2 DEF ClaimInv
  <2>4. \A id \in DOMAIN staged' : staged'[id].busy => \E t \in Threads : Claiming(t, id)'
    <3> SUFFICES ASSUME NEW id \in DOMAIN staged', staged'[id].busy
                 PROVE  \E t \in Threads : Claiming(t, id)'
      OBVIOUS
    <3>1. id # c.id /\ id \in DOMAIN staged /\ staged[id].busy /\ id \in Ids
      BY <1>4
    <3>2. PICK t \in Threads : Claiming(t, id)
      BY <3>1 DEF ClaimInv
    <3>3. t # th
      BY <3>1, <3>2 DEF Claiming, c
    <3> QED
      BY <2>1, <3>1, <3>2, <3>3
  <2>5. \A id \in Ids : \A t1, t2 \in Threads : Claiming(t1, id)' /\ Claiming(t2, id)' => t1 = t2
    BY <2>1 DEF ClaimInv
  <2> QED
    BY <2>3, <2>4, <2>5 DEF ClaimInv
<1>10. BodyInv'
  <2> SUFFICES ASSUME NEW t \in Threads, call'[t].step # "idle"
               PROVE  /\ call'[t].step = "gate" =>
                           /\ call'[t].id \in 1 .. minted /\ call'[t].body # 0
                           /\ call'[t].id \in DOMAIN staged' =>
                                /\ staged'[call'[t].id].body = call'[t].body
                                /\ staged'[call'[t].id].owner = call'[t].who
                      /\ call'[t].step = "propose" =>
                           /\ call'[t].body = call'[t].scanned /\ call'[t].body # 0
                           /\ staged'[call'[t].id].body = call'[t].body
                           /\ staged'[call'[t].id].owner = call'[t].who
                      /\ call'[t].step = "leave" => staged'[call'[t].id].body # 0
    BY <1>1 DEF BodyInv
  <2>1. call'[t] = call[t] /\ t # th
    BY <1>6
  <2>2. \A i \in DOMAIN staged' : /\ i \in DOMAIN staged /\ staged'[i].body = staged[i].body
                                  /\ staged'[i].owner = staged[i].owner
    BY <1>4
  <2>3. call[t].step \in {"propose", "leave"} => call[t].id \in DOMAIN staged'
    BY <1>4, <1>5, <2>1
  <2> QED
    BY <2>1, <2>2, <2>3 DEF BodyInv
<1>11. SpentInv'
  <2> SUFFICES ASSUME NEW id \in Ids, NEW i \in DOMAIN proposals[id], proposals[id][i] = "ok",
                      id \in DOMAIN staged'
               PROVE  \E t \in Threads : /\ call'[t].step = "leave" /\ call'[t].id = id
                                         /\ call'[t].outcome = "ok"
    BY <1>1 DEF SpentInv
  <2>1. PICK t \in Threads : call[t].step = "leave" /\ call[t].id = id /\ call[t].outcome = "ok"
    BY <1>4 DEF SpentInv
  <2>2. t # th
    BY <1>4, <2>1 DEF c
  <2> QED
    BY <1>5, <2>1, <2>2
<1> QED
  BY <1>7, <1>8, <1>9, <1>10, <1>11

LEMMA TickKeeps ==
  ASSUME AInv, Tick
  PROVE  AInv'
  BY DEF AInv, TypeOK, UrlsAwaitBodies, ClaimInv, Claiming, BodyInv, SpentInv, Tick, stageVars

LEMMA RestartKeeps ==
  ASSUME AInv, Restart
  PROVE  AInv'
<1>1. /\ staged' = << >> /\ DOMAIN staged' = {} /\ uploads' = {}
      /\ call' = [th \in Threads |-> Idle] /\ UNCHANGED <<minted, clock, proposals>>
  BY DEF Restart
<1>2. TypeOK'
  <2>1. staged' \in [DOMAIN staged' -> Stages]
    BY <1>1
  <2> QED
    BY <1>1, <2>1 DEF AInv, TypeOK
<1>3. UrlsAwaitBodies' /\ ClaimInv' /\ BodyInv' /\ SpentInv'
  BY <1>1 DEF AInv, UrlsAwaitBodies, ClaimInv, BodyInv, SpentInv, Claiming, Idle
<1> QED
  BY <1>2, <1>3 DEF AInv

LEMMA StepAInv == AInv /\ [Next]_vars => AInv'
<1> SUFFICES ASSUME AInv, [Next]_vars PROVE AInv'
  OBVIOUS
<1>1. CASE UNCHANGED vars
  BY <1>1 DEF AInv, TypeOK, UrlsAwaitBodies, ClaimInv, Claiming, BodyInv, SpentInv, vars, stageVars
<1>2. CASE Next
  BY <1>2, MintKeeps, UploadKeeps, UploadRefusedKeeps, PeekKeeps, AnswerPendingKeeps, ClaimKeeps,
     ProposeKeeps, LeaveKeeps, TickKeeps, RestartKeeps DEF Next
<1> QED
  BY <1>1, <1>2

\* The strengthened invariant holds of every reachable state.
THEOREM StageInvHolds == Spec => []AInv
  BY InitAInv, StepAInv, PTL DEF Spec

\* Every variable of AssetStage keeps its type.
THEOREM StageTypeCorrect == Spec => []TypeOK
<1>1. AInv => TypeOK
  BY DEF AInv
<1> QED
  BY <1>1, StageInvHolds, PTL

\* A URL is open exactly as long as its stage waits for a body.
THEOREM UrlsAwaitBodiesHolds == Spec => []UrlsAwaitBodies
<1>1. AInv => UrlsAwaitBodies
  BY DEF AInv
<1> QED
  BY <1>1, StageInvHolds, PTL

\* The busy flag of a stage belongs to exactly one call, for as long as the call
\* needs it.
THEOREM ClaimsAreExclusiveHolds == Spec => []ClaimsAreExclusive
<1>1. AInv => ClaimsAreExclusive
  <2> SUFFICES ASSUME AInv, NEW id \in 1 .. minted
               PROVE  Cardinality(Claimants(id)) =
                        IF id \in DOMAIN staged /\ staged[id].busy THEN 1 ELSE 0
    BY DEF ClaimsAreExclusive
  <2>1. id \in Ids
    BY BoundsAssumption DEF AInv, TypeOK, Ids
  <2>2. Claimants(id) = {th \in Threads : Claiming(th, id)}
    BY DEF Claimants, Claiming
  <2>3. CASE id \in DOMAIN staged /\ staged[id].busy
    <3>1. PICK th \in Threads : Claiming(th, id)
      BY <2>3 DEF AInv, ClaimInv
    <3>2. Claimants(id) = {th}
      BY <2>1, <2>2, <3>1 DEF AInv, ClaimInv
    <3> QED
      BY <2>3, <3>2, FS_Singleton
  <2>4. CASE ~(id \in DOMAIN staged /\ staged[id].busy)
    <3>1. Claimants(id) = {}
      BY <2>1, <2>2, <2>4 DEF AInv, ClaimInv
    <3> QED
      BY <2>4, <3>1, FS_EmptySet
  <2> QED
    BY <2>3, <2>4
<1> QED
  BY <1>1, StageInvHolds, PTL

\* What goes to the host is what was scanned.
THEOREM ProposedAsScannedHolds == Spec => []ProposedAsScanned
<1>1. AInv => ProposedAsScanned
  BY DEF AInv, BodyInv, ProposedAsScanned
<1> QED
  BY <1>1, StageInvHolds, PTL

\* A body is proposed successfully once at most.
THEOREM OneSuccessHolds == Spec => []OneSuccess
<1>1. AInv => OneSuccess
  BY DEF AInv, SpentInv, OneSuccess
<1> QED
  BY <1>1, StageInvHolds, PTL

\* Only minting adds a stage, and nothing changes its owner.
LEMMA OwnersStay ==
  ASSUME AInv, [Next]_vars, ~(\E p \in Principals : Mint(p))
  PROVE  \A i \in DOMAIN staged' : i \in DOMAIN staged /\ staged'[i].owner = staged[i].owner
<1> USE SweepFacts DEF AInv
<1>1. CASE UNCHANGED <<staged>>
  BY <1>1
<1>2. CASE staged' = Swept
  BY <1>2
<1>3. ASSUME NEW p \in Principals, NEW id \in 1 .. minted, NEW data \in Uploads, Upload(p, id, data)
      PROVE  \A i \in DOMAIN staged' : i \in DOMAIN staged /\ staged'[i].owner = staged[i].owner
  <2>1. id \in Live
    BY <1>3 DEF Upload, Owned
  <2>2. CASE staged' = Restrict(staged, Live \ {id})
    BY <2>2 DEF Restrict
  <2>3. CASE staged' = Added(Swept, id, [staged[id] EXCEPT !.body = data, !.expiry = clock + StageTtl])
    BY <2>1, <2>3 DEF Added, Stages
  <2> QED
    BY <1>3, <2>2, <2>3 DEF Upload, Without
<1>4. ASSUME NEW th \in Threads, Claim(th)
      PROVE  \A i \in DOMAIN staged' : i \in DOMAIN staged /\ staged'[i].owner = staged[i].owner
  <2>1. staged' = Swept \/ staged' = [Swept EXCEPT ![call[th].id].busy = TRUE]
    BY <1>4 DEF Claim
  <2> QED
    BY <2>1 DEF Stages
<1>5. ASSUME NEW th \in Threads, Leave(th)
      PROVE  \A i \in DOMAIN staged' : i \in DOMAIN staged /\ staged'[i].owner = staged[i].owner
  <2>1. \/ staged' = Restrict(staged, DOMAIN staged \ {call[th].id})
        \/ staged' = [staged EXCEPT ![call[th].id].busy = FALSE]
    BY <1>5 DEF Leave
  <2> QED
    BY <2>1 DEF Restrict, Stages, TypeOK
<1>6. CASE Restart
  <2>1. DOMAIN staged' = {}
    BY <1>6 DEF Restart
  <2> QED
    BY <2>1
<1> QED
  BY <1>1, <1>2, <1>3, <1>4, <1>5, <1>6
  DEF Next, UploadRefused, Peek, AnswerPending, Propose, Tick, vars, stageVars

LEMMA OfActorFinite ==
  ASSUME TypeOK, NEW actor
  PROVE  IsFiniteSet(OfActor(actor)) /\ Cardinality(OfActor(actor)) \in Nat
<1>1. minted \in Nat /\ OfActor(actor) \subseteq 1 .. minted
  BY BoundsAssumption DEF TypeOK, OfActor
<1>2. IsFiniteSet(1 .. minted)
  BY <1>1, FS_Interval
<1> QED
  BY <1>1, <1>2, FS_Subset, FS_CardinalityType

\* No actor ever holds more than MaxStaged stages, URLs that wait for a body
\* included, however many tokens it has and however its calls interleave.
THEOREM StageQuotaHolds == Spec => []StageQuota
<1>1. Init => StageQuota
  <2> SUFFICES ASSUME Init, NEW p \in Principals PROVE Cardinality(OfActor(p.actor)) <= MaxStaged
    BY DEF StageQuota
  <2>1. OfActor(p.actor) = {}
    BY DEF Init, OfActor
  <2> QED
    BY <2>1, FS_EmptySet, LimitsAssumption
<1>2. AInv /\ AInv' /\ StageQuota /\ [Next]_vars => StageQuota'
  <2> SUFFICES ASSUME AInv, AInv', StageQuota, [Next]_vars, NEW q \in Principals
               PROVE  Cardinality(OfActor(q.actor)') <= MaxStaged
    BY DEF StageQuota
  <2> DEFINE before == OfActor(q.actor)
             after  == OfActor(q.actor)'
  <2>1. /\ IsFiniteSet(before) /\ Cardinality(before) \in Nat
        /\ Cardinality(before) <= MaxStaged /\ MaxStaged \in Nat
    BY OfActorFinite, LimitsAssumption DEF AInv, StageQuota
  <2>2. CASE after \subseteq before
    <3>1. Cardinality(after) <= Cardinality(before) /\ Cardinality(after) \in Nat
      BY <2>1, <2>2, FS_Subset, FS_CardinalityType
    <3> QED
      BY <2>1, <3>1
  <2>3. CASE \E p \in Principals : Mint(p)
    <3>1. PICK p \in Principals : Mint(p)
      BY <2>3
    <3>2. CASE staged' = Swept
      <4>1. after \subseteq before
        BY <3>2, SweepFacts DEF AInv, OfActor
      <4> QED
        BY <2>2, <4>1
    <3>3. CASE staged' # Swept
      <4>1. /\ Cardinality(Mine(p.actor)) < MaxStaged
            /\ staged' = Added(Swept, minted + 1,
                 [owner |-> p, expiry |-> clock + UrlTtl, body |-> 0, busy |-> FALSE])
        <5>1. ~(Cardinality(Mine(p.actor)) >= MaxStaged)
          BY <3>1, <3>3 DEF Mint
        <5>2. Mine(p.actor) \subseteq OfActor(p.actor)
          BY SweepFacts DEF AInv, Mine, OfActor
        <5>3. Cardinality(Mine(p.actor)) \in Nat
          BY <5>2, OfActorFinite, FS_Subset, FS_CardinalityType DEF AInv
        <5> QED
          BY <2>1, <3>1, <5>1, <5>3 DEF Mint
      <4>2. /\ DOMAIN staged' = Live \cup {minted + 1}
            /\ staged'[minted + 1].owner = p
            /\ \A i \in Live : i # minted + 1 => staged'[i] = staged[i]
        BY <4>1, SweepFacts DEF AInv, Added
      <4>3. CASE q.actor = p.actor
        <5>1. after \subseteq Mine(q.actor) \cup {minted + 1}
          BY <4>2 DEF OfActor, Mine
        <5>2. Mine(q.actor) \subseteq before
          BY SweepFacts DEF AInv, Mine, OfActor
        <5>3. IsFiniteSet(Mine(q.actor)) /\ Cardinality(Mine(q.actor)) \in Nat
          BY <2>1, <5>2, FS_Subset, FS_CardinalityType
        <5>4. /\ IsFiniteSet(Mine(q.actor) \cup {minted + 1})
              /\ Cardinality(Mine(q.actor) \cup {minted + 1}) <= Cardinality(Mine(q.actor)) + 1
          BY <5>3, FS_AddElement
        <5>5. /\ Cardinality(after) <= Cardinality(Mine(q.actor) \cup {minted + 1})
              /\ Cardinality(after) \in Nat /\ Cardinality(Mine(q.actor) \cup {minted + 1}) \in Nat
          BY <5>1, <5>4, FS_Subset, FS_CardinalityType
        <5> QED
          BY <2>1, <4>1, <4>3, <5>3, <5>4, <5>5
      <4>4. CASE q.actor # p.actor
        <5>1. after \subseteq before
          BY <4>2, <4>4, SweepFacts DEF AInv, OfActor
        <5> QED
          BY <2>2, <5>1
      <4> QED
        BY <4>3, <4>4
    <3> QED
      BY <3>2, <3>3
  <2>4. CASE ~(\E p \in Principals : Mint(p))
    <3>1. after \subseteq before
      BY <2>4, OwnersStay DEF OfActor
    <3> QED
      BY <2>2, <3>1
  <2> QED
    BY <2>3, <2>4
<1> QED
  BY <1>1, <1>2, StageInvHolds, PTL DEF Spec

\* Only an upload puts bytes on a stage: after any other step a stage is as full as it
\* was, and its owner's, or is empty.
LEMMA BodiesStay ==
  ASSUME AInv, [Next]_vars,
         ~(\E p \in Principals, id \in 1 .. minted, data \in Uploads : Upload(p, id, data))
  PROVE  \A i \in DOMAIN staged' :
           \/ staged'[i].body = 0
           \/ /\ i \in DOMAIN staged
              /\ staged'[i].owner = staged[i].owner /\ staged'[i].body = staged[i].body
<1> DEFINE Stays ==
      \A i \in DOMAIN staged' :
        \/ staged'[i].body = 0
        \/ /\ i \in DOMAIN staged
           /\ staged'[i].owner = staged[i].owner /\ staged'[i].body = staged[i].body
<1> SUFFICES Stays
  OBVIOUS
<1> USE SweepFacts DEF AInv
<1>1. CASE UNCHANGED staged
  BY <1>1
<1>2. CASE staged' = Swept
  BY <1>2
<1>3. ASSUME NEW p \in Principals, Mint(p) PROVE Stays
  <2> DEFINE stage == [owner |-> p, expiry |-> clock + UrlTtl, body |-> 0, busy |-> FALSE]
  <2>1. CASE staged' = Added(Swept, minted', stage)
    <3>1. stage.body = 0
      OBVIOUS
    <3> HIDE DEF stage
    <3> QED
      BY <2>1, <3>1 DEF Added
  <2>2. staged' = Swept \/ staged' = Added(Swept, minted', stage)
    BY <1>3 DEF Mint
  <2> HIDE DEF stage
  <2> QED
    BY <1>2, <2>1, <2>2
<1>4. ASSUME NEW th \in Threads, Claim(th) PROVE Stays
  <2>1. staged' = Swept \/ staged' = [Swept EXCEPT ![call[th].id].busy = TRUE]
    BY <1>4 DEF Claim
  <2> QED
    BY <2>1 DEF Stages
<1>5. ASSUME NEW th \in Threads, Leave(th) PROVE Stays
  <2>1. CASE staged' = Restrict(staged, DOMAIN staged \ {call[th].id})
    BY <2>1 DEF Restrict
  <2>2. CASE staged' = [staged EXCEPT ![call[th].id].busy = FALSE]
    <3>1. DOMAIN staged' = DOMAIN staged
      BY <2>2
    <3>2. \A i \in DOMAIN staged :
            staged'[i] = staged[i] \/ staged'[i] = [staged[i] EXCEPT !.busy = FALSE]
      BY <2>2
    <3> QED
      BY <3>1, <3>2 DEF Stages
  <2> QED
    BY <1>5, <2>1, <2>2 DEF Leave
<1>6. CASE Restart
  <2>1. DOMAIN staged' = {}
    BY <1>6 DEF Restart
  <2> QED
    BY <2>1
<1>7. CASE \/ \E p \in Principals, id \in 1 .. minted : UploadRefused(p, id)
           \/ \E th \in Threads, p \in Principals, id \in 1 .. minted : Peek(th, p, id)
  <2>1. staged' = Swept
    BY <1>7 DEF UploadRefused, Peek
  <2> QED
    BY <1>2, <2>1
<1>8. CASE \/ \E th \in Threads : AnswerPending(th) \/ \E outcome \in Outcomes : Propose(th, outcome)
           \/ Tick \/ UNCHANGED vars
  <2>1. UNCHANGED staged
    BY <1>8 DEF AnswerPending, Propose, Tick, vars, stageVars
  <2> QED
    BY <1>1, <2>1
<1> HIDE DEF Stays
<1> QED
  BY <1>3, <1>4, <1>5, <1>6, <1>7, <1>8 DEF Next

\* The bytes of an actor can be counted.
LEMMA BytesFinite ==
  ASSUME TypeOK, NEW ids \in SUBSET DOMAIN staged
  PROVE  IsFiniteSet(Bytes(ids)) /\ Cardinality(Bytes(ids)) \in Nat
<1>1. minted \in Nat /\ MaxAssetBytes \in Nat /\ ids \subseteq 1 .. minted
  BY BoundsAssumption, LimitsAssumption DEF TypeOK
<1>2. IsFiniteSet((1 .. minted) \X (1 .. MaxAssetBytes))
  <2>1. IsFiniteSet(1 .. minted) /\ IsFiniteSet(1 .. MaxAssetBytes)
    BY <1>1, FS_Interval
  <2> QED
    BY <2>1, FS_Product
<1>3. Bytes(ids) \subseteq (1 .. minted) \X (1 .. MaxAssetBytes)
  BY <1>1 DEF Bytes
<1> QED
  BY <1>2, <1>3, FS_Subset, FS_CardinalityType

\* No actor's bodies ever take more than MaxStagedBytes together: an upload is measured
\* against the bodies that are there, its own stage, which is empty, left out.
THEOREM ByteQuotaHolds == Spec => []ByteQuota
<1>1. Init => ByteQuota
  <2> SUFFICES ASSUME Init, NEW p \in Principals
               PROVE  Cardinality(Bytes(OfActor(p.actor))) <= MaxStagedBytes
    BY DEF ByteQuota
  <2>1. OfActor(p.actor) = {}
    BY DEF Init, OfActor
  <2>2. Bytes(OfActor(p.actor)) = {}
    BY <2>1 DEF Bytes
  <2> QED
    BY <2>2, FS_EmptySet, LimitsAssumption
<1>2. AInv /\ AInv' /\ ByteQuota /\ [Next]_vars => ByteQuota'
  <2> SUFFICES ASSUME AInv, AInv', ByteQuota, [Next]_vars, NEW q \in Principals
               PROVE  Cardinality(Bytes(OfActor(q.actor))') <= MaxStagedBytes
    BY DEF ByteQuota
  <2> DEFINE before == Bytes(OfActor(q.actor))
             after  == Bytes(OfActor(q.actor))'
  <2>1. /\ IsFiniteSet(before) /\ Cardinality(before) \in Nat
        /\ Cardinality(before) <= MaxStagedBytes /\ MaxStagedBytes \in Nat
    BY BytesFinite, LimitsAssumption DEF AInv, ByteQuota, OfActor
  <2>2. CASE after \subseteq before
    <3>1. Cardinality(after) <= Cardinality(before) /\ Cardinality(after) \in Nat
      BY <2>1, <2>2, FS_Subset, FS_CardinalityType
    <3> QED
      BY <2>1, <3>1
  <2>3. CASE ~(\E p \in Principals, id \in 1 .. minted, data \in Uploads : Upload(p, id, data))
    <3>1. \A i \in OfActor(q.actor)' :
            \/ staged'[i].body = 0
            \/ i \in OfActor(q.actor) /\ staged'[i].body = staged[i].body
      BY <2>3, BodiesStay DEF OfActor
    <3>2. after \subseteq before
      BY <3>1 DEF Bytes
    <3> QED
      BY <2>2, <3>2
  <2>4. ASSUME NEW p \in Principals, NEW id \in 1 .. minted, NEW data \in Uploads, Upload(p, id, data)
        PROVE  Cardinality(after) <= MaxStagedBytes
    <3>1. /\ id \in Live /\ staged[id].owner = p
          /\ Live \subseteq DOMAIN staged /\ DOMAIN Swept = Live
          /\ \A i \in Live : Swept[i] = staged[i]
      BY <2>4, SweepFacts DEF Upload, Owned, AInv
    <3>2. CASE ~Acceptable(id, data, p.actor)
      <4>1. staged' = Restrict(staged, Live \ {id})
        BY <2>4, <3>2 DEF Upload, Without
      <4>2. \A i \in OfActor(q.actor)' : i \in OfActor(q.actor) /\ staged'[i] = staged[i]
        BY <3>1, <4>1 DEF Restrict, OfActor
      <4> QED
        BY <2>2, <4>2 DEF Bytes
    <3>3. CASE Acceptable(id, data, p.actor)
      <4>1. /\ data \in 1 .. MaxAssetBytes
            /\ Used(id, p.actor) + data <= MaxStagedBytes
        BY <3>3 DEF Acceptable
      <4>2. /\ DOMAIN staged' = Live
            /\ \A i \in Live \ {id} : staged'[i] = staged[i]
            /\ staged'[id] = [staged[id] EXCEPT !.body = data, !.expiry = clock + StageTtl]
        BY <2>4, <3>1, <3>3 DEF Upload, Added
      <4>3. staged'[id].body = data /\ staged'[id].owner = p
        BY <3>1, <4>2, SweepFacts DEF AInv, Stages
      <4>4. CASE q.actor # p.actor
        <5>1. \A i \in OfActor(q.actor)' : i \in OfActor(q.actor) /\ staged'[i] = staged[i]
          BY <3>1, <4>2, <4>3, <4>4 DEF OfActor
        <5> QED
          BY <2>2, <5>1 DEF Bytes
      <4>5. CASE q.actor = p.actor
        <5> DEFINE others == Bytes(Mine(p.actor) \ {id})
                   sent   == {id} \X (1 .. data)
        <5>1. after \subseteq others \cup sent
          <6>1. OfActor(q.actor)' \subseteq (Mine(p.actor) \ {id}) \cup {id}
            BY <3>1, <4>2, <4>5 DEF OfActor, Mine
          <6>2. \A i \in Mine(p.actor) \ {id} : staged'[i] = staged[i]
            BY <4>2 DEF Mine
          <6> QED
            BY <4>1, <4>3, <6>1, <6>2, LimitsAssumption DEF Bytes
        <5>2. IsFiniteSet(others) /\ Cardinality(others) \in Nat
          <6>1. Mine(p.actor) \ {id} \subseteq DOMAIN staged
            BY <3>1 DEF Mine
          <6> QED
            BY <6>1, BytesFinite DEF AInv
        <5>3. IsFiniteSet(sent) /\ Cardinality(sent) = data
          <6>1. data \in Nat /\ data >= 1
            BY <4>1, LimitsAssumption
          <6>2. IsFiniteSet(1 .. data) /\ Cardinality(1 .. data) = data
            BY <6>1, FS_Interval
          <6>3. IsFiniteSet({id}) /\ Cardinality({id}) = 1
            BY FS_Singleton
          <6>4. IsFiniteSet(sent) /\ Cardinality(sent) = Cardinality({id}) * Cardinality(1 .. data)
            BY <6>2, <6>3, FS_Product
          <6> QED
            BY <6>1, <6>2, <6>3, <6>4
        <5>4. /\ IsFiniteSet(others \cup sent)
              /\ Cardinality(others \cup sent) <= Cardinality(others) + data
          <6>1. /\ IsFiniteSet(others \cup sent)
                /\ Cardinality(others \cup sent) =
                     Cardinality(others) + Cardinality(sent) - Cardinality(others \cap sent)
            BY <5>2, <5>3, FS_Union
          <6>2. Cardinality(others \cap sent) \in Nat
            BY <5>2, FS_Subset, FS_CardinalityType
          <6> QED
            BY <4>1, <5>2, <5>3, <6>1, <6>2, LimitsAssumption
        <5>5. Cardinality(after) <= Cardinality(others \cup sent) /\ Cardinality(after) \in Nat
              /\ Cardinality(others \cup sent) \in Nat
          BY <5>1, <5>4, FS_Subset, FS_CardinalityType
        <5> QED
          BY <2>1, <4>1, <5>2, <5>4, <5>5, LimitsAssumption DEF Used
      <4> QED
        BY <4>4, <4>5
    <3> QED
      BY <3>2, <3>3
  <2> QED
    BY <2>3, <2>4
<1> QED
  BY <1>1, <1>2, StageInvHolds, PTL DEF Spec

\* Both quotas of an actor, stages and bytes, hold at every moment.
THEOREM QuotasHold == Spec => []Quotas
<1>1. StageQuota /\ ByteQuota => Quotas
  BY DEF Quotas
<1> QED
  BY <1>1, StageQuotaHolds, ByteQuotaHolds, PTL
================================================================================

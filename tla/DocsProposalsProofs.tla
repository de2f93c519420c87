-------------------------- MODULE DocsProposalsProofs --------------------------
(***************************************************************************)
(* Proofs about the proposals to the review host, for every number of      *)
(* callers, threads, repositories and changes: whatever fails between two  *)
(* requests of a call, and whatever people do on the host meanwhile.       *)
(***************************************************************************)
EXTENDS DocsProposals, FiniteSetTheorems, SequenceTheorems, TLAPS

(***************************************************************************)
(* The inductive invariant.                                                *)
(***************************************************************************)
AskingSteps == {"check", "ref", "branch", "put", "pull"}

\* The branch holds what it was made from, and one change more.
Grown(branch, change) ==
  branch.text = (IF branch.point = NoDoc THEN {} ELSE branch.point) \cup {change}

\* A proposal is of a branch of its own in its own repository, and of a change that no
\* other proposal carries; an answer names it.
LedgerOK ==
  /\ \A c \in 1 .. changes : told[c].ok =>
       /\ branches[c].made
       /\ told[c].number \in DOMAIN proposals[branches[c].repo]
       /\ proposals[branches[c].repo][told[c].number].change = c
  /\ \A r \in Repos : \A n \in DOMAIN proposals[r] :
       LET p == proposals[r][n]
           branch == branches[p.change]
       IN  /\ p.change \in 1 .. changes
           /\ branch.made /\ branch.repo = r /\ Grown(branch, p.change)
           /\ p.farewells \subseteq {p.author}
  /\ \A r \in Repos : \A m, n \in DOMAIN proposals[r] :
       proposals[r][m].change = proposals[r][n].change => m = n

\* What a call knows by the request it is at.
CallOK(j) ==
  /\ j.step \in AskingSteps =>
       /\ j.change \in 1 .. changes /\ ~told[j.change].ok
       /\ \A r \in Repos : \A n \in DOMAIN proposals[r] : proposals[r][n].change # j.change
  /\ j.step = "put" =>
       /\ branches[j.change].made /\ branches[j.change].repo = j.repo
       /\ branches[j.change].text = branches[j.change].point
  /\ j.step = "pull" =>
       /\ branches[j.change].made /\ branches[j.change].repo = j.repo
       /\ Grown(branches[j.change], j.change)
  /\ j.step \in {"request", "author", "say", "close"} => j.number \in DOMAIN proposals[j.repo]
  /\ j.step \in {"say", "close"} => proposals[j.repo][j.number].author = j.actor

\* Two calls never work on one branch.
CallsApart ==
  \A t, u \in Threads :
    call[t].step \in AskingSteps /\ call[u].step \in AskingSteps /\ t # u =>
      call[t].change # call[u].change

DInv ==
  /\ TypeOK
  /\ LedgerOK
  /\ \A t \in Threads : CallOK(call[t])
  /\ CallsApart

-------------------------------------------------------------------------------
(***************************************************************************)
(* What a step leaves alone.                                               *)
(***************************************************************************)

\* The host and the record of answers go on, but for the change `mine`.
SparedBut(mine) ==
  /\ changes' \in Nat /\ changes <= changes'
  /\ \A c \in 1 .. changes : c # mine => branches'[c] = branches[c] /\ told'[c] = told[c]
  /\ \A r \in Repos : \A n \in DOMAIN proposals[r] :
       /\ n \in DOMAIN proposals'[r]
       /\ proposals'[r][n].author = proposals[r][n].author
       /\ proposals'[r][n].change = proposals[r][n].change
  /\ \A r \in Repos : \A n \in DOMAIN proposals'[r] :
       n \in DOMAIN proposals[r] \/ proposals'[r][n].change = mine

\* What a call carries, by the request it is at.
LEMMA CallFacts ==
  ASSUME NEW j \in Calls
  PROVE  /\ j.step \in AskingSteps =>
              j \in [step : AskingSteps, actor : Actors, repo : Repos, change : Changes,
                     sha : Texts, head : Texts]
         /\ j.step \in {"find", "request", "author", "say", "close"} =>
              j \in [step : {"find", "request", "author", "say", "close"}, actor : Actors,
                     repo : Repos, number : Changes, purpose : {"review", "abandon"}]
         /\ j.step \notin AskingSteps \cup {"find", "request", "author", "say", "close"} =>
              j.step = "idle" /\ j = [step |-> "idle"]
<1>1. CASE j \in [step : {"idle"}]
  BY <1>1 DEF AskingSteps
<1>2. CASE j \in [step : {"check", "ref", "branch", "put", "pull"}, actor : Actors, repo : Repos,
                  change : Changes, sha : Texts, head : Texts]
  BY <1>2 DEF AskingSteps
<1>3. CASE j \in [step : {"find", "request", "author", "say", "close"}, actor : Actors,
                  repo : Repos, number : Changes, purpose : {"review", "abandon"}]
  BY <1>3 DEF AskingSteps
<1> QED
  BY <1>1, <1>2, <1>3 DEF Calls

\* The types as numbers and functions.
LEMMA TypeFacts ==
  ASSUME TypeOK
  PROVE  /\ changes \in Nat /\ changes <= MaxChanges /\ MaxChanges \in Nat
         /\ DOMAIN branches = 1 .. changes /\ DOMAIN told = 1 .. changes
         /\ Len(branches) = changes /\ Len(told) = changes
         /\ \A c \in 1 .. changes : branches[c] \in Branches
         /\ \A r \in Repos : /\ Len(proposals[r]) \in Nat
                             /\ DOMAIN proposals[r] = 1 .. Len(proposals[r])
                             /\ \A n \in DOMAIN proposals[r] : proposals[r][n] \in Proposals
         /\ \A t \in Threads : call[t] \in Calls
  BY LenProperties, ElementOfSeq, BoundsAssumption DEF TypeOK

\* A call that does not work on the change keeps knowing what it knows.
LEMMA CallStays ==
  ASSUME TypeOK, NEW mine, SparedBut(mine), NEW j \in Calls, CallOK(j),
         j.step \in AskingSteps => j.change # mine
  PROVE  CallOK(j)'
<1>1. changes \in Nat /\ changes' \in Nat /\ changes <= changes'
  BY TypeFacts DEF SparedBut
<1>2. CASE j.step \in AskingSteps
  <2>1. /\ j.change \in 1 .. changes /\ j.change \in 1 .. changes'
        /\ branches'[j.change] = branches[j.change] /\ told'[j.change] = told[j.change]
    BY <1>1, <1>2 DEF CallOK, SparedBut
  <2>2. \A r \in Repos : \A n \in DOMAIN proposals'[r] : proposals'[r][n].change # j.change
    BY <1>2 DEF CallOK, SparedBut
  <2> QED
    BY <1>2, <2>1, <2>2 DEF CallOK, AskingSteps, Grown
<1>3. CASE j.step \notin AskingSteps
  <2>1. j.step \in {"find", "request", "author", "say", "close"} => j.repo \in Repos
    BY CallFacts
  <2> QED
    BY <1>3, <2>1 DEF CallOK, AskingSteps, SparedBut
<1> QED
  BY <1>2, <1>3

\* One call goes on.
LEMMA CallsStep ==
  ASSUME DInv, NEW t \in Threads, NEW new \in Calls, call' = [call EXCEPT ![t] = new],
         NEW mine, SparedBut(mine),
         mine \notin 1 .. changes \/ (call[t].step \in AskingSteps /\ mine = call[t].change),
         new.step \in AskingSteps =>
           \/ call[t].step \in AskingSteps /\ new.change = call[t].change
           \/ new.change \notin 1 .. changes,
         CallOK(new)'
  PROVE  /\ call' \in [Threads -> Calls]
         /\ \A u \in Threads : CallOK(call[u])'
         /\ CallsApart'
<1>1. /\ TypeOK /\ CallsApart /\ call \in [Threads -> Calls]
      /\ \A u \in Threads : call[u] \in Calls /\ CallOK(call[u])
  BY DEF DInv, TypeOK
<1>2. call'[t] = new /\ \A u \in Threads \ {t} : call'[u] = call[u]
  BY <1>1
<1>3. \A u \in Threads : call[u].step \in AskingSteps => call[u].change \in 1 .. changes
  BY <1>1 DEF CallOK
<1>4. ASSUME NEW u \in Threads \ {t} PROVE CallOK(call[u])'
  <2>1. PICK j : j = call[u]
    OBVIOUS
  <2>2. j.step \in AskingSteps => j.change # mine
    BY <1>1, <1>3, <2>1 DEF CallsApart
  <2>3. CallOK(j)'
    BY <1>1, <2>1, <2>2, CallStays
  <2> QED
    BY <1>2, <2>1, <2>3 DEF CallOK
<1>5. CallOK(call[t])'
  BY <1>2 DEF CallOK
<1>6. CallsApart'
  BY <1>1, <1>2, <1>3 DEF CallsApart
<1> QED
  BY <1>1, <1>4, <1>5, <1>6

\* Nobody calls: what every call knows stays true.
LEMMA CallsRest ==
  ASSUME DInv, UNCHANGED call, NEW mine, SparedBut(mine), mine \notin 1 .. changes
  PROVE  /\ call' \in [Threads -> Calls]
         /\ \A u \in Threads : CallOK(call[u])'
         /\ CallsApart'
<1>1. TypeOK /\ CallsApart /\ call \in [Threads -> Calls]
  BY DEF DInv, TypeOK
<1>2. ASSUME NEW u \in Threads PROVE CallOK(call[u])'
  <2>1. PICK j \in Calls : j = call[u] /\ CallOK(j)
    BY <1>1 DEF DInv
  <2>2. CallOK(j)'
    BY <1>1, <2>1, CallStays DEF CallOK
  <2> QED
    BY <2>1, <2>2 DEF CallOK
<1> QED
  BY <1>1, <1>2 DEF CallsApart

\* The ledger as long as no proposal is made.
LEMMA LedgerStays ==
  ASSUME DInv, NEW mine, SparedBut(mine),
         \A r \in Repos : DOMAIN proposals'[r] = DOMAIN proposals[r],
         \A r \in Repos : \A n \in DOMAIN proposals[r] :
           /\ proposals[r][n].change # mine
           /\ proposals'[r][n].farewells \subseteq {proposals[r][n].author},
         \A c \in 1 .. changes' : c = mine \/ c \notin 1 .. changes => ~told'[c].ok
  PROVE  LedgerOK'
<1>1. LedgerOK /\ changes \in Nat /\ changes' \in Nat /\ changes <= changes'
  BY TypeFacts DEF DInv, SparedBut
<1>2. \A c \in 1 .. changes : told[c].ok => branches[c].repo \in Repos
  <2>1. \A c \in 1 .. changes : branches[c] \in Branches
    BY TypeFacts DEF DInv
  <2> QED
    BY <1>1, <2>1 DEF LedgerOK, Branches
<1>3. ASSUME NEW c \in 1 .. changes', told'[c].ok
      PROVE  /\ branches'[c].made
             /\ told'[c].number \in DOMAIN proposals'[branches'[c].repo]
             /\ proposals'[branches'[c].repo][told'[c].number].change = c
  <2>1. c \in 1 .. changes /\ told'[c] = told[c] /\ branches'[c] = branches[c]
    BY <1>1, <1>3 DEF SparedBut
  <2> QED
    BY <1>1, <1>2, <1>3, <2>1 DEF LedgerOK, SparedBut
<1>4. ASSUME NEW r \in Repos, NEW n \in DOMAIN proposals'[r]
      PROVE  LET p == proposals'[r][n]
                 branch == branches'[p.change]
             IN  /\ p.change \in 1 .. changes'
                 /\ branch.made /\ branch.repo = r /\ Grown(branch, p.change)
                 /\ p.farewells \subseteq {p.author}
  <2>1. /\ n \in DOMAIN proposals[r]
        /\ proposals'[r][n].change = proposals[r][n].change
        /\ proposals'[r][n].author = proposals[r][n].author
    BY <1>4 DEF SparedBut
  <2>2. /\ proposals[r][n].change \in 1 .. changes /\ proposals[r][n].change \in 1 .. changes'
        /\ branches'[proposals[r][n].change] = branches[proposals[r][n].change]
    BY <1>1, <2>1 DEF LedgerOK, SparedBut
  <2> QED
    BY <1>1, <2>1, <2>2 DEF LedgerOK
<1>5. \A r \in Repos : \A m, n \in DOMAIN proposals'[r] :
        proposals'[r][m].change = proposals'[r][n].change => m = n
  BY <1>1 DEF LedgerOK, SparedBut
<1> QED
  BY <1>3, <1>4, <1>5 DEF LedgerOK, Grown

-------------------------------------------------------------------------------
(***************************************************************************)
(* The requests of a call.                                                 *)
(***************************************************************************)

\* A step that moves one call, and may answer Failed for the change the call works on.
LEMMA MoveStep ==
  ASSUME DInv, NEW t \in Threads, NEW new \in Calls, call' = [call EXCEPT ![t] = new],
         UNCHANGED <<world, branches, proposals, changes, moves>>,
         talks' \in 0 .. MaxTalks,
         \/ UNCHANGED told
         \/ call[t].step \in AskingSteps /\ Tell(call[t].change, Failed),
         new.step \in AskingSteps => call[t].step \in AskingSteps /\ new.change = call[t].change,
         CallOK(new)
  PROVE  DInv'
<1>1. /\ TypeOK /\ LedgerOK /\ CallOK(call[t])
      /\ changes \in Nat /\ Len(told) = changes /\ DOMAIN told = 1 .. changes
  BY TypeFacts DEF DInv
<1>2. PICK mine : mine = IF told' = told THEN 0 ELSE call[t].change
  OBVIOUS
<1>3. mine \notin 1 .. changes \/ (call[t].step \in AskingSteps /\ mine = call[t].change)
  BY <1>2
<1>4. /\ told' \in Seq([ok : {FALSE}] \cup [ok : {TRUE}, number : Changes]) /\ Len(told') = changes
      /\ \A c \in 1 .. changes : c # mine => told'[c] = told[c]
      /\ \A c \in 1 .. changes : c = mine => ~told'[c].ok
  <2>1. CASE told' = told
    BY <1>1, <1>2, <2>1 DEF TypeOK
  <2>2. CASE told' # told
    <3>1. call[t].change \in 1 .. Len(told) /\ mine = call[t].change
      BY <1>1, <1>2, <2>2 DEF CallOK
    <3>2. /\ told \in Seq([ok : {FALSE}] \cup [ok : {TRUE}, number : Changes])
          /\ Failed \in [ok : {FALSE}] \cup [ok : {TRUE}, number : Changes]
          /\ told' = [told EXCEPT ![mine] = Failed]
      BY <1>1, <2>2, <3>1 DEF TypeOK, Failed, Tell
    <3>3. PICK old, all : old = told /\ all = [ok : {FALSE}] \cup [ok : {TRUE}, number : Changes]
      OBVIOUS
    <3>4. old \in Seq(all) /\ mine \in 1 .. Len(old) /\ Failed \in all
      BY <3>1, <3>2, <3>3
    <3>5. /\ [old EXCEPT ![mine] = Failed] \in Seq(all)
          /\ Len([old EXCEPT ![mine] = Failed]) = Len(old)
          /\ \A c \in 1 .. Len(old) : [old EXCEPT ![mine] = Failed][c] = IF c = mine THEN Failed ELSE old[c]
      BY <3>4, ExceptSeq
    <3> QED
      BY <1>1, <3>2, <3>3, <3>5 DEF Failed
  <2> QED
    BY <2>1, <2>2
<1>5. SparedBut(mine)
  BY <1>1, <1>4 DEF SparedBut
<1>6. CallOK(new)'
  <2>1. new.step \in AskingSteps => ~told'[new.change].ok
    BY <1>1, <1>2, <1>4 DEF CallOK
  <2> QED
    BY <2>1 DEF CallOK, Grown
<1>7. /\ call' \in [Threads -> Calls] /\ \A u \in Threads : CallOK(call[u])'
      /\ CallsApart'
  BY <1>3, <1>5, <1>6, CallsStep
<1>8. LedgerOK'
  <2>1. \A r \in Repos : \A n \in DOMAIN proposals[r] : proposals[r][n].change # mine
    BY <1>1, <1>3 DEF CallOK, LedgerOK
  <2>2. \A r \in Repos : \A n \in DOMAIN proposals[r] :
          proposals'[r][n].farewells \subseteq {proposals[r][n].author}
    BY <1>1 DEF LedgerOK
  <2>3. \A c \in 1 .. changes' : c = mine \/ c \notin 1 .. changes => ~told'[c].ok
    BY <1>4
  <2> QED
    BY <1>5, <2>1, <2>2, <2>3, LedgerStays
<1>9. TypeOK'
  BY <1>1, <1>4, <1>7 DEF TypeOK, world
<1> QED
  BY <1>7, <1>8, <1>9 DEF DInv

\* Failures, questions and refusals.
LEMMA PlainSteps ==
  ASSUME DInv, NEW t \in Threads,
         \/ RequestFails(t)
         \/ \E answered \in BOOLEAN : RefuseIfPresent(t, answered)
         \/ GetRef(t)
         \/ \E a \in Actors, n \in Changes, purpose \in {"review", "abandon"} : Talk(t, a, n, purpose)
         \/ OpenProposal(t)
         \/ CheckAuthor(t)
  PROVE  DInv'
<1>1. /\ TypeOK /\ call[t] \in Calls /\ CallOK(call[t]) /\ call \in [Threads -> Calls]
      /\ talks \in 0 .. MaxTalks
  BY DEF DInv, TypeOK
<1>2. PICK j \in Calls : j = call[t] /\ CallOK(j)
  BY <1>1
<1>3. PICK out : out = [step |-> "idle"]
  OBVIOUS
<1>4. out \in Calls /\ CallOK(out) /\ out.step \notin AskingSteps
  BY <1>3 DEF Calls, CallOK, AskingSteps
<1>5. CASE RequestFails(t)
  BY <1>1, <1>3, <1>4, <1>5, MoveStep DEF RequestFails, GiveUp, Proposing, AskingSteps, counts
<1>6. ASSUME NEW answered \in BOOLEAN, RefuseIfPresent(t, answered) PROVE DInv'
  <2>1. j.step = "check"
    BY <1>2, <1>6 DEF RefuseIfPresent
  <2>2. PICK new : new = [j EXCEPT !.step = "ref"]
    OBVIOUS
  <2>3. new \in Calls /\ new.step = "ref" /\ new.change = j.change
    BY <2>1, <2>2, CallFacts DEF AskingSteps, Calls
  <2>4. CallOK(new)
    BY <1>2, <2>1, <2>3 DEF CallOK, AskingSteps
  <2>5. \/ call' = [call EXCEPT ![t] = out] /\ Tell(call[t].change, Failed)
        \/ call' = [call EXCEPT ![t] = new] /\ UNCHANGED told
    BY <1>1, <1>2, <1>3, <1>6, <2>2 DEF RefuseIfPresent, GiveUp, Goto
  <2>6. UNCHANGED <<world, branches, proposals, changes, moves, talks>>
    BY <1>6 DEF RefuseIfPresent, counts
  <2>7. call[t].step \in AskingSteps
    BY <1>2, <2>1 DEF AskingSteps
  <2>8. talks' \in 0 .. MaxTalks
    BY <1>1, <2>6
  <2> QED
    BY <1>2, <1>4, <2>3, <2>4, <2>5, <2>6, <2>7, <2>8, MoveStep
<1>7. CASE GetRef(t)
  <2>1. j.step = "ref" /\ j.repo \in Repos
    BY <1>2, <1>7, CallFacts DEF GetRef, AskingSteps
  <2>2. PICK new : new = [j EXCEPT !.step = "branch", !.head = base[j.repo]]
    OBVIOUS
  <2>3. new \in Calls /\ new.step = "branch" /\ new.change = j.change
    <3>1. base[j.repo] \in Texts
      BY <1>1, <2>1 DEF TypeOK
    <3>2. j \in [step : AskingSteps, actor : Actors, repo : Repos, change : Changes,
                 sha : Texts, head : Texts]
      BY <2>1, CallFacts DEF AskingSteps
    <3>3. new \in [step : AskingSteps, actor : Actors, repo : Repos, change : Changes,
                   sha : Texts, head : Texts] /\ new.step = "branch" /\ new.change = j.change
      BY <2>2, <3>1, <3>2 DEF AskingSteps
    <3> QED
      BY <3>3 DEF Calls, AskingSteps
  <2>4. CallOK(new)
    BY <1>2, <2>1, <2>3 DEF CallOK, AskingSteps
  <2>5. call' = [call EXCEPT ![t] = new] /\ UNCHANGED told
    BY <1>1, <1>2, <1>7, <2>2 DEF GetRef
  <2>6. UNCHANGED <<world, branches, proposals, changes, moves, talks>>
    BY <1>7 DEF GetRef, counts
  <2>7. talks' \in 0 .. MaxTalks
    BY <1>1, <2>6
  <2>8. call[t].step \in AskingSteps
    BY <1>2, <2>1 DEF AskingSteps
  <2> QED
    BY <1>2, <2>3, <2>4, <2>5, <2>6, <2>7, <2>8, MoveStep
<1>8. ASSUME NEW a \in Actors, NEW n \in Changes, NEW purpose \in {"review", "abandon"},
             Talk(t, a, n, purpose)
      PROVE  DInv'
  <2>1. PICK new : new = [step |-> "find", actor |-> a, repo |-> review, number |-> n,
                          purpose |-> purpose]
    OBVIOUS
  <2>2. review \in Repos
    BY <1>1, <1>8 DEF Talk, TypeOK
  <2>3. new \in Calls /\ CallOK(new) /\ new.step \notin AskingSteps
    BY <2>1, <2>2 DEF Calls, CallOK, AskingSteps
  <2>4. /\ call' = [call EXCEPT ![t] = new] /\ UNCHANGED told
        /\ UNCHANGED <<world, branches, proposals, changes, moves>>
    BY <1>8, <2>1 DEF Talk
  <2>5. talks' \in 0 .. MaxTalks
    BY <1>1, <1>8, BoundsAssumption DEF Talk
  <2> QED
    BY <2>3, <2>4, <2>5, MoveStep
<1>9. CASE OpenProposal(t) \/ CheckAuthor(t)
  <2>1. \/ j.step = "find"
        \/ j.step = "author"
    BY <1>2, <1>9 DEF OpenProposal, CheckAuthor
  <2>2. \/ call' = [call EXCEPT ![t] = out]
        \/ \E at \in {"request", "author"} :
             /\ call' = [call EXCEPT ![t] = [j EXCEPT !.step = at]]
             /\ j.number \in DOMAIN proposals[j.repo]
        \/ /\ call' = [call EXCEPT ![t] = [j EXCEPT !.step = "say"]]
           /\ j.number \in DOMAIN proposals[j.repo]
           /\ proposals[j.repo][j.number].author = j.actor
    BY <1>1, <1>2, <1>3, <1>9 DEF OpenProposal, CheckAuthor, Goto, GiveUp, Target, CallOK
  <2>3. ASSUME NEW at \in {"request", "author", "say"}
        PROVE  LET new == [j EXCEPT !.step = at]
               IN  /\ new \in Calls /\ new.step = at /\ new.repo = j.repo
                   /\ new.number = j.number /\ new.actor = j.actor
    BY <2>1, CallFacts DEF Calls
  <2>4. PICK new \in Calls : /\ call' = [call EXCEPT ![t] = new]
                             /\ new.step \notin AskingSteps /\ CallOK(new)
    <3>1. CASE call' = [call EXCEPT ![t] = out]
      BY <1>4, <3>1
    <3>2. ASSUME NEW at \in {"request", "author", "say"},
                 call' = [call EXCEPT ![t] = [j EXCEPT !.step = at]],
                 j.number \in DOMAIN proposals[j.repo],
                 at = "say" => proposals[j.repo][j.number].author = j.actor
          PROVE  [j EXCEPT !.step = at] \in Calls /\ [j EXCEPT !.step = at].step \notin AskingSteps
                 /\ CallOK([j EXCEPT !.step = at])
      <4>1. PICK new : new = [j EXCEPT !.step = at]
        OBVIOUS
      <4>2. /\ new \in Calls /\ new.step = at /\ new.repo = j.repo
            /\ new.number = j.number /\ new.actor = j.actor
        BY <2>3, <4>1
      <4>3. CallOK(new) /\ new.step \notin AskingSteps
        BY <3>2, <4>2 DEF CallOK, AskingSteps
      <4> QED
        BY <4>1, <4>2, <4>3
    <3> QED
      BY <2>2, <3>1, <3>2
  <2>5. UNCHANGED <<world, branches, proposals, changes, moves, talks, told>>
    BY <1>9 DEF OpenProposal, CheckAuthor, counts
  <2>6. talks' \in 0 .. MaxTalks
    BY <1>1, <2>5
  <2> QED
    BY <2>4, <2>5, <2>6, MoveStep
<1> QED
  BY <1>5, <1>6, <1>7, <1>8, <1>9

Answers == [ok : {FALSE}] \cup [ok : {TRUE}, number : Changes]

\* A change begins: it has no branch and no answer yet.
LEMMA ChangeBegins ==
  ASSUME DInv, changes < MaxChanges, changes' = changes + 1,
         told' = Append(told, Failed), branches' = Append(branches, [made |-> FALSE]),
         UNCHANGED proposals
  PROVE  /\ changes' \in 0 .. MaxChanges /\ changes' \in Changes
         /\ branches' \in Seq(Branches) /\ Len(branches') = changes'
         /\ told' \in Seq(Answers) /\ Len(told') = changes'
         /\ SparedBut(0) /\ ~told'[changes'].ok
         /\ LedgerOK'
<1>1. /\ TypeOK /\ LedgerOK /\ changes \in Nat /\ MaxChanges \in Nat
      /\ Len(told) = changes /\ Len(branches) = changes
  BY TypeFacts DEF DInv
<1>2. /\ told \in Seq(Answers) /\ branches \in Seq(Branches)
      /\ Failed \in Answers /\ [made |-> FALSE] \in Branches
  BY <1>1 DEF TypeOK, Answers, Failed, Branches
<1>3. PICK old, was, none : old = told /\ was = branches /\ none = [made |-> FALSE]
  OBVIOUS
<1>4. /\ Append(old, Failed) \in Seq(Answers) /\ Len(Append(old, Failed)) = Len(old) + 1
      /\ \A c \in 1 .. Len(old) : Append(old, Failed)[c] = old[c]
      /\ Append(old, Failed)[Len(old) + 1] = Failed
  BY <1>2, <1>3, AppendProperties
<1>5. /\ Append(was, none) \in Seq(Branches) /\ Len(Append(was, none)) = Len(was) + 1
      /\ \A c \in 1 .. Len(was) : Append(was, none)[c] = was[c]
  BY <1>2, <1>3, AppendProperties
<1>6. /\ changes' \in 0 .. MaxChanges /\ changes' \in Changes
      /\ branches' \in Seq(Branches) /\ Len(branches') = changes'
      /\ told' \in Seq(Answers) /\ Len(told') = changes' /\ ~told'[changes'].ok
  BY <1>1, <1>3, <1>4, <1>5 DEF Changes, Failed
<1>7. \A c \in 1 .. changes : told'[c] = told[c] /\ branches'[c] = branches[c]
  BY <1>1, <1>3, <1>4, <1>5
<1>8. SparedBut(0)
  BY <1>1, <1>6, <1>7 DEF SparedBut
<1>9. LedgerOK'
  <2>1. \A r \in Repos : \A n \in DOMAIN proposals[r] :
          /\ proposals[r][n].change # 0
          /\ proposals'[r][n].farewells \subseteq {proposals[r][n].author}
    BY <1>1 DEF LedgerOK
  <2>2. \A c \in 1 .. changes' : c = 0 \/ c \notin 1 .. changes => ~told'[c].ok
    BY <1>1, <1>6
  <2> QED
    BY <1>8, <2>1, <2>2, LedgerStays
<1> QED
  BY <1>6, <1>8, <1>9

\* docs.create and docs.update, past the gate.
LEMMA ProposeStep ==
  ASSUME DInv, NEW t \in Threads, NEW a \in Actors, NEW update \in BOOLEAN, Propose(t, a, update)
  PROVE  DInv'
<1>1. TypeOK /\ LedgerOK /\ changes \in Nat /\ review \in Repos /\ had[a] \in Texts
  BY TypeFacts DEF DInv, TypeOK, Propose
<1>2. /\ changes < MaxChanges /\ changes' = changes + 1
      /\ told' = Append(told, Failed) /\ branches' = Append(branches, [made |-> FALSE])
      /\ UNCHANGED <<review, base, corpus, had, proposals, moves, talks>>
  BY DEF Propose, world
<1>3. /\ changes' \in 0 .. MaxChanges /\ changes' \in Changes
      /\ branches' \in Seq(Branches) /\ Len(branches') = changes'
      /\ told' \in Seq(Answers) /\ Len(told') = changes'
      /\ SparedBut(0) /\ ~told'[changes'].ok
      /\ LedgerOK'
  BY <1>2, ChangeBegins
<1>4. PICK new, n : /\ n = changes'
                    /\ new = [step |-> IF update THEN "ref" ELSE "check", actor |-> a, repo |-> review,
                              change |-> n, sha |-> IF update THEN had[a] ELSE NoDoc, head |-> NoDoc]
  OBVIOUS
<1>5. new \in Calls
  <2>1. NoDoc \in Texts /\ (IF update THEN had[a] ELSE NoDoc) \in Texts
    <3>1. NoDoc \in Texts
      BY DEF Texts
    <3> QED
      BY <1>1, <3>1
  <2>2. (IF update THEN "ref" ELSE "check") \in {"check", "ref", "branch", "put", "pull"}
    OBVIOUS
  <2>3. n \in Changes
    BY <1>3, <1>4
  <2> QED
    BY <1>1, <1>4, <2>1, <2>2, <2>3 DEF Calls
<1>6. call' = [call EXCEPT ![t] = new]
  BY <1>4 DEF Propose
<1>7. CallOK(new)'
  <2>1. \A r \in Repos : \A m \in DOMAIN proposals'[r] : proposals'[r][m].change # n
    BY <1>1, <1>2, <1>4 DEF LedgerOK
  <2>2. n \in 1 .. changes'
    BY <1>1, <1>2, <1>4
  <2>3. new.step \in {"ref", "check"} /\ new.change = n
    BY <1>4
  <2> QED
    BY <1>3, <1>4, <2>1, <2>2, <2>3 DEF CallOK, AskingSteps
<1>8. new.change \notin 1 .. changes /\ 0 \notin 1 .. changes
  BY <1>1, <1>2, <1>4
<1>9. call' \in [Threads -> Calls] /\ (\A u \in Threads : CallOK(call[u])') /\ CallsApart'
  BY <1>3, <1>5, <1>6, <1>7, <1>8, CallsStep
<1> QED
  BY <1>1, <1>2, <1>3, <1>9 DEF DInv, TypeOK, Answers

\* A branch is made or written.
LEMMA BranchStep ==
  ASSUME DInv, NEW t \in Threads, NEW new \in Calls, call' = [call EXCEPT ![t] = new],
         call[t].step \in AskingSteps, new.step \in AskingSteps, new.change = call[t].change,
         NEW branch \in Branches, branches' = [branches EXCEPT ![new.change] = branch],
         new.step \in {"put", "pull"}, branch.made, branch.repo = new.repo,
         new.step = "put" => branch.text = branch.point,
         new.step = "pull" => Grown(branch, new.change),
         UNCHANGED <<world, proposals, told, counts>>
  PROVE  DInv'
<1>1. /\ TypeOK /\ LedgerOK /\ CallOK(call[t])
      /\ changes \in Nat /\ Len(branches) = changes /\ DOMAIN branches = 1 .. changes
      /\ branches \in Seq(Branches)
  BY TypeFacts DEF DInv, TypeOK
<1>2. PICK c, was : c = call[t].change /\ was = branches
  OBVIOUS
<1>3. c \in 1 .. Len(was) /\ c \in 1 .. changes /\ was \in Seq(Branches)
  BY <1>1, <1>2 DEF CallOK
<1>4. /\ [was EXCEPT ![c] = branch] \in Seq(Branches)
      /\ Len([was EXCEPT ![c] = branch]) = Len(was)
      /\ \A d \in 1 .. Len(was) : [was EXCEPT ![c] = branch][d] = IF d = c THEN branch ELSE was[d]
  BY <1>3, ExceptSeq
<1>5. /\ branches' \in Seq(Branches) /\ Len(branches') = changes' /\ branches'[c] = branch
      /\ \A d \in 1 .. changes : d # c => branches'[d] = branches[d]
  BY <1>1, <1>2, <1>3, <1>4 DEF counts
<1>6. SparedBut(c)
  BY <1>1, <1>5 DEF SparedBut, counts
<1>7. CallOK(new)'
  BY <1>1, <1>2, <1>5 DEF CallOK, AskingSteps, Grown, counts
<1>8. call' \in [Threads -> Calls] /\ (\A u \in Threads : CallOK(call[u])') /\ CallsApart'
  BY <1>2, <1>6, <1>7, CallsStep
<1>9. LedgerOK'
  <2>1. \A r \in Repos : \A n \in DOMAIN proposals[r] :
          /\ proposals[r][n].change # c
          /\ proposals'[r][n].farewells \subseteq {proposals[r][n].author}
    BY <1>1, <1>2 DEF CallOK, LedgerOK
  <2>2. \A d \in 1 .. changes' : d = c \/ d \notin 1 .. changes => ~told'[d].ok
    BY <1>1, <1>2 DEF CallOK, counts
  <2> QED
    BY <1>6, <2>1, <2>2, LedgerStays
<1> QED
  BY <1>1, <1>5, <1>8, <1>9 DEF DInv, TypeOK, world, counts

\* A branch at the head of the base, and the change on it if it is still what was read.
LEMMA BranchSteps ==
  ASSUME DInv, NEW t \in Threads, PostBranch(t) \/ PutContents(t)
  PROVE  DInv'
<1>1. PICK j \in Calls : j = call[t] /\ CallOK(j)
  BY DEF DInv, TypeOK
<1>2. /\ j.step \in {"branch", "put"}
      /\ j \in [step : AskingSteps, actor : Actors, repo : Repos, change : Changes,
                sha : Texts, head : Texts]
  BY <1>1, CallFacts DEF PostBranch, PutContents, AskingSteps
<1>3. ASSUME NEW at \in {"put", "pull"}
      PROVE  LET new == [j EXCEPT !.step = at]
             IN  new \in Calls /\ new.step = at /\ new.change = j.change /\ new.repo = j.repo
  BY <1>2 DEF Calls, AskingSteps
<1>4. TypeOK /\ j.change \in 1 .. changes /\ branches[j.change] \in Branches
      /\ DOMAIN branches = 1 .. changes
  BY <1>1, <1>2, TypeFacts DEF DInv, CallOK, AskingSteps
<1>5. CASE PostBranch(t)
  <2>1. PICK new, branch : /\ new = [j EXCEPT !.step = "put"]
                           /\ branch = [made |-> TRUE, repo |-> j.repo, point |-> j.head, text |-> j.head]
    OBVIOUS
  <2>2. new \in Calls /\ new.step = "put" /\ new.change = j.change /\ new.repo = j.repo
    BY <1>3, <2>1
  <2>3. branch \in Branches
    BY <1>2, <2>1 DEF Branches
  <2>4. /\ call' = [call EXCEPT ![t] = new]
        /\ branches' = [branches EXCEPT ![new.change] = branch]
        /\ UNCHANGED <<world, proposals, told, counts>>
    BY <1>1, <1>5, <2>1, <2>2 DEF PostBranch, Goto
  <2> QED
    BY <1>1, <1>2, <2>1, <2>2, <2>3, <2>4, BranchStep DEF AskingSteps
<1>6. CASE PutContents(t) /\ SentSha(t) = branches[j.change].text
  <2>1. PICK new, old, branch :
          /\ new = [j EXCEPT !.step = "pull"]
          /\ old = branches[j.change]
          /\ branch = [old EXCEPT !.text = NewText(t)]
    OBVIOUS
  <2>2. new \in Calls /\ new.step = "pull" /\ new.change = j.change /\ new.repo = j.repo
    BY <1>3, <2>1
  <2>3. /\ j.step = "put" /\ old.made /\ old.repo = j.repo /\ old.text = old.point
        /\ old \in [made : {TRUE}, repo : Repos, point : Texts, text : Texts]
    BY <1>1, <1>4, <1>6, <2>1 DEF PutContents, CallOK, Branches
  <2>4. /\ NewText(t) = (IF old.point = NoDoc THEN {} ELSE old.point) \cup {j.change}
        /\ NewText(t) \in Texts
    <3>1. j.sha = old.point
      BY <1>1, <1>6, <2>1, <2>3 DEF SentSha
    <3>2. (IF old.point = NoDoc THEN {} ELSE old.point) \subseteq Changes
      <4>1. old.point \in Texts
        BY <2>3
      <4>2. CASE old.point = NoDoc
        BY <4>2
      <4>3. CASE old.point # NoDoc
        BY <4>1, <4>3 DEF Texts
      <4> QED
        BY <4>2, <4>3
    <3> QED
      BY <1>1, <1>2, <3>1, <3>2 DEF NewText, Texts
  <2>5. branch \in Branches /\ branch.made /\ branch.repo = new.repo /\ Grown(branch, new.change)
    BY <2>1, <2>2, <2>3, <2>4 DEF Branches, Grown
  <2>6. /\ call' = [call EXCEPT ![t] = new]
        /\ branches' = [branches EXCEPT ![new.change] = branch]
        /\ UNCHANGED <<world, proposals, told, counts>>
    BY <1>1, <1>6, <2>1, <2>2 DEF PutContents, Goto
  <2> QED
    BY <1>1, <1>2, <2>2, <2>5, <2>6, BranchStep DEF AskingSteps
<1>7. CASE PutContents(t) /\ SentSha(t) # branches[j.change].text
  <2>1. PICK out : out = [step |-> "idle"]
    OBVIOUS
  <2>2. out \in Calls /\ CallOK(out) /\ out.step \notin AskingSteps
    BY <2>1 DEF Calls, CallOK, AskingSteps
  <2>3. /\ call' = [call EXCEPT ![t] = out] /\ Tell(call[t].change, Failed)
        /\ UNCHANGED <<world, branches, proposals, changes, moves, talks>>
    BY <1>1, <1>7, <2>1 DEF PutContents, GiveUp, counts
  <2>4. call[t].step \in AskingSteps /\ talks' \in 0 .. MaxTalks
    BY <1>1, <1>2, <1>4, <2>3 DEF TypeOK
  <2> QED
    BY <2>2, <2>3, <2>4, MoveStep
<1> QED
  BY <1>1, <1>5, <1>6, <1>7

\* There are no more proposals in a repository than changes, and fewer as long as one
\* change has none.
LEMMA FewerProposals ==
  ASSUME DInv, NEW r \in Repos, NEW c \in 1 .. changes,
         \A n \in DOMAIN proposals[r] : proposals[r][n].change # c
  PROVE  Len(proposals[r]) + 1 <= changes
<1>1. /\ LedgerOK /\ changes \in Nat /\ Len(proposals[r]) \in Nat
      /\ DOMAIN proposals[r] = 1 .. Len(proposals[r])
  BY TypeFacts DEF DInv
<1>2. PICK k \in Nat : k = Len(proposals[r])
  BY <1>1
<1>3. PICK S, T : S = 1 .. k + 1 /\ T = 1 .. changes
  OBVIOUS
<1>4. PICK f : f = [n \in S |-> IF n <= k THEN proposals[r][n].change ELSE c]
  OBVIOUS
<1>5. f \in [S -> T]
  BY <1>1, <1>2, <1>3, <1>4 DEF LedgerOK
<1>6. \A m, n \in S : f[m] = f[n] => m = n
  <2>1. ASSUME NEW m \in S, NEW n \in S, f[m] = f[n] PROVE m = n
    <3>1. m \in 1 .. k \/ m = k + 1
      BY <1>3
    <3>2. n \in 1 .. k \/ n = k + 1
      BY <1>3
    <3>3. \A x \in 1 .. k : f[x] = proposals[r][x].change /\ x \in DOMAIN proposals[r]
      BY <1>1, <1>2, <1>3, <1>4
    <3>4. f[k + 1] = c
      BY <1>3, <1>4
    <3>5. CASE m \in 1 .. k /\ n \in 1 .. k
      BY <1>1, <2>1, <3>3, <3>5 DEF LedgerOK
    <3>6. CASE m = k + 1 \/ n = k + 1
      BY <2>1, <3>1, <3>2, <3>3, <3>4, <3>6
    <3> QED
      BY <3>1, <3>2, <3>5, <3>6
  <2> QED
    BY <2>1
<1>7. f \in Injection(S, T)
  BY <1>5, <1>6 DEF Injection, IsInjective
<1>8. IsFiniteSet(T) /\ Cardinality(T) = changes
  BY <1>1, <1>3, FS_Interval
<1>9. Cardinality(S) = k + 1
  <2>1. 1 \in Int /\ k + 1 \in Int /\ ~(1 > k + 1) /\ k + 1 - 1 + 1 = k + 1
    OBVIOUS
  <2> QED
    BY <1>3, <2>1, FS_Interval
<1>10. Cardinality(S) <= Cardinality(T)
  BY <1>7, <1>8, FS_Injection
<1> QED
  BY <1>2, <1>8, <1>9, <1>10

\* The proposal is made, and the caller told or not.
LEMMA PullStep ==
  ASSUME DInv, NEW t \in Threads, NEW answered \in BOOLEAN, PostPull(t, answered)
  PROVE  DInv'
<1>1. PICK j \in Calls : j = call[t] /\ CallOK(j)
  BY DEF DInv, TypeOK
<1>2. /\ j.step = "pull"
      /\ j \in [step : AskingSteps, actor : Actors, repo : Repos, change : Changes,
                sha : Texts, head : Texts]
  BY <1>1, CallFacts DEF PostPull, AskingSteps
<1>3. PICK r, c, p, old : /\ r = j.repo /\ c = j.change /\ p = Proposal(t) /\ old = proposals[r]
  OBVIOUS
<1>4. /\ TypeOK /\ LedgerOK /\ c \in 1 .. changes /\ r \in Repos /\ changes \in Nat /\ changes <= MaxChanges
      /\ DOMAIN told = 1 .. changes /\ Len(told) = changes /\ ~told[c].ok
      /\ branches[c].made /\ branches[c].repo = r /\ Grown(branches[c], c)
      /\ \A q \in Repos : \A n \in DOMAIN proposals[q] : proposals[q][n].change # c
  BY <1>1, <1>2, <1>3, TypeFacts DEF DInv, CallOK, AskingSteps
<1>5. /\ p \in Proposals /\ p.change = c /\ p.author \in Actors /\ p.farewells = {}
      /\ old \in Seq(Proposals) /\ proposals \in [Repos -> Seq(Proposals)]
      /\ Len(old) \in Nat /\ DOMAIN old = 1 .. Len(old)
  <2>1. proposals \in [Repos -> Seq(Proposals)] /\ old \in Seq(Proposals)
    BY <1>3, <1>4 DEF TypeOK
  <2>2. Len(old) \in Nat /\ DOMAIN old = 1 .. Len(old)
    BY <2>1, LenProperties
  <2>3. j.change \in Changes /\ j.actor \in Actors
    BY <1>2
  <2> QED
    BY <1>1, <1>3, <2>1, <2>2, <2>3 DEF Proposal, Proposals
<1>6. PICK new : new = Append(old, p)
  OBVIOUS
<1>7. /\ new \in Seq(Proposals) /\ Len(new) = Len(old) + 1 /\ new[Len(old) + 1] = p
      /\ \A n \in 1 .. Len(old) : new[n] = old[n]
      /\ DOMAIN new = 1 .. Len(old) + 1
  <2>1. new \in Seq(Proposals)
    BY <1>5, <1>6, AppendProperties
  <2> QED
    BY <1>5, <1>6, <2>1, AppendProperties, LenProperties
<1>8. /\ proposals' = [proposals EXCEPT ![r] = new]
      /\ proposals'[r] = new /\ \A q \in Repos \ {r} : proposals'[q] = proposals[q]
      /\ call' = [call EXCEPT ![t] = [step |-> "idle"]]
      /\ UNCHANGED <<world, branches, counts>>
      /\ told' = IF answered THEN [told EXCEPT ![c] = Ok(Len(new))] ELSE told
  <2>1. /\ proposals' = [proposals EXCEPT ![r] = new]
        /\ call' = [call EXCEPT ![t] = [step |-> "idle"]]
        /\ UNCHANGED <<world, branches, counts>>
    BY <1>1, <1>3, <1>6 DEF PostPull, GiveUp
  <2>2. proposals'[r] = new /\ \A q \in Repos \ {r} : proposals'[q] = proposals[q]
    BY <1>4, <1>5, <2>1
  <2>3. told' = IF answered THEN [told EXCEPT ![c] = Ok(Len(new))] ELSE told
    BY <1>1, <1>3, <2>2 DEF PostPull, Tell
  <2> QED
    BY <2>1, <2>2, <2>3
<1>9. Len(new) \in Changes
  <2>1. Len(old) + 1 <= changes
    BY <1>3, <1>4, FewerProposals
  <2> QED
    BY <1>4, <1>5, <1>7, <2>1, TypeFacts DEF Changes
<1>10. /\ told' \in Seq(Answers) /\ Len(told') = changes
       /\ \A d \in 1 .. changes : d # c => told'[d] = told[d]
       /\ told'[c].ok => told'[c].number = Len(old) + 1
  <2>1. PICK was, ok : was = told /\ ok = Ok(Len(new))
    OBVIOUS
  <2>2. /\ was \in Seq(Answers) /\ ok \in Answers /\ c \in 1 .. Len(was)
        /\ ok.ok /\ ok.number = Len(old) + 1
    BY <1>4, <1>7, <1>9, <2>1 DEF TypeOK, Answers, Ok
  <2>3. /\ [was EXCEPT ![c] = ok] \in Seq(Answers) /\ Len([was EXCEPT ![c] = ok]) = Len(was)
        /\ \A d \in 1 .. Len(was) : [was EXCEPT ![c] = ok][d] = IF d = c THEN ok ELSE was[d]
    BY <2>2, ExceptSeq
  <2> QED
    BY <1>4, <1>8, <2>1, <2>2, <2>3
<1>11. SparedBut(c)
  <2>1. \A q \in Repos : \A n \in DOMAIN proposals[q] :
          n \in DOMAIN proposals'[q] /\ proposals'[q][n] = proposals[q][n]
    <3>1. \A n \in DOMAIN proposals[r] :
            n \in DOMAIN proposals'[r] /\ proposals'[r][n] = proposals[r][n]
      BY <1>3, <1>5, <1>7, <1>8
    <3> QED
      BY <1>8, <3>1
  <2>2. \A q \in Repos : \A n \in DOMAIN proposals'[q] :
          n \in DOMAIN proposals[q] \/ proposals'[q][n].change = c
    BY <1>3, <1>5, <1>7, <1>8
  <2> QED
    BY <1>4, <1>8, <1>10, <2>1, <2>2 DEF SparedBut, counts
<1>12. /\ call' \in [Threads -> Calls] /\ (\A u \in Threads : CallOK(call[u])') /\ CallsApart'
  <2>1. PICK out : out = [step |-> "idle"]
    OBVIOUS
  <2>2. out \in Calls /\ CallOK(out)' /\ out.step \notin AskingSteps
    BY <2>1 DEF Calls, CallOK, AskingSteps
  <2>3. call[t].step \in AskingSteps /\ c = call[t].change
    BY <1>1, <1>2, <1>3
  <2>4. call' = [call EXCEPT ![t] = out]
    BY <1>8, <2>1
  <2> QED
    BY <1>11, <2>2, <2>3, <2>4, CallsStep
<1>13. LedgerOK'
  <2>0. branches' = branches /\ changes' = changes
    BY <1>8 DEF counts
  <2>1. \A d \in 1 .. changes : told[d].ok => branches[d].repo \in Repos
    <3>1. \A d \in 1 .. changes : branches[d] \in Branches
      BY <1>4, TypeFacts
    <3> QED
      BY <1>4, <3>1 DEF LedgerOK, Branches
  <2>2. ASSUME NEW d \in 1 .. changes', told'[d].ok
        PROVE  /\ branches'[d].made
               /\ told'[d].number \in DOMAIN proposals'[branches'[d].repo]
               /\ proposals'[branches'[d].repo][told'[d].number].change = d
    <3>1. CASE d = c
      BY <1>4, <1>5, <1>7, <1>8, <1>10, <2>0, <2>2, <3>1
    <3>2. CASE d # c
      <4>1. told'[d] = told[d] /\ told[d].ok /\ d \in 1 .. changes
        BY <1>10, <2>0, <2>2, <3>2
      <4> QED
        BY <1>4, <1>11, <2>0, <2>1, <4>1 DEF LedgerOK, SparedBut
    <3> QED
      BY <3>1, <3>2
  <2>3. ASSUME NEW q \in Repos, NEW n \in DOMAIN proposals'[q]
        PROVE  LET a == proposals'[q][n]
                   branch == branches'[a.change]
               IN  /\ a.change \in 1 .. changes'
                   /\ branch.made /\ branch.repo = q /\ Grown(branch, a.change)
                   /\ a.farewells \subseteq {a.author}
    <3>1. \/ n \in DOMAIN proposals[q] /\ proposals'[q][n] = proposals[q][n]
          \/ q = r /\ proposals'[q][n] = p
      <4>1. CASE q = r
        <5>1. n \in 1 .. Len(old) + 1 /\ proposals'[q][n] = new[n]
          BY <1>7, <1>8, <2>3, <4>1
        <5>2. n \in 1 .. Len(old) \/ n = Len(old) + 1
          BY <1>5, <5>1
        <5> QED
          BY <1>3, <1>5, <1>7, <4>1, <5>1, <5>2
      <4>2. CASE q # r
        BY <1>8, <2>3, <4>2
      <4> QED
        BY <4>1, <4>2
    <3> QED
      BY <1>4, <1>5, <2>0, <3>1 DEF LedgerOK
  <2>4. ASSUME NEW q \in Repos, NEW m \in DOMAIN proposals'[q], NEW n \in DOMAIN proposals'[q],
               proposals'[q][m].change = proposals'[q][n].change
        PROVE  m = n
    <3>1. \A k \in DOMAIN proposals'[q] :
            \/ k \in DOMAIN proposals[q] /\ proposals'[q][k] = proposals[q][k]
            \/ q = r /\ proposals'[q][k].change = c /\ k = Len(old) + 1
      BY <1>3, <1>5, <1>7, <1>8
    <3> QED
      BY <1>4, <2>4, <3>1 DEF LedgerOK
  <2> QED
    BY <2>2, <2>3, <2>4 DEF LedgerOK, Grown
<1>14. TypeOK'
  <2>1. proposals' \in [Repos -> Seq(Proposals)]
    BY <1>4, <1>5, <1>7, <1>8
  <2> QED
    BY <1>4, <1>8, <1>10, <1>12, <2>1 DEF TypeOK, Answers, world, counts
<1> QED
  BY <1>12, <1>13, <1>14 DEF DInv

-------------------------------------------------------------------------------
(***************************************************************************)
(* What is done to a proposal, to the documents and to the registry.       *)
(***************************************************************************)

\* A proposal that keeps its author and its change, and says nothing its author did not.
LEMMA ProposalTouched ==
  ASSUME DInv, NEW r \in Repos, NEW n \in DOMAIN proposals[r], NEW q \in Proposals,
         q.author = proposals[r][n].author, q.change = proposals[r][n].change,
         q.farewells \subseteq {q.author},
         proposals' = [proposals EXCEPT ![r] = [proposals[r] EXCEPT ![n] = q]],
         UNCHANGED <<branches, told, changes>>
  PROVE  proposals' \in [Repos -> Seq(Proposals)] /\ SparedBut(0) /\ LedgerOK'
<1>1. /\ TypeOK /\ LedgerOK /\ changes \in Nat
      /\ proposals \in [Repos -> Seq(Proposals)] /\ proposals[r] \in Seq(Proposals)
      /\ DOMAIN proposals[r] = 1 .. Len(proposals[r])
  BY TypeFacts DEF DInv, TypeOK
<1>2. PICK old, new : old = proposals[r] /\ new = [old EXCEPT ![n] = q]
  OBVIOUS
<1>3. old \in Seq(Proposals) /\ n \in 1 .. Len(old)
  BY <1>1, <1>2
<1>4. /\ [old EXCEPT ![n] = q] \in Seq(Proposals) /\ Len([old EXCEPT ![n] = q]) = Len(old)
      /\ \A m \in 1 .. Len(old) : [old EXCEPT ![n] = q][m] = IF m = n THEN q ELSE old[m]
  BY <1>3, ExceptSeq
<1>5. new \in Seq(Proposals) /\ DOMAIN new = DOMAIN old
      /\ \A m \in DOMAIN old : new[m] = IF m = n THEN q ELSE old[m]
  BY <1>1, <1>2, <1>4
<1>6. /\ proposals' \in [Repos -> Seq(Proposals)]
      /\ proposals'[r] = new /\ \A x \in Repos \ {r} : proposals'[x] = proposals[x]
  BY <1>1, <1>2, <1>5
<1>7. \A x \in Repos : DOMAIN proposals'[x] = DOMAIN proposals[x]
  BY <1>2, <1>5, <1>6
<1>8. ASSUME NEW x \in Repos, NEW m \in DOMAIN proposals[x]
      PROVE  /\ proposals'[x][m].author = proposals[x][m].author
             /\ proposals'[x][m].change = proposals[x][m].change
             /\ proposals'[x][m].farewells \subseteq {proposals[x][m].author}
             /\ proposals[x][m].change # 0
  <2>1. /\ proposals[x][m].farewells \subseteq {proposals[x][m].author}
        /\ proposals[x][m].change # 0
    BY <1>1, <1>8 DEF LedgerOK
  <2>2. CASE x = r /\ m = n
    BY <1>2, <1>5, <1>6, <2>1, <2>2
  <2>3. CASE ~(x = r /\ m = n)
    BY <1>2, <1>5, <1>6, <1>8, <2>1, <2>3
  <2> QED
    BY <2>2, <2>3
<1>9. SparedBut(0)
  BY <1>1, <1>7, <1>8 DEF SparedBut
<1>10. LedgerOK'
  <2>1. \A c \in 1 .. changes' : c = 0 \/ c \notin 1 .. changes => ~told'[c].ok
    BY <1>1
  <2> QED
    BY <1>7, <1>8, <1>9, <2>1, LedgerStays
<1> QED
  BY <1>6, <1>9, <1>10

\* A call does something to its proposal.
LEMMA TouchStep ==
  ASSUME DInv, NEW t \in Threads, NEW new \in Calls, call' = [call EXCEPT ![t] = new],
         new.step = "idle" \/ (new.step = "close" /\ call[t].step = "say" /\ new = [call[t] EXCEPT !.step = "close"]),
         call[t].step \in {"request", "say", "close"},
         NEW q \in Proposals,
         LET old == proposals[call[t].repo][call[t].number]
         IN  /\ q.author = old.author /\ q.change = old.change
             /\ q.farewells \subseteq old.farewells
                  \cup (IF call[t].step = "request" THEN {} ELSE {call[t].actor}),
         proposals' = [proposals EXCEPT ![call[t].repo] =
                         [proposals[call[t].repo] EXCEPT ![call[t].number] = q]],
         UNCHANGED <<world, branches, told, counts>>
  PROVE  DInv'
<1>1. PICK j \in Calls : j = call[t] /\ CallOK(j)
  BY DEF DInv, TypeOK
<1>2. j.repo \in Repos /\ j.number \in DOMAIN proposals[j.repo]
  BY <1>1, CallFacts DEF CallOK
<1>3. /\ proposals[j.repo][j.number].farewells \subseteq {proposals[j.repo][j.number].author}
      /\ j.step \in {"say", "close"} => proposals[j.repo][j.number].author = j.actor
  BY <1>1, <1>2 DEF DInv, LedgerOK, CallOK
<1>4. q.farewells \subseteq {q.author}
  BY <1>1, <1>3
<1>5. UNCHANGED <<branches, told, changes>>
  BY DEF counts
<1>6. proposals' \in [Repos -> Seq(Proposals)] /\ SparedBut(0) /\ LedgerOK'
  BY <1>1, <1>2, <1>4, <1>5, ProposalTouched
<1>7. new.step \notin AskingSteps /\ 0 \notin 1 .. changes
  BY TypeFacts DEF AskingSteps, DInv
<1>8. CallOK(new)'
  <2>1. CASE new.step = "idle"
    BY <2>1 DEF CallOK, AskingSteps
  <2>2. CASE new.step = "close" /\ j.step = "say" /\ new = [j EXCEPT !.step = "close"]
    <3>1. /\ new.repo = j.repo /\ new.number = j.number /\ new.actor = j.actor
      BY <1>1, <2>2, CallFacts
    <3>2. /\ j.number \in DOMAIN proposals'[j.repo]
          /\ proposals'[j.repo][j.number].author = j.actor
      <4>1. \A r \in Repos : \A n \in DOMAIN proposals[r] :
              n \in DOMAIN proposals'[r] /\ proposals'[r][n].author = proposals[r][n].author
        BY <1>6 DEF SparedBut
      <4> QED
        BY <1>2, <1>3, <2>2, <4>1
    <3> QED
      BY <2>2, <3>1, <3>2 DEF CallOK, AskingSteps
  <2> QED
    BY <1>1, <2>1, <2>2
<1>9. call' \in [Threads -> Calls] /\ (\A u \in Threads : CallOK(call[u])') /\ CallsApart'
  BY <1>6, <1>7, <1>8, CallsStep
<1> QED
  BY <1>6, <1>9 DEF DInv, TypeOK, world, counts

LEMMA TouchSteps ==
  ASSUME DInv, NEW t \in Threads,
         \/ PostReviewer(t)
         \/ \E message \in BOOLEAN : Say(t, message)
         \/ Close(t)
  PROVE  DInv'
<1>1. PICK j \in Calls : j = call[t] /\ CallOK(j)
  BY DEF DInv, TypeOK
<1>2. /\ j.step \in {"request", "say", "close"} /\ j.repo \in Repos /\ j.actor \in Actors
      /\ j.number \in DOMAIN proposals[j.repo]
  <2>1. j.step \in {"request", "say", "close"}
    BY <1>1 DEF PostReviewer, Say, Close
  <2> QED
    BY <1>1, <2>1, CallFacts DEF CallOK
<1>3. PICK r, n, p : r = j.repo /\ n = j.number /\ p = proposals[r][n]
  OBVIOUS
<1>4. p \in Proposals /\ proposals \in [Repos -> Seq(Proposals)]
      /\ proposals[r] \in [DOMAIN proposals[r] -> Proposals]
  BY <1>2, <1>3, TypeFacts, LenProperties DEF DInv, TypeOK
<1>5. PICK out : out = [step |-> "idle"]
  OBVIOUS
<1>6. out \in Calls
  BY <1>5 DEF Calls
<1>7. CASE PostReviewer(t)
  <2>1. PICK q : q = [p EXCEPT !.asked = TRUE]
    OBVIOUS
  <2>2. q \in Proposals /\ q.author = p.author /\ q.change = p.change /\ q.farewells = p.farewells
    BY <1>4, <2>1 DEF Proposals
  <2>3. /\ proposals' = [proposals EXCEPT ![r] = [proposals[r] EXCEPT ![n] = q]]
        /\ call' = [call EXCEPT ![t] = out] /\ j.step = "request"
        /\ UNCHANGED <<world, branches, told, counts>>
    BY <1>1, <1>2, <1>3, <1>4, <1>5, <1>7, <2>1 DEF PostReviewer, GiveUp
  <2> QED
    BY <1>1, <1>2, <1>3, <1>5, <1>6, <2>2, <2>3, TouchStep
<1>8. ASSUME NEW message \in BOOLEAN, Say(t, message) PROVE DInv'
  <2>1. PICK q : q = IF message THEN [p EXCEPT !.farewells = @ \cup {j.actor}] ELSE p
    OBVIOUS
  <2>2. /\ q \in Proposals /\ q.author = p.author /\ q.change = p.change
        /\ q.farewells \subseteq p.farewells \cup {j.actor}
    BY <1>2, <1>4, <2>1 DEF Proposals
  <2>3. PICK new : new = [j EXCEPT !.step = "close"]
    OBVIOUS
  <2>4. proposals' = [proposals EXCEPT ![r] = [proposals[r] EXCEPT ![n] = q]]
    <3>1. CASE message
      BY <1>1, <1>2, <1>3, <1>4, <1>8, <2>1, <3>1 DEF Say
    <3>2. CASE ~message
      BY <1>1, <1>2, <1>3, <1>4, <1>8, <2>1, <3>2 DEF Say
    <3> QED
      BY <3>1, <3>2
  <2>5. /\ call' = [call EXCEPT ![t] = new] /\ j.step = "say"
        /\ UNCHANGED <<world, branches, told, counts>>
    BY <1>1, <1>8, <2>3 DEF Say, Goto
  <2>6. new \in Calls /\ new.step = "close"
    BY <1>1, <2>3, <2>5, CallFacts DEF Calls
  <2> QED
    BY <1>1, <1>2, <1>3, <2>2, <2>3, <2>4, <2>5, <2>6, TouchStep
<1>9. CASE Close(t)
  <2>1. PICK q : q = IF p.state = "open"
                     THEN [p EXCEPT !.state = "closed", !.farewells = @ \cup {j.actor}] ELSE p
    OBVIOUS
  <2>2. /\ q \in Proposals /\ q.author = p.author /\ q.change = p.change
        /\ q.farewells \subseteq p.farewells \cup {j.actor}
    BY <1>2, <1>4, <2>1 DEF Proposals
  <2>3. proposals' = [proposals EXCEPT ![r] = [proposals[r] EXCEPT ![n] = q]]
    <3>1. CASE p.state = "open"
      <4>1. [p EXCEPT !.state = "closed", !.farewells = @ \cup {j.actor}]
              = [[p EXCEPT !.state = "closed"] EXCEPT !.farewells = p.farewells \cup {j.actor}]
        BY <1>4 DEF Proposals
      <4> QED
        BY <1>1, <1>2, <1>3, <1>4, <1>9, <2>1, <3>1, <4>1 DEF Close, Target
    <3>2. CASE p.state # "open"
      BY <1>1, <1>2, <1>3, <1>4, <1>9, <2>1, <3>2 DEF Close, Target
    <3> QED
      BY <3>1, <3>2
  <2>4. /\ call' = [call EXCEPT ![t] = out] /\ j.step = "close"
        /\ UNCHANGED <<world, branches, told, counts>>
    BY <1>1, <1>5, <1>9 DEF Close, GiveUp
  <2> QED
    BY <1>1, <1>2, <1>3, <1>5, <1>6, <2>2, <2>3, <2>4, TouchStep
<1> QED
  BY <1>7, <1>8, <1>9

\* What a merge leaves on the base branch.
LEMMA MergeFacts ==
  ASSUME DInv, NEW r \in Repos, NEW n \in DOMAIN proposals[r], Merge(r, n)
  PROVE  /\ base' \in [Repos -> Texts]
         /\ \A x \in Repos : base[x] # NoDoc => base'[x] # NoDoc /\ base[x] \subseteq base'[x]
<1>1. PICK branch, c : c = proposals[r][n].change /\ branch = branches[c]
  OBVIOUS
<1>2. /\ c \in Changes /\ branch.made /\ Grown(branch, c) /\ branch \in Branches
      /\ base \in [Repos -> Texts]
  BY <1>1, TypeFacts DEF DInv, LedgerOK, TypeOK, Changes
<1>3. branch.point \in Texts
  BY <1>2 DEF Branches
<1>4. PICK was : was = IF branch.point = NoDoc THEN {} ELSE branch.point
  OBVIOUS
<1>5. was \subseteq Changes
  BY <1>3, <1>4 DEF Texts
<1>6. branch.text = was \cup {c} /\ branch.text \subseteq Changes /\ was \ branch.text = {}
  BY <1>2, <1>4, <1>5 DEF Grown
<1>7. base' = [base EXCEPT ![r] = IF base[r] = NoDoc THEN branch.text ELSE base[r] \cup branch.text]
  <2>1. (IF branch.point = NoDoc THEN {} ELSE branch.point \ branch.text) = {}
    BY <1>4, <1>6
  <2> QED
    BY <1>1, <2>1 DEF Merge
<1>8. PICK text : text = IF base[r] = NoDoc THEN branch.text ELSE base[r] \cup branch.text
  OBVIOUS
<1>9. text \in SUBSET Changes /\ (base[r] # NoDoc => base[r] \subseteq text)
  <2>1. base[r] \in Texts
    BY <1>2
  <2>2. base[r] # NoDoc => base[r] \subseteq Changes
    BY <2>1 DEF Texts
  <2> QED
    BY <1>6, <1>8, <2>2
<1>10. text \in Texts /\ text # NoDoc
  BY <1>9, MarkersAssumption DEF Texts
<1> QED
  BY <1>2, <1>7, <1>8, <1>9, <1>10

LEMMA MergeStep ==
  ASSUME DInv, NEW r \in Repos, NEW n \in DOMAIN proposals[r], Merge(r, n)
  PROVE  DInv'
<1>1. PICK p, q : p = proposals[r][n] /\ q = [p EXCEPT !.state = "merged"]
  OBVIOUS
<1>2. /\ p \in Proposals /\ proposals \in [Repos -> Seq(Proposals)]
      /\ proposals[r] \in [DOMAIN proposals[r] -> Proposals]
      /\ p.farewells \subseteq {p.author}
  BY <1>1, TypeFacts, LenProperties DEF DInv, TypeOK, LedgerOK
<1>3. q \in Proposals /\ q.author = p.author /\ q.change = p.change /\ q.farewells = p.farewells
  BY <1>1, <1>2 DEF Proposals
<1>4. /\ proposals' = [proposals EXCEPT ![r] = [proposals[r] EXCEPT ![n] = q]]
      /\ UNCHANGED <<review, corpus, had, branches, call, told, counts>>
  BY <1>1, <1>2 DEF Merge
<1>5. UNCHANGED <<branches, told, changes>>
  BY <1>4 DEF counts
<1>6. proposals' \in [Repos -> Seq(Proposals)] /\ SparedBut(0) /\ LedgerOK'
  BY <1>1, <1>2, <1>3, <1>4, <1>5, ProposalTouched
<1>7. 0 \notin 1 .. changes
  OBVIOUS
<1>8. call' \in [Threads -> Calls] /\ (\A u \in Threads : CallOK(call[u])') /\ CallsApart'
  BY <1>4, <1>6, <1>7, CallsRest
<1>9. base' \in [Repos -> Texts]
  BY MergeFacts
<1> QED
  BY <1>4, <1>6, <1>8, <1>9 DEF DInv, TypeOK, counts

\* A step that no call and no proposal is about.
LEMMA AwayStep ==
  ASSUME DInv, UNCHANGED <<branches, proposals, call, told, changes, talks>>,
         review' \in Repos \cup {NoRepo}, base' \in [Repos -> Texts],
         corpus' \in [Repos -> Texts], had' \in [Actors -> Texts], moves' \in 0 .. MaxMoves
  PROVE  DInv'
<1>1. TypeOK'
  BY DEF DInv, TypeOK
<1>2. LedgerOK'
  <2>1. \A r \in Repos : \A n \in DOMAIN proposals[r] :
          LET p == proposals[r][n]
              branch == branches[p.change]
          IN  /\ p.change \in 1 .. changes
              /\ branch.made /\ branch.repo = r /\ Grown(branch, p.change)
              /\ p.farewells \subseteq {p.author}
    BY DEF DInv, LedgerOK
  <2> QED
    BY <2>1 DEF DInv, LedgerOK, Grown
<1>3. CallsApart'
  BY DEF DInv, CallsApart
<1>4. \A t \in Threads : CallOK(call[t])'
  BY DEF DInv, CallOK
<1> QED
  BY <1>1, <1>2, <1>3, <1>4 DEF DInv

LEMMA PushStep ==
  ASSUME DInv, NEW r \in Repos, Push(r)
  PROVE  /\ DInv'
         /\ \A x \in Repos : base[x] # NoDoc => base'[x] # NoDoc /\ base[x] \subseteq base'[x]
<1>1. TypeOK /\ changes \in Nat /\ base \in [Repos -> Texts]
  BY TypeFacts DEF DInv, TypeOK
<1>2. /\ changes < MaxChanges /\ changes' = changes + 1
      /\ told' = Append(told, Failed) /\ branches' = Append(branches, [made |-> FALSE])
      /\ UNCHANGED <<review, corpus, had, proposals, call, moves, talks>>
  BY DEF Push
<1>3. /\ changes' \in 0 .. MaxChanges /\ changes' \in Changes
      /\ branches' \in Seq(Branches) /\ Len(branches') = changes'
      /\ told' \in Seq(Answers) /\ Len(told') = changes'
      /\ SparedBut(0) /\ LedgerOK'
  BY <1>2, ChangeBegins
<1>4. 0 \notin 1 .. changes
  OBVIOUS
<1>5. call' \in [Threads -> Calls] /\ (\A u \in Threads : CallOK(call[u])') /\ CallsApart'
  BY <1>2, <1>3, <1>4, CallsRest
<1>6. PICK c, was, text : /\ c = changes' /\ was = base[r]
                          /\ text = (IF was = NoDoc THEN {} ELSE was) \cup {c}
  OBVIOUS
<1>7. /\ base' = [base EXCEPT ![r] = text]
      /\ text \in Texts /\ text # NoDoc /\ (was # NoDoc => was \subseteq text)
  <2>1. was \in Texts
    BY <1>1, <1>6
  <2>2. was # NoDoc => was \subseteq Changes
    BY <2>1 DEF Texts
  <2>3. text \subseteq Changes /\ (was # NoDoc => was \subseteq text)
    BY <1>3, <1>6, <2>2
  <2>4. text \in Texts /\ text # NoDoc
    BY <2>3, MarkersAssumption DEF Texts
  <2>5. base' = [base EXCEPT ![r] = text]
    BY <1>6 DEF Push
  <2> QED
    BY <2>3, <2>4, <2>5
<1>8. base' \in [Repos -> Texts]
  BY <1>1, <1>7
<1>9. DInv'
  BY <1>1, <1>2, <1>3, <1>5, <1>8 DEF DInv, TypeOK, Answers
<1> QED
  BY <1>1, <1>6, <1>7, <1>9

LEMMA AwaySteps ==
  ASSUME DInv,
         \/ \E a \in Actors : ReadDocument(a)
         \/ \E r \in Repos : Refresh(r)
         \/ \E r \in Repos \cup {NoRepo} : EditRegistry(r)
         \/ UNCHANGED vars
  PROVE  DInv' /\ UNCHANGED base
<1>1. TypeOK
  BY DEF DInv
<1>2. ASSUME NEW a \in Actors, ReadDocument(a) PROVE DInv' /\ UNCHANGED base
  <2>1. corpus[review] \in Texts
    BY <1>1, <1>2 DEF ReadDocument, TypeOK
  <2>2. /\ had' = [had EXCEPT ![a] = corpus[review]]
        /\ UNCHANGED <<review, base, corpus, branches, proposals, call, told, changes, moves, talks>>
    BY <1>2 DEF ReadDocument, counts
  <2>3. had' \in [Actors -> Texts]
    BY <1>1, <2>1, <2>2 DEF TypeOK
  <2> QED
    BY <1>1, <2>2, <2>3, AwayStep DEF TypeOK
<1>3. ASSUME NEW r \in Repos, Refresh(r) PROVE DInv' /\ UNCHANGED base
  <2>1. corpus' = [corpus EXCEPT ![r] = base[r]] /\ base[r] \in Texts
        /\ UNCHANGED <<review, base, had, branches, proposals, call, told, changes, moves, talks>>
    BY <1>1, <1>3 DEF Refresh, counts, TypeOK
  <2>2. corpus' \in [Repos -> Texts]
    BY <1>1, <2>1 DEF TypeOK
  <2> QED
    BY <1>1, <2>1, <2>2, AwayStep DEF TypeOK
<1>4. ASSUME NEW r \in Repos \cup {NoRepo}, EditRegistry(r) PROVE DInv' /\ UNCHANGED base
  <2>1. /\ review' \in Repos \cup {NoRepo} /\ moves' \in 0 .. MaxMoves
        /\ UNCHANGED <<base, corpus, had, branches, proposals, call, told, changes, talks>>
    BY <1>1, <1>4, BoundsAssumption DEF EditRegistry, TypeOK
  <2> QED
    BY <1>1, <2>1, AwayStep DEF TypeOK
<1>5. CASE UNCHANGED vars
  BY <1>1, <1>5, AwayStep DEF vars, world, counts, TypeOK
<1> QED
  BY <1>2, <1>3, <1>4, <1>5

-------------------------------------------------------------------------------
(***************************************************************************)
(* The invariant holds of the specification.                               *)
(***************************************************************************)
LEMMA DInvInit == Init => DInv
<1> SUFFICES ASSUME Init PROVE DInv
  OBVIOUS
<1>1. /\ base = [r \in Repos |-> NoDoc] /\ corpus = base /\ had = [a \in Actors |-> NoDoc]
      /\ branches = << >> /\ told = << >> /\ proposals = [r \in Repos |-> << >>]
      /\ call = [t \in Threads |-> [step |-> "idle"]]
      /\ changes = 0 /\ moves = 0 /\ talks = 0 /\ review \in Repos
  BY DEF Init
<1>2. << >> \in Seq(Branches) /\ << >> \in Seq(Answers) /\ << >> \in Seq(Proposals) /\ Len(<< >>) = 0
  BY EmptySeq
<1>3. TypeOK
  <2>1. NoDoc \in Texts /\ [step |-> "idle"] \in Calls
    BY DEF Texts, Calls
  <2> QED
    BY <1>1, <1>2, <2>1, BoundsAssumption DEF TypeOK, Answers
<1>4. \A r \in Repos : DOMAIN proposals[r] = {}
  BY <1>1
<1>5. LedgerOK
  BY <1>1, <1>4 DEF LedgerOK
<1>6. (\A t \in Threads : CallOK(call[t])) /\ CallsApart
  BY <1>1 DEF CallOK, CallsApart, AskingSteps
<1> QED
  BY <1>3, <1>5, <1>6 DEF DInv

LEMMA DInvStep == DInv /\ [Next]_vars => DInv'
<1> SUFFICES ASSUME DInv, [Next]_vars PROVE DInv'
  OBVIOUS
<1>1. ASSUME NEW t \in Threads, NEW a \in Actors, NEW update \in BOOLEAN, Propose(t, a, update)
      PROVE  DInv'
  BY <1>1, ProposeStep
<1>2. ASSUME NEW t \in Threads,
             \/ RequestFails(t)
             \/ \E answered \in BOOLEAN : RefuseIfPresent(t, answered)
             \/ GetRef(t)
             \/ \E a \in Actors, n \in Changes, purpose \in {"review", "abandon"} : Talk(t, a, n, purpose)
             \/ OpenProposal(t)
             \/ CheckAuthor(t)
      PROVE  DInv'
  BY <1>2, PlainSteps
<1>3. ASSUME NEW t \in Threads, PostBranch(t) \/ PutContents(t) PROVE DInv'
  BY <1>3, BranchSteps
<1>4. ASSUME NEW t \in Threads, NEW answered \in BOOLEAN, PostPull(t, answered) PROVE DInv'
  BY <1>4, PullStep
<1>5. ASSUME NEW t \in Threads,
             PostReviewer(t) \/ (\E message \in BOOLEAN : Say(t, message)) \/ Close(t)
      PROVE  DInv'
  BY <1>5, TouchSteps
<1>6. ASSUME NEW r \in Repos, NEW n \in DOMAIN proposals[r], Merge(r, n) PROVE DInv'
  BY <1>6, MergeStep
<1>7. ASSUME NEW r \in Repos, Push(r) PROVE DInv'
  BY <1>7, PushStep
<1>8. ASSUME \/ \E a \in Actors : ReadDocument(a)
             \/ \E r \in Repos : Refresh(r)
             \/ \E r \in Repos \cup {NoRepo} : EditRegistry(r)
             \/ UNCHANGED vars
      PROVE  DInv'
  BY <1>8, AwaySteps
<1> QED
  BY <1>1, <1>2, <1>3, <1>4, <1>5, <1>6, <1>7, <1>8 DEF Next

LEMMA DInvHolds == Spec => []DInv
<1> QED
  BY DInvInit, DInvStep, PTL DEF Spec

-------------------------------------------------------------------------------
(***************************************************************************)
(* Theorems.                                                               *)
(***************************************************************************)

\* Types: a branch and an answer for every change begun, and in no repository more
\* proposals than changes, since two proposals never carry the same one.
THEOREM ProposalTypes == Spec => []TypeOK
<1>1. DInv => TypeOK
  BY DEF DInv
<1> QED
  BY <1>1, DInvHolds, PTL

\* A number that docs.create or docs.update returned names the proposal of that very
\* call, and every proposal is its branch and one change, whichever requests failed.
THEOREM AnswersAreTrueHolds == Spec => []AnswersAreTrue
<1>1. ASSUME DInv PROVE AnswersAreTrue
  <2>1. DOMAIN told = 1 .. changes
    BY <1>1, TypeFacts DEF DInv
  <2> QED
    BY <1>1, <2>1 DEF DInv, LedgerOK, AnswersAreTrue, Grown
<1> QED
  BY <1>1, DInvHolds, PTL

\* docs.review_abandon closes, and comments on, its caller's proposals only, also when the
\* registry names another repository by then, and the proposal is merged or closed between
\* the check and the request.
THEOREM OnlyAuthorsWithdrawHolds == Spec => []OnlyAuthorsWithdraw
<1>1. DInv => OnlyAuthorsWithdraw
  BY DEF DInv, LedgerOK, OnlyAuthorsWithdraw
<1> QED
  BY <1>1, DInvHolds, PTL

\* No step takes a change off a base branch: the blob id that the host compares, and the
\* branch being made from the very head that was read, are all it takes.
THEOREM NoChangeLostHolds == Spec => NoChangeLost
<1> DEFINE Kept == \A r \in Repos : base[r] # NoDoc => base'[r] # NoDoc /\ base[r] \subseteq base'[r]
<1>1. ASSUME DInv, [Next]_vars PROVE Kept
  <2>1. CASE \E r \in Repos : Push(r)
    BY <1>1, <2>1, PushStep
  <2>2. CASE \E r \in Repos : \E n \in DOMAIN proposals[r] : Merge(r, n)
    BY <1>1, <2>2, MergeFacts
  <2>3. CASE base' = base
    BY <2>3
  <2>4. \/ \E r \in Repos : Push(r)
        \/ \E r \in Repos : \E n \in DOMAIN proposals[r] : Merge(r, n)
        \/ base' = base
    <3>1. ASSUME NEW t \in Threads, NEW a \in Actors, NEW update \in BOOLEAN
          PROVE  Propose(t, a, update) => base' = base
      BY DEF Propose, world
    <3>2. ASSUME NEW t \in Threads, NEW a \in Actors,
                 NEW n \in Changes, NEW purpose \in {"review", "abandon"}
          PROVE  Talk(t, a, n, purpose) => base' = base
      BY DEF Talk, world
    <3>3. ASSUME NEW t \in Threads, NEW yes \in BOOLEAN
          PROVE  RefuseIfPresent(t, yes) \/ PostPull(t, yes) \/ Say(t, yes) => base' = base
      BY DEF RefuseIfPresent, PostPull, Say, world
    <3>4. ASSUME NEW t \in Threads
          PROVE  GetRef(t) \/ PostBranch(t) \/ PutContents(t) \/ OpenProposal(t) => base' = base
      BY DEF GetRef, PostBranch, PutContents, OpenProposal, world
    <3>5. ASSUME NEW t \in Threads
          PROVE  PostReviewer(t) \/ CheckAuthor(t) \/ Close(t) \/ RequestFails(t) => base' = base
      BY DEF PostReviewer, CheckAuthor, Close, RequestFails, world
    <3>6. ASSUME NEW a \in Actors PROVE ReadDocument(a) => base' = base
      BY DEF ReadDocument, world
    <3>7. ASSUME NEW r \in Repos \cup {NoRepo} PROVE Refresh(r) \/ EditRegistry(r) => base' = base
      BY DEF Refresh, EditRegistry, world
    <3>8. UNCHANGED vars => base' = base
      BY DEF vars, world
    <3> QED
      BY <1>1, <3>1, <3>2, <3>3, <3>4, <3>5, <3>6, <3>7, <3>8 DEF Next
  <2> QED
    BY <2>1, <2>2, <2>3, <2>4
<1>2. DInv /\ [Next]_vars => [Kept]_vars
  BY <1>1
<1> QED
  BY <1>2, DInvHolds, PTL DEF Spec, NoChangeLost
===============================================================================

---------------------------- MODULE DocsProposals ----------------------------
(***************************************************************************)
(* Proposing a document change (tools/docs.py behind its gate,             *)
(* docs_review.py and the GitHub adapter of review_backend.py): a call is  *)
(* several requests to the review host, any of which may fail before or    *)
(* after it took effect, while people merge, push and close proposals and  *)
(* the operator moves the project to another repository.                   *)
(*                                                                         *)
(* One document is followed.  Its text is the set of changes made to it,   *)
(* so that a change that is lost can be seen; a blob id is the text.  What *)
(* the review host and Git do is modelled as far as the code relies on it. *)
(***************************************************************************)
EXTENDS Naturals, Sequences

CONSTANTS
  Threads,
  Actors,        \* callers, each with an account of their own on the host
  Repos,
  NoRepo,        \* the project's corpus is read-only
  NoDoc,         \* the document does not exist
  MaxChanges,    \* how many changes are written in all
  MaxMoves,      \* how often the registry is edited
  MaxTalks,      \* how many reviews and withdrawals are asked for
  MaxWork        \* all of these taken together

VARIABLES
  review,        \* the repository the registry names for the project
  base,          \* the document on every repository's base branch
  corpus,        \* the same as the gateway's snapshots show it
  had,           \* the text each caller last read
  branches,      \* the branches made for proposals, by the change they carry
  proposals,     \* the proposals of every repository, by number
  call,          \* what each thread is doing
  told,          \* history: what the callers of docs.create and docs.update were told
  changes, moves, talks

world == <<review, base, corpus, had>>
counts == <<changes, moves, talks>>
vars == <<world, branches, proposals, call, told, counts>>

Changes == 1 .. MaxChanges
Texts == (SUBSET Changes) \cup {NoDoc}

ASSUME BoundsAssumption == {MaxChanges, MaxMoves, MaxTalks, MaxWork} \subseteq Nat
ASSUME MarkersAssumption == \A text \in SUBSET Changes : text # NoDoc

\* What is begun fits the bounds of the model.
InBounds == changes' + moves' + talks' <= MaxWork
Ok(number) == [ok |-> TRUE, number |-> number]
Failed == [ok |-> FALSE]

Init ==
  /\ review \in Repos
  /\ base = [r \in Repos |-> NoDoc]
  /\ corpus = base
  /\ had = [a \in Actors |-> NoDoc]
  /\ branches = << >>
  /\ proposals = [r \in Repos |-> << >>]
  /\ call = [t \in Threads |-> [step |-> "idle"]]
  /\ told = << >>
  /\ changes = 0
  /\ moves = 0
  /\ talks = 0

-------------------------------------------------------------------------------
(* The requests of a call.  A thread that is refused, or whose request fails, *)
(* gives the call up where it stands; nothing is undone.                       *)

Goto(t, step) == call' = [call EXCEPT ![t].step = step]
GiveUp(t) == call' = [call EXCEPT ![t] = [step |-> "idle"]]
Proposing(t) == call[t].step \in {"check", "ref", "branch", "put", "pull"}
Tell(change, answer) == told' = [told EXCEPT ![change] = answer]

\* A request that the host did not carry out, or whose answer never came.
RequestFails(t) ==
  /\ call[t].step # "idle"
  /\ GiveUp(t)
  /\ IF Proposing(t) THEN Tell(call[t].change, Failed) ELSE UNCHANGED told
  /\ UNCHANGED <<world, branches, proposals, counts>>

\* docs.get: the text the snapshot shows, and the blob id that stands for it.
ReadDocument(a) ==
  /\ review # NoRepo
  /\ had' = [had EXCEPT ![a] = corpus[review]]
  /\ had' # had
  /\ UNCHANGED <<review, base, corpus, branches, proposals, call, told, counts>>

\* docs.create, or docs.update with the sha docs.get returned: past the gate, the
\* review spec is resolved once.  `sha` is NoDoc where none is sent.
Propose(t, a, update) ==
  /\ call[t].step = "idle"
  /\ review # NoRepo
  /\ changes < MaxChanges
  /\ update => had[a] # NoDoc
  /\ changes' = changes + 1
  /\ told' = Append(told, Failed)
  /\ branches' = Append(branches, [made |-> FALSE])
  /\ call' = [call EXCEPT ![t] =
       [step |-> IF update THEN "ref" ELSE "check", actor |-> a, repo |-> review,
        change |-> changes', sha |-> IF update THEN had[a] ELSE NoDoc, head |-> NoDoc]]
  /\ UNCHANGED <<world, proposals, moves, talks>>
  /\ InBounds

\* _refuse_if_present: the corpus shows the document, or it does not, or cannot be
\* asked -- which is no objection.  The corpus is the project's, resolved anew.
RefuseIfPresent(t, answered) ==
  /\ call[t].step = "check"
  /\ IF answered /\ review # NoRepo /\ corpus[review] # NoDoc
     THEN GiveUp(t) /\ Tell(call[t].change, Failed)
     ELSE Goto(t, "ref") /\ UNCHANGED told
  /\ UNCHANGED <<world, branches, proposals, counts>>

\* Step 1: the head of the base branch.
GetRef(t) ==
  /\ call[t].step = "ref"
  /\ call' = [call EXCEPT ![t].step = "branch", ![t].head = base[call[t].repo]]
  /\ UNCHANGED <<world, branches, proposals, told, counts>>

\* Faulty variant: each request goes where the registry points by then.
BranchInCurrentRepo(t) ==
  /\ call[t].step = "branch"
  /\ review # NoRepo
  /\ branches' = [branches EXCEPT ![call[t].change] =
       [made |-> TRUE, repo |-> review, point |-> call[t].head, text |-> call[t].head]]
  /\ Goto(t, "put")
  /\ UNCHANGED <<world, proposals, told, counts>>

\* Step 2: a branch of its own (the random suffix) at that head.
PostBranch(t) ==
  /\ call[t].step = "branch"
  /\ branches' = [branches EXCEPT ![call[t].change] =
       [made |-> TRUE, repo |-> call[t].repo, point |-> call[t].head, text |-> call[t].head]]
  /\ Goto(t, "put")
  /\ UNCHANGED <<world, proposals, told, counts>>

\* Faulty variant: a write that conflicts is sent again with the blob the host has.
SentShaAgain(t) == branches[call[t].change].text

\* The blob the host is asked to replace; none for a create.
SentSha(t) == call[t].sha

\* What the caller's new text says: all of what it read, and its own change.
NewText(t) == (IF call[t].sha = NoDoc THEN {} ELSE call[t].sha) \cup {call[t].change}

\* Step 3: the host writes the file if the blob it is to replace is the one on the
\* branch, and answers 409 or 422 otherwise.
PutContents(t) ==
  LET change == call[t].change
  IN  /\ call[t].step = "put"
      /\ IF SentSha(t) = branches[change].text
         THEN /\ branches' = [branches EXCEPT ![change].text = NewText(t)]
              /\ Goto(t, "pull")
              /\ UNCHANGED told
         ELSE /\ GiveUp(t)
              /\ Tell(change, Failed)
              /\ UNCHANGED branches
      /\ UNCHANGED <<world, proposals, counts>>

Proposal(t) ==
  [author |-> call[t].actor, change |-> call[t].change, state |-> "open",
   farewells |-> {}, asked |-> FALSE]

\* Step 4: the proposal.  The answer may get lost on its way to the caller.
PostPull(t, answered) ==
  LET r == call[t].repo
  IN  /\ call[t].step = "pull"
      /\ proposals' = [proposals EXCEPT ![r] = Append(@, Proposal(t))]
      /\ IF answered THEN Tell(call[t].change, Ok(Len(proposals'[r]))) ELSE UNCHANGED told
      /\ GiveUp(t)
      /\ UNCHANGED <<world, branches, counts>>

-------------------------------------------------------------------------------
(* review_add_reviewer and review_abandon. *)

\* docs.review_abandon or docs.review_add_reviewer, past the gate: the confirmation
\* binds the number, the repository is the one the registry names now.  A number that
\* no repository has is a 404 and left out.
Talk(t, a, n, purpose) ==
  /\ call[t].step = "idle"
  /\ review # NoRepo
  /\ talks < MaxTalks
  /\ \E r \in Repos : n \in DOMAIN proposals[r]
  /\ talks' = talks + 1
  /\ call' = [call EXCEPT ![t] =
       [step |-> "find", actor |-> a, repo |-> review, number |-> n, purpose |-> purpose]]
  /\ UNCHANGED <<world, branches, proposals, told, changes, moves>>
  /\ InBounds

Target(t) == proposals[call[t].repo][call[t].number]

\* _open_proposal: 404 for a number the repository does not have, 410 when it is closed.
OpenProposal(t) ==
  /\ call[t].step = "find"
  /\ IF call[t].number \in DOMAIN proposals[call[t].repo] /\ Target(t).state = "open"
     THEN Goto(t, IF call[t].purpose = "review" THEN "request" ELSE "author")
     ELSE GiveUp(t)
  /\ UNCHANGED <<world, branches, proposals, told, counts>>

\* The reviewer is requested; asking twice is asking once.
PostReviewer(t) ==
  /\ call[t].step = "request"
  /\ proposals' = [proposals EXCEPT ![call[t].repo][call[t].number].asked = TRUE]
  /\ GiveUp(t)
  /\ UNCHANGED <<world, branches, told, counts>>

\* Faulty variant: the message goes out before the author is checked.
CheckAuthorLate(t) ==
  /\ call[t].step = "author"
  /\ proposals' = [proposals EXCEPT ![call[t].repo][call[t].number].farewells = @ \cup {call[t].actor}]
  /\ IF Target(t).author = call[t].actor THEN Goto(t, "close") ELSE GiveUp(t)
  /\ UNCHANGED <<world, branches, told, counts>>

\* _caller_login, and the author it is compared with.
CheckAuthor(t) ==
  /\ call[t].step = "author"
  /\ IF Target(t).author = call[t].actor THEN Goto(t, "say") ELSE GiveUp(t)
  /\ UNCHANGED <<world, branches, proposals, told, counts>>

\* The optional message, a comment of its own; the proposal may be closed by now.
Say(t, message) ==
  /\ call[t].step = "say"
  /\ proposals' = IF message
                  THEN [proposals EXCEPT ![call[t].repo][call[t].number].farewells = @ \cup {call[t].actor}]
                  ELSE proposals
  /\ Goto(t, "close")
  /\ UNCHANGED <<world, branches, told, counts>>

\* The host closes an open proposal, and leaves a merged one as it is.
Close(t) ==
  /\ call[t].step = "close"
  /\ proposals' = IF Target(t).state = "open"
                  THEN [proposals EXCEPT ![call[t].repo][call[t].number].state = "closed",
                                         ![call[t].repo][call[t].number].farewells = @ \cup {call[t].actor}]
                  ELSE proposals
  /\ GiveUp(t)
  /\ UNCHANGED <<world, branches, told, counts>>

-------------------------------------------------------------------------------
(* Everybody else. *)

\* A snapshot is refreshed (module DocsCorpus).
Refresh(r) ==
  /\ corpus[r] # base[r]
  /\ corpus' = [corpus EXCEPT ![r] = base[r]]
  /\ UNCHANGED <<review, base, had, branches, proposals, call, told, counts>>

\* A person writes to the base branch without the gateway.
Push(r) ==
  /\ changes < MaxChanges
  /\ changes' = changes + 1
  /\ base' = [base EXCEPT ![r] = (IF @ = NoDoc THEN {} ELSE @) \cup {changes'}]
  /\ branches' = Append(branches, [made |-> FALSE])
  /\ told' = Append(told, Failed)
  /\ UNCHANGED <<review, corpus, had, proposals, call, moves, talks>>
  /\ InBounds

\* A person merges: Git applies what the branch changed since it left the base, and
\* refuses when both have added the document.
Merge(r, n) ==
  LET branch == branches[proposals[r][n].change]
      lost == IF branch.point = NoDoc THEN {} ELSE branch.point \ branch.text
  IN  /\ proposals[r][n].state = "open"
      /\ branch.point = NoDoc <=> base[r] = NoDoc
      /\ base' = [base EXCEPT ![r] =
           IF @ = NoDoc THEN branch.text ELSE (@ \cup branch.text) \ lost]
      /\ proposals' = [proposals EXCEPT ![r][n].state = "merged"]
      /\ UNCHANGED <<review, corpus, had, branches, call, told, counts>>

\* The operator moves the project, or makes its corpus read-only.
EditRegistry(r) ==
  /\ moves < MaxMoves
  /\ review # r
  /\ review' = r
  /\ moves' = moves + 1
  /\ UNCHANGED <<base, corpus, had, branches, proposals, call, told, changes, talks>>
  /\ InBounds

Next ==
  \/ \E t \in Threads :
       \/ \E a \in Actors : \/ \E update \in BOOLEAN : Propose(t, a, update)
                            \/ \E n \in Changes, purpose \in {"review", "abandon"} :
                                 Talk(t, a, n, purpose)
       \/ \E answered \in BOOLEAN : RefuseIfPresent(t, answered)
       \/ GetRef(t)
       \/ PostBranch(t)
       \/ PutContents(t)
       \/ \E answered \in BOOLEAN : PostPull(t, answered)
       \/ OpenProposal(t)
       \/ PostReviewer(t)
       \/ CheckAuthor(t)
       \/ \E message \in BOOLEAN : Say(t, message)
       \/ Close(t)
       \/ RequestFails(t)
  \/ \E a \in Actors : ReadDocument(a)
  \/ \E r \in Repos : \/ Refresh(r)
                      \/ Push(r)
                      \/ \E n \in DOMAIN proposals[r] : Merge(r, n)
  \/ \E r \in Repos \cup {NoRepo} : EditRegistry(r)

Spec == Init /\ [][Next]_vars

-------------------------------------------------------------------------------
Branches == [made : {FALSE}]
              \cup [made : {TRUE}, repo : Repos, point : Texts, text : Texts]
Proposals == [author : Actors, change : Changes, state : {"open", "closed", "merged"},
              farewells : SUBSET Actors, asked : BOOLEAN]
Calls == [step : {"idle"}]
           \cup [step : {"check", "ref", "branch", "put", "pull"}, actor : Actors, repo : Repos,
                 change : Changes, sha : Texts, head : Texts]
           \cup [step : {"find", "request", "author", "say", "close"}, actor : Actors,
                 repo : Repos, number : Changes, purpose : {"review", "abandon"}]

TypeOK ==
  /\ review \in Repos \cup {NoRepo}
  /\ base \in [Repos -> Texts]
  /\ corpus \in [Repos -> Texts]
  /\ had \in [Actors -> Texts]
  /\ branches \in Seq(Branches) /\ Len(branches) = changes
  /\ told \in Seq([ok : {FALSE}] \cup [ok : {TRUE}, number : Changes]) /\ Len(told) = changes
  /\ proposals \in [Repos -> Seq(Proposals)]
  /\ call \in [Threads -> Calls]
  /\ <<changes, moves, talks>> \in (0 .. MaxChanges) \X (0 .. MaxMoves) \X (0 .. MaxTalks)

\* However old the text was that a caller revised, and whoever wrote to the document
\* meanwhile, merging proposals loses nobody's change: an update stands on exactly the
\* blob its caller read, a create on the absence of the document, and what moved is a
\* conflict ("a 409, never a silent overwrite").
NoChangeLost ==
  [][\A r \in Repos : base[r] # NoDoc => base'[r] # NoDoc /\ base[r] \subseteq base'[r]]_vars

\* What a caller is told is so, whatever failed on the way: the number names an open
\* or once open proposal of that call, made in one repository from branch to proposal,
\* which adds the call's change to the text on the branch and takes nothing away; and
\* a proposal nobody was told of, like a branch without one, is a call that failed.
AnswersAreTrue ==
  /\ \A c \in DOMAIN told : told[c].ok =>
       /\ branches[c].made
       /\ proposals[branches[c].repo][told[c].number].change = c
  /\ \A r \in Repos : \A n \in DOMAIN proposals[r] :
       LET branch == branches[proposals[r][n].change]
       IN  /\ branch.made
           /\ branch.repo = r
           /\ branch.text = (IF branch.point = NoDoc THEN {} ELSE branch.point)
                              \cup {proposals[r][n].change}
  /\ \A r \in Repos : \A m, n \in DOMAIN proposals[r] :
       proposals[r][m].change = proposals[r][n].change => m = n

\* `farewells` is history: who closed the proposal or said in it that it is withdrawn.
\* Only its author ever did, also when
\* the registry moved between the confirmation's two steps and the number names a
\* proposal of another repository.
OnlyAuthorsWithdraw ==
  \A r \in Repos : \A n \in DOMAIN proposals[r] :
    proposals[r][n].farewells \subseteq {proposals[r][n].author}
===============================================================================

------------------------------ MODULE TrackerCalls ------------------------------
(***************************************************************************)
(* The issue tools against the two trackers (issue_backend.py,             *)
(* gitlab_backend.py): which credential a call goes out under, and the     *)
(* requests it is made of.  The credential is taken from CredentialStore   *)
(* once, when the call begins, and used for every request of the call.     *)
(*                                                                         *)
(* A call reads, lists the caller's own issues, creates an issue, adds a   *)
(* note, or changes a status, or looks a name up.  What a request says is  *)
(* left out, but for the footer that names the actor.                      *)
(***************************************************************************)
EXTENDS CredentialStore

CONSTANTS
  Shared,           \* the credential of the gateway itself
  Portal, Callers   \* the threads that serve enrolment, and those that serve tools

ASSUME RolesAssumption == Portal \cup Callers = Threads
ASSUME SharedAssumption ==
  \A a \in Actors, b \in Backends, n \in 0 .. MaxSets : Secret(a, b, n) \notin {Shared, NoSecret}

VARIABLES
  enforce       \* configuration: writes only under the caller's credential

trackerVars == <<vars, enforce>>

\* mine is list_assigned_to_me behind a ladder of its own; names is what asks for no
\* credential at all.
Reading == {"read", "mine", "names"}
Writing == {"create", "note", "status"}

Refused == NoSecret

\* _write_key: the shared account only where nothing is enrolled or the store is
\* down, and never in enforced mode.
WriteKey(got) ==
  CASE got.state = "ok" -> got.secret
    [] got.state = "undecryptable" -> Refused
    [] got.state \in {"missing", "degraded"} -> IF enforce THEN Refused ELSE Shared

\* RedmineHttpBackend._read_key; GitLab reads are the gateway's.
ReadKey(got) ==
  IF backend # Redmine THEN Shared
  ELSE CASE got.state = "ok" -> got.secret
         [] got.state \in {"undecryptable", "degraded"} -> Refused
         [] got.state = "missing" -> Shared

\* `me` under the shared account would be somebody else.
MineKey(got) == IF got.state = "ok" THEN got.secret ELSE Refused

KeyFor(kind, got) ==
  IF kind = "read" THEN ReadKey(got) ELSE IF kind = "mine" THEN MineKey(got) ELSE WriteKey(got)

TrackerInit ==
  /\ Init
  /\ enforce \in BOOLEAN

\* Where a call goes first: the issue itself is looked up before it is changed.
First(kind) == IF kind \in Reading THEN "fetch" ELSE IF kind = "create" THEN "mutate" ELSE "gate"

\* The kinds of call that choose between the caller's credential and the gateway's.
Routed == (Reading \ {"names"}) \cup Writing

unchosen == <<disk, copy, writer, boot, tokens, submitted, history, edits, enforce>>

\* What was so when the call looked and is so when it chooses; dropped counts at either.
Throughout(k1, k2) ==
  [past |-> k1.past \cap k2.past, secure |-> k1.secure /\ k2.secure,
   dropped |-> k1.dropped \/ k2.dropped]

\* get() takes the record from the value as it is by now: the call has its key, or ends.
Choose(th, kind) ==
  /\ job[th].at = "look"
  /\ LET a == job[th].actor
         key == KeyFor(kind, Get(value, a, backend))
     IN  Goto(th, IF key = Refused THEN Idle
                  ELSE [at |-> First(kind), actor |-> a, kind |-> kind, key |-> key,
                        known |-> Throughout(job[th].known, Known(a))])
  /\ UNCHANGED unchosen

\* categories(), and the names of a project, a status, a priority or a category that any
\* other call looks up on its way: the gateway's own credential, whoever asks.
Names(th, a) ==
  /\ job[th] = Idle
  /\ a \in tokens
  /\ Goto(th, [at |-> "fetch", actor |-> a, kind |-> "names", key |-> Shared, known |-> Known(a)])
  /\ UNCHANGED unchosen

\* _get_issue_in_project under the key of the write: the issue is there and in the
\* project, or the call ends.
Gate(th) ==
  /\ job[th].at = "gate"
  /\ Goto(th, [job[th] EXCEPT !.at = "mutate"]) \/ Goto(th, Idle)
  /\ UNCHANGED unchosen

\* Faulty variant: what is written carries no footer, except in notes.
FooterOnlyInNotes(kind) == kind = "note"

\* The footer is part of what is written, except in a change of status on GitLab.
FooterInside(kind) == backend = Redmine \/ kind # "status"

\* The write takes effect, answered or not, or fails; on GitLab a status is
\* followed by a note that says who changed it, if the change was answered.
Mutate(th) ==
  /\ job[th].at = "mutate"
  /\ \/ Goto(th, Idle)
     \/ Goto(th, [job[th] EXCEPT !.at = IF FooterInside(job[th].kind) THEN "signed" ELSE "unsigned"])
     \/ ~FooterInside(job[th].kind) /\ Goto(th, [job[th] EXCEPT !.at = "annotate"])
  /\ UNCHANGED unchosen

Annotate(th) ==
  /\ job[th].at = "annotate"
  /\ \E end \in {"signed", "unsigned"} : Goto(th, [job[th] EXCEPT !.at = end])
  /\ UNCHANGED unchosen

\* The answer of a read, and of a write that is over.
Reply(th) ==
  /\ job[th].at \in {"fetch", "signed", "unsigned"}
  /\ Goto(th, Idle)
  /\ UNCHANGED unchosen

Next ==
  \/ \E th \in Portal : ApiStep(th) /\ UNCHANGED enforce
  \/ \E th \in Callers, a \in Actors : Look(th, a) /\ UNCHANGED enforce
  \/ \E th \in Callers, kind \in Routed : Choose(th, kind)
  \/ \E th \in Callers, a \in Actors : Names(th, a)
  \/ \E th \in Callers : Gate(th) \/ Mutate(th) \/ Annotate(th) \/ Reply(th)
  \/ Outside /\ UNCHANGED enforce

Spec == TrackerInit /\ [][Next]_trackerVars

-------------------------------------------------------------------------------
(***************************************************************************)
(* Properties.                                                             *)
(***************************************************************************)
Secrets == {Secret(a, b, n) : a \in Actors, b \in Backends, n \in 0 .. submitted}

Records ==
  [key : Keys, backend : Backends \cup {NoBackend},
   aad : {<<a>> : a \in Actors} \cup Actors \X Backends, secret : Secrets]

Wellformed(recs) ==
  /\ DOMAIN recs \subseteq Actors
  /\ \A a \in DOMAIN recs :
       /\ DOMAIN ByBackend(recs[a]) \subseteq Backends
       /\ DOMAIN ByBackend(recs[a]) # {}
       /\ \A b \in DOMAIN ByBackend(recs[a]) : ByBackend(recs[a])[b] \in Records

Knowledge == [past : SUBSET Secrets, secure : BOOLEAN, dropped : BOOLEAN]

\* What a thread may be doing.  What it is about to publish is what the file says.
Jobs ==
  {Idle}
    \cup [at : {"verify"}, actor : Actors]
    \cup [at : {"enter", "change"}, actor : Actors, adds : SUBSET Records]
    \cup [at : {"publish"}, actor : Actors, adds : SUBSET Records, drops : SUBSET Secrets,
          records : {disk}]
    \cup [at : {"look"}, actor : Actors, known : Knowledge]
    \cup [at : {"fetch", "gate", "mutate", "annotate", "signed", "unsigned"}, actor : Actors,
          kind : Reading \cup Writing, known : Knowledge, key : Secrets \cup {Shared}]

\* Types, and that an actor left with nothing has no entry.
TypeOK ==
  /\ disk = Corrupt \/ Wellformed(disk)
  /\ Wellformed(value)
  /\ seen \in BOOLEAN
  /\ writer \in Threads \cup {NoThread}
  /\ masters \subseteq Keys /\ active \in masters \cup {NoKey}
  /\ backend \in Backends /\ enforce \in BOOLEAN
  /\ tokens \subseteq Actors
  /\ submitted \in 0 .. MaxSets
  /\ job \in [Threads -> Jobs]
  /\ \A th \in Threads : job[th].at \in {"change", "publish"} <=> writer = th
  /\ held \subseteq Actors \X Backends /\ dropped \subseteq Actors \X Backends
  /\ gone \subseteq Secrets

\* Enrolling or removing one credential leaves every other one in the file as it
\* was, in whichever layout it is stored, also after edits by hand.  (Over a file
\* that does not parse the records served are what counts.)
OthersUndisturbed ==
  [][\A th \in Threads : job[th].at = "change" /\ job'[th].at = "publish" =>
       LET before == IF disk = Corrupt THEN value ELSE disk
       IN  \A a \in Actors, b \in Backends :
             <<a, b>> # <<job[th].actor, backend>> => Found(disk', a, b) = Found(before, a, b)]_vars

Calling(th) == job[th].at \in {"fetch", "gate", "mutate", "annotate", "signed", "unsigned"}

\* A call goes out under the shared account or under a credential its own actor
\* submitted for this very tracker, whatever was moved about in the file.
OnlyOwnSecrets ==
  \A th \in Threads : Calling(th) /\ job[th].key # Shared =>
    job[th].key.of = job[th].actor /\ job[th].key.for = backend

\* Once the removal or replacement of a credential was acknowledged, no call that
\* begins later uses it -- unless somebody has put it back by hand meanwhile.
RemovedStaysRemoved ==
  \A th \in Threads : Calling(th) => job[th].key \notin job[th].known.past

\* A caller whose enrolment was acknowledged, and stands, is not served from the shared
\* account unnoticed: not while others enrol, not after a restart with other master keys,
\* not over a file that stopped parsing while the process ran.  What the code does serve
\* from it are GitLab reads, the look-up of names -- issues.categories on Redmine too,
\* which SECURITY.md counts among the reads on the caller's own key -- and, if nobody
\* asked for enforcement, writes while the store is down.  A boot over a file that does
\* not parse is the other exception: the store is empty then, like one nobody has
\* enrolled in, and the enrolment is lost sight of until it is made again.
EnrolledNotShared ==
  \A th \in Threads : Calling(th) /\ job[th].key = Shared /\ job[th].known.secure =>
    \/ job[th].kind = "names"
    \/ job[th].kind = "read" /\ backend # Redmine
    \/ job[th].kind \in Writing /\ degraded /\ ~enforce
    \/ job[th].known.dropped

\* "Degraded but honest, because the attribution footer names the real actor": what
\* is written as the shared account names its actor, and enforced mode never does it.
SharedWritesAreSigned ==
  \A th \in Threads : job[th].at \in {"signed", "unsigned"} /\ job[th].key = Shared =>
    ~enforce /\ job[th].at = "signed"

\* ... which holds of Redmine; GitLab loses the note when the second request fails.
SharedWritesAreSignedOnRedmine ==
  \A th \in Threads : job[th].at \in {"signed", "unsigned"} /\ job[th].key = Shared =>
    ~enforce /\ (backend = Redmine => job[th].at = "signed")

\* Offboarding, in the documented order, "so no window leaves a live credential
\* without a live audit trail": a token is revoked once the record is gone.
NoCredentialWithoutToken ==
  \A a \in Actors \ tokens : disk # Corrupt => \A b \in Backends : Found(disk, a, b) = {}
===============================================================================

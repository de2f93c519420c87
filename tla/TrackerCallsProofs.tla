--------------------------- MODULE TrackerCallsProofs ---------------------------
(***************************************************************************)
(* Proofs about the credential store and the calls to the two trackers,    *)
(* for every number of actors, trackers, threads and master keys, and      *)
(* whatever the number of enrolments, edits by hand and restarts.          *)
(***************************************************************************)
EXTENDS TrackerCalls, TLAPS

(***************************************************************************)
(* Lemmas about the layout of the file.                                    *)
(***************************************************************************)

\* An entry of several records and one of a single record, read by backend.
LEMMA NestedFacts == \A recs : ByBackend(Nested(recs)) = recs
  BY DEF ByBackend, Nested

LEMMA FlatFacts == \A r : ByBackend(Flat(r)) = Put(Empty, Home(r), r)
  BY DEF ByBackend, Flat

\* _get_record finds what there is under the actor and the backend.
LEMMA FoundIffThere ==
  \A recs, a, b, r :
    r \in Found(recs, a, b) <=>
      a \in DOMAIN recs /\ b \in DOMAIN ByBackend(recs[a]) /\ r = ByBackend(recs[a])[b]
  BY DEF Found

LEMMA NothingInEmpty == DOMAIN Empty = {} /\ \A a, b : Found(Empty, a, b) = {}
  BY DEF Found, Empty

\* set() puts one record in its place and leaves every other where it was, also when it
\* turns an entry of one record into an entry of several.
LEMMA FoundWithRecord ==
  ASSUME NEW recs, NEW a, NEW b, NEW r, NEW x, NEW y
  PROVE  Found(WithRecord(recs, a, b, r), x, y)
           = IF <<x, y>> = <<a, b>> THEN {r} ELSE Found(recs, x, y)
<1> DEFINE others == IF a \in DOMAIN recs THEN ByBackend(recs[a]) ELSE Empty
           new == Put(others, b, r)
           all == WithRecord(recs, a, b, r)
<1>1. /\ DOMAIN all = DOMAIN recs \cup {a} /\ all[a] = Nested(new)
      /\ \A z \in DOMAIN recs \ {a} : all[z] = recs[z]
  BY DEF WithRecord, Put
<1>2. ByBackend(all[a]) = new
  BY <1>1, NestedFacts
<1>3. /\ DOMAIN new = DOMAIN others \cup {b} /\ new[b] = r
      /\ \A z \in DOMAIN others \ {b} : new[z] = others[z]
  <2> HIDE DEF others
  <2> QED BY DEF Put
<1>4. CASE x = a
  <2>1. Found(all, x, y) = IF y \in DOMAIN new THEN {new[y]} ELSE {}
    <3> HIDE DEF new
    <3> QED BY <1>1, <1>2, <1>4 DEF Found
  <2>2. y # b => Found(recs, x, y) = IF y \in DOMAIN others THEN {others[y]} ELSE {}
    BY <1>4, NothingInEmpty DEF Found
  <2> HIDE DEF new, others
  <2> QED
    BY <1>3, <1>4, <2>1, <2>2 DEF all
<1>5. CASE x # a
  <2> HIDE DEF new, all
  <2> QED BY <1>1, <1>5 DEF Found, all
<1> QED
  BY <1>4, <1>5

\* clear() takes one record out and leaves every other where it was.
LEMMA FoundWithoutRecord ==
  ASSUME NEW recs, NEW a \in DOMAIN recs, NEW b, NEW x, NEW y
  PROVE  Found(WithoutRecord(recs, a, b), x, y)
           = IF <<x, y>> = <<a, b>> THEN {} ELSE Found(recs, x, y)
<1> DEFINE others == [c \in DOMAIN ByBackend(recs[a]) \ {b} |-> ByBackend(recs[a])[c]]
           all == WithoutRecord(recs, a, b)
<1>1. /\ DOMAIN others = DOMAIN ByBackend(recs[a]) \ {b}
      /\ \A z \in DOMAIN others : others[z] = ByBackend(recs[a])[z]
  OBVIOUS
<1>2. CASE DOMAIN others = {}
  <2>1. all = [z \in DOMAIN recs \ {a} |-> recs[z]]
    BY <1>2 DEF WithoutRecord
  <2>2. DOMAIN all = DOMAIN recs \ {a} /\ \A z \in DOMAIN all : all[z] = recs[z]
    <3> HIDE DEF all
    <3> QED BY <2>1
  <2> HIDE DEF all, others
  <2> QED
    BY <1>1, <1>2, <2>2 DEF Found, all
<1>3. CASE DOMAIN others # {}
  <2>1. all = [recs EXCEPT ![a] = Nested(others)]
    BY <1>3 DEF WithoutRecord
  <2>2. /\ DOMAIN all = DOMAIN recs /\ all[a] = Nested(others)
        /\ \A z \in DOMAIN recs \ {a} : all[z] = recs[z]
    <3> HIDE DEF all, others
    <3> QED BY <2>1
  <2>3. ByBackend(all[a]) = others
    <3> HIDE DEF all, others
    <3> QED BY <2>2, NestedFacts
  <2>4. CASE x = a
    <3> HIDE DEF all, others
    <3> QED BY <1>1, <2>2, <2>3, <2>4 DEF Found, all
  <2>5. CASE x # a
    <3> HIDE DEF all, others
    <3> QED BY <2>2, <2>5 DEF Found, all
  <2> QED
    BY <2>4, <2>5
<1> QED
  BY <1>2, <1>3

\* An edit that takes an actor out leaves the other actors' records.
LEMMA FoundWithoutActor ==
  ASSUME NEW recs, NEW a, NEW x, NEW y
  PROVE  Found([z \in DOMAIN recs \ {a} |-> recs[z]], x, y)
           = IF x = a THEN {} ELSE Found(recs, x, y)
  BY DEF Found

-------------------------------------------------------------------------------
(***************************************************************************)
(* Well-formed files stay well formed.                                     *)
(***************************************************************************)

\* A record of a well-formed file is one.
LEMMA FoundTyped ==
  ASSUME NEW recs, Wellformed(recs), NEW a, NEW b, NEW r \in Found(recs, a, b)
  PROVE  a \in Actors /\ b \in Backends /\ r \in Records
  BY FoundIffThere DEF Wellformed

LEMMA EmptyWellformed == Wellformed(Empty)
  BY NothingInEmpty DEF Wellformed

LEMMA WithRecordWellformed ==
  ASSUME NEW recs, Wellformed(recs), NEW a \in Actors, NEW b \in Backends, NEW r \in Records
  PROVE  Wellformed(WithRecord(recs, a, b, r))
<1> DEFINE others == IF a \in DOMAIN recs THEN ByBackend(recs[a]) ELSE Empty
           new == Put(others, b, r)
           all == WithRecord(recs, a, b, r)
<1>1. /\ DOMAIN all = DOMAIN recs \cup {a} /\ all[a] = Nested(new)
      /\ \A z \in DOMAIN recs \ {a} : all[z] = recs[z]
  BY DEF WithRecord, Put
<1>2. ByBackend(all[a]) = new
  BY <1>1, NestedFacts
<1>3. /\ DOMAIN new = DOMAIN others \cup {b} /\ new[b] = r
      /\ \A z \in DOMAIN others \ {b} : new[z] = others[z]
  <2> HIDE DEF others
  <2> QED BY DEF Put
<1>4. DOMAIN others \subseteq Backends /\ \A z \in DOMAIN others : others[z] \in Records
  BY NothingInEmpty DEF Wellformed
<1>5. /\ DOMAIN new \subseteq Backends /\ DOMAIN new # {}
      /\ \A z \in DOMAIN new : new[z] \in Records
  <2> HIDE DEF new, others
  <2> QED BY <1>3, <1>4
<1> HIDE DEF new, others
<1>6. \A z \in DOMAIN all :
        /\ DOMAIN ByBackend(all[z]) \subseteq Backends
        /\ DOMAIN ByBackend(all[z]) # {}
        /\ \A c \in DOMAIN ByBackend(all[z]) : ByBackend(all[z])[c] \in Records
  <2> HIDE DEF all
  <2> QED BY <1>1, <1>2, <1>5 DEF Wellformed
<1> QED
  BY <1>1, <1>6 DEF Wellformed

LEMMA WithoutActorWellformed ==
  ASSUME NEW recs, Wellformed(recs), NEW a
  PROVE  Wellformed([z \in DOMAIN recs \ {a} |-> recs[z]])
  BY DEF Wellformed

LEMMA WithoutRecordWellformed ==
  ASSUME NEW recs, Wellformed(recs), NEW a \in DOMAIN recs, NEW b
  PROVE  Wellformed(WithoutRecord(recs, a, b))
<1> DEFINE others == [c \in DOMAIN ByBackend(recs[a]) \ {b} |-> ByBackend(recs[a])[c]]
<1>1. CASE DOMAIN others = {}
  BY <1>1, WithoutActorWellformed DEF WithoutRecord
<1>2. CASE DOMAIN others # {}
  <2> DEFINE all == [recs EXCEPT ![a] = Nested(others)]
  <2>1. /\ DOMAIN others \subseteq Backends
        /\ \A z \in DOMAIN others : others[z] \in Records
    BY DEF Wellformed
  <2>2. /\ DOMAIN all = DOMAIN recs /\ all[a] = Nested(others)
        /\ \A z \in DOMAIN recs \ {a} : all[z] = recs[z]
    <3> HIDE DEF others
    <3> QED OBVIOUS
  <2>3. ByBackend(all[a]) = others
    BY <2>2, NestedFacts
  <2>4. Wellformed(all)
    <3> HIDE DEF all, others
    <3> QED BY <1>2, <2>1, <2>2, <2>3 DEF Wellformed
  <2> QED
    BY <1>2, <2>4 DEF WithoutRecord
<1> QED
  BY <1>1, <1>2

\* A file of the first version, with one legacy record.
LEMMA LegacyWellformed ==
  ASSUME NEW a \in Actors, NEW key \in Keys, submitted \in Nat
  PROVE  LET recs == Put(Empty, a, Flat(Legacy(a, key)))
         IN  /\ Wellformed(recs) /\ DOMAIN recs = {a}
             /\ \A x, y : Found(recs, x, y) = IF <<x, y>> = <<a, Redmine>> THEN {Legacy(a, key)} ELSE {}
<1> DEFINE recs == Put(Empty, a, Flat(Legacy(a, key)))
           rec == Legacy(a, key)
<1>1. DOMAIN recs = {a} /\ recs[a] = Flat(rec)
  BY DEF Put, Empty
<1>2. ByBackend(recs[a]) = Put(Empty, Redmine, rec)
  BY <1>1, FlatFacts DEF Home, Legacy
<1>3. DOMAIN ByBackend(recs[a]) = {Redmine} /\ ByBackend(recs[a])[Redmine] = rec
  BY <1>2 DEF Put, Empty
<1>4. rec \in Records
  BY BackendsAssumption DEF Legacy, Records, Secrets, Secret
<1> HIDE DEF recs, rec
<1>5. Wellformed(recs)
  BY <1>1, <1>3, <1>4, BackendsAssumption DEF Wellformed
<1>6. \A x, y : Found(recs, x, y) = IF <<x, y>> = <<a, Redmine>> THEN {rec} ELSE {}
  BY <1>1, <1>3 DEF Found
<1> QED
  BY <1>1, <1>5, <1>6 DEF recs, rec

-------------------------------------------------------------------------------
(***************************************************************************)
(* The inductive invariant.                                                *)
(***************************************************************************)

\* A secret that set() has sealed and not yet written.
Unwritten(s) ==
  \E th \in Threads : job[th].at \in {"enter", "change"} /\ \E r \in job[th].adds : r.secret = s

\* What a record is sealed to is whose credential it holds, and for which tracker; one
\* that names no tracker lies where it was never bound to be, under the default.
Labelled(r, b) ==
  /\ r.aad = IF r.backend = NoBackend THEN <<r.secret.of>> ELSE <<r.secret.of, r.secret.for>>
  /\ r.backend = NoBackend => b = Redmine /\ r.secret.for = Redmine

\* A removed credential is not where it would open, a credential not yet written is
\* nowhere, and whoever is enrolled and was not lost sight of has a record.
Sound(recs) ==
  /\ Wellformed(recs)
  /\ \A a \in Actors, b \in Backends : \A r \in Found(recs, a, b) :
       /\ Labelled(r, b)
       /\ r.secret \in gone => ~(r.secret.of = a /\ r.secret.for = b)
       /\ ~Unwritten(r.secret)
  /\ \A h \in held \ dropped : Found(recs, h[1], h[2]) # {}

\* The contents there are of the file: on disk, served, about to be published.
Copies ==
  {value} \cup ({disk} \ {Corrupt})
    \cup {job[th].records : th \in {t \in Threads : job[t].at = "publish"}}

\* What a thread of the enrolment API knows.
EnrolmentOK(j) ==
  /\ j.at = "verify" => ~degraded
  /\ j.at = "change" => seen
  /\ j.at \in {"enter", "change"} =>
       \A r \in j.adds : /\ Labelled(r, backend) /\ r.backend = backend
                         /\ r.secret.of = j.actor /\ r.secret.for = backend
  /\ j.at = "publish" =>
       /\ j.adds # {} => Found(j.records, j.actor, backend) # {}
       /\ \A s \in j.drops :
            /\ s.of = j.actor /\ s.for = backend /\ ~Unwritten(s)
            /\ \A r \in Found(j.records, j.actor, backend) : r.secret # s

\* What a thread that calls a tracker knows of the credential it chose.
CallOK(j) ==
  j.at \in {"fetch", "gate", "mutate", "annotate", "signed", "unsigned"} =>
    /\ j.at = "fetch" <=> j.kind \in Reading
    /\ j.at \in {"annotate", "unsigned"} => ~FooterInside(j.kind)
    /\ j.key # Shared => j.key.of = j.actor /\ j.key.for = backend
    /\ j.key \notin j.known.past
    /\ j.key = Shared /\ j.kind \in Writing => ~enforce
    /\ j.key = Shared /\ j.known.secure =>
         \/ j.kind = "names"
         \/ j.kind = "read" /\ backend # Redmine
         \/ j.kind \in Writing /\ degraded /\ ~enforce
         \/ j.known.dropped

\* Two enrolments seal two secrets, and no secret is both gone and to come.
SecretsApart ==
  /\ \A s \in gone : ~Unwritten(s)
  /\ \A t1, t2 \in Threads :
       job[t1].at \in {"enter", "change"} /\ job[t2].at \in {"enter", "change"} /\ t1 # t2 =>
         \A r1 \in job[t1].adds, r2 \in job[t2].adds : r1.secret # r2.secret

TInv ==
  /\ TypeOK
  /\ seen => disk = value \/ disk = Corrupt
  /\ \A recs \in Copies : Sound(recs)
  /\ \A th \in Threads : EnrolmentOK(job[th]) /\ CallOK(job[th])
  /\ SecretsApart

-------------------------------------------------------------------------------
(***************************************************************************)
(* What stays true while other things change.                              *)
(***************************************************************************)

\* What a thread carries at each step.
LEMMA JobFacts ==
  ASSUME NEW j \in Jobs
  PROVE  /\ j.at = "verify" => j.actor \in Actors
         /\ j.at \in {"enter", "change"} =>
              /\ j.actor \in Actors /\ j.adds \subseteq Records
              /\ [j EXCEPT !.at = "change"]
                   = [at |-> "change", actor |-> j.actor, adds |-> j.adds]
         /\ j.at = "publish" =>
              /\ j.actor \in Actors /\ j.adds \subseteq Records /\ j.drops \subseteq Secrets
              /\ j.records = disk
         /\ j.at = "look" =>
              j.actor \in Actors /\ j.known \in Knowledge
         /\ j.at \in {"fetch", "gate", "mutate", "annotate", "signed", "unsigned"} =>
              j \in [at : {"fetch", "gate", "mutate", "annotate", "signed", "unsigned"},
                     actor : Actors, kind : Reading \cup Writing, known : Knowledge,
                     key : Secrets \cup {Shared}]
<1>1. CASE j = Idle
  BY <1>1 DEF Idle
<1>2. CASE j \in [at : {"verify"}, actor : Actors]
  BY <1>2
<1>3. CASE j \in [at : {"enter", "change"}, actor : Actors, adds : SUBSET Records]
  BY <1>3
<1>4. CASE j \in [at : {"publish"}, actor : Actors, adds : SUBSET Records,
                  drops : SUBSET Secrets, records : {disk}]
  BY <1>4
<1>5. CASE j \in [at : {"look"}, actor : Actors, known : Knowledge]
  BY <1>5
<1>6. CASE j \in [at : {"fetch", "gate", "mutate", "annotate", "signed", "unsigned"},
                  actor : Actors, kind : Reading \cup Writing, known : Knowledge,
                  key : Secrets \cup {Shared}]
  BY <1>6
<1> QED
  BY <1>1, <1>2, <1>3, <1>4, <1>5, <1>6 DEF Jobs

\* A credential once submitted remains one that was.
LEMMA SecretsGrow ==
  ASSUME submitted \in Nat, submitted' \in Nat, submitted <= submitted'
  PROVE  Secrets \subseteq Secrets' /\ Records \subseteq Records'
<1>1. Secrets \subseteq Secrets'
  BY DEF Secrets
<1> QED
  BY <1>1 DEF Records

\* What a thread carries stays of its type as long as nobody writes under it.
LEMMA JobsGrow ==
  ASSUME submitted \in Nat, submitted' \in Nat, submitted <= submitted',
         NEW j \in Jobs, j.at = "publish" => disk' = disk
  PROVE  j \in Jobs'
<1>1. Secrets \subseteq Secrets' /\ Records \subseteq Records'
  BY SecretsGrow
<1>2. /\ SUBSET Secrets \subseteq SUBSET Secrets' /\ SUBSET Records \subseteq SUBSET Records'
      /\ Knowledge \subseteq Knowledge'
  BY <1>1 DEF Knowledge
<1>3. CASE j = Idle
  BY <1>3 DEF Jobs
<1>4. CASE j \in [at : {"verify"}, actor : Actors]
  BY <1>4 DEF Jobs
<1>5. CASE j \in [at : {"enter", "change"}, actor : Actors, adds : SUBSET Records]
  <2>1. j \in [at : {"enter", "change"}, actor : Actors, adds : SUBSET Records']
    BY <1>2, <1>5
  <2> QED
    BY <2>1 DEF Jobs
<1>6. CASE j \in [at : {"publish"}, actor : Actors, adds : SUBSET Records,
                  drops : SUBSET Secrets, records : {disk}]
  <2>1. j \in [at : {"publish"}, actor : Actors, adds : SUBSET Records',
               drops : SUBSET Secrets', records : {disk'}]
    BY <1>2, <1>6
  <2> QED
    BY <2>1 DEF Jobs
<1>7. CASE j \in [at : {"look"}, actor : Actors, known : Knowledge]
  <2>1. j \in [at : {"look"}, actor : Actors, known : Knowledge']
    BY <1>2, <1>7
  <2> QED
    BY <2>1 DEF Jobs
<1>8. CASE j \in [at : {"fetch", "gate", "mutate", "annotate", "signed", "unsigned"},
                  actor : Actors, kind : Reading \cup Writing, known : Knowledge,
                  key : Secrets \cup {Shared}]
  <2>1. j \in [at : {"fetch", "gate", "mutate", "annotate", "signed", "unsigned"},
               actor : Actors, kind : Reading \cup Writing, known : Knowledge',
               key : Secrets' \cup {Shared}]
    BY <1>1, <1>2, <1>8
  <2> QED
    BY <2>1 DEF Jobs
<1> QED
  BY <1>3, <1>4, <1>5, <1>6, <1>7, <1>8 DEF Jobs

\* Contents stay sound as long as nothing that lies in its place is declared gone, nobody
\* that has no record is declared enrolled, and new secrets are new.
LEMMA SoundStays ==
  ASSUME submitted \in Nat, submitted' \in Nat, submitted <= submitted',
         NEW recs, Sound(recs),
         \A a \in Actors, b \in Backends : \A r \in Found(recs, a, b) :
           r.secret \in gone' => r.secret \in gone \/ ~(r.secret.of = a /\ r.secret.for = b),
         \A h \in held' \ dropped' : h \in held \ dropped \/ Found(recs, h[1], h[2]) # {},
         \A s \in Secrets : Unwritten(s)' => Unwritten(s)
  PROVE  Sound(recs)'
<1>1. Wellformed(recs)
  BY DEF Sound
<1>2. Wellformed(recs)'
  BY <1>1, SecretsGrow DEF Wellformed
<1>3. ASSUME NEW a \in Actors, NEW b \in Backends, NEW r \in Found(recs, a, b)
      PROVE  /\ Labelled(r, b)
             /\ r.secret \in gone' => ~(r.secret.of = a /\ r.secret.for = b)
             /\ ~Unwritten(r.secret)'
  <2>1. r.secret \in Secrets
    BY <1>1, <1>3, FoundTyped DEF Records
  <2> QED
    BY <1>3, <2>1 DEF Sound
<1>4. \A h \in held' \ dropped' : Found(recs, h[1], h[2]) # {}
  BY DEF Sound
<1> QED
  BY <1>2, <1>3, <1>4 DEF Sound

\* A thread that does nothing keeps knowing what it knows, unless it is inside the lock
\* and somebody writes, or the process restarts.
LEMMA BystanderKnows ==
  ASSUME job \in [Threads -> Jobs], NEW t \in Threads, job'[t] = job[t],
         EnrolmentOK(job[t]), CallOK(job[t]),
         UNCHANGED <<backend, active, enforce>>,
         job[t].at = "change" => seen',
         \A s \in Secrets : Unwritten(s)' => Unwritten(s)
  PROVE  EnrolmentOK(job[t])' /\ CallOK(job[t])'
<1>1. CallOK(job[t])'
  BY DEF CallOK, FooterInside, degraded
<1>2. ASSUME job[t].at = "publish", NEW s \in job[t].drops PROVE ~Unwritten(s)'
  <2>1. s \in Secrets
    BY <1>2, JobFacts
  <2> QED
    BY <1>2, <2>1 DEF EnrolmentOK
<1>3. EnrolmentOK(job[t])'
  BY <1>2 DEF EnrolmentOK, degraded
<1> QED
  BY <1>1, <1>3

\* A thread takes a step that leaves the file as it is; it may reload, take or leave the
\* lock, and hold a secret that is new.
LEMMA ThreadStep ==
  ASSUME TInv, NEW th \in Threads, NEW new \in Jobs', new.at # "publish",
         job' = [job EXCEPT ![th] = new],
         UNCHANGED <<disk, masters, active, backend, held, dropped, gone, enforce, tokens>>,
         value' = value \/ (value' = disk /\ disk # Corrupt),
         seen' \in BOOLEAN, seen => seen', seen' => disk = value' \/ disk = Corrupt,
         submitted' \in 0 .. MaxSets, submitted <= submitted',
         writer' \in Threads \cup {NoThread},
         \A t \in Threads : job'[t].at \in {"change", "publish"} <=> writer' = t,
         new.at \in {"enter", "change"} =>
           \A r \in new.adds : \/ r.secret \notin Secrets
                               \/ job[th].at \in {"enter", "change"} /\ r \in job[th].adds,
         EnrolmentOK(new)', CallOK(new)'
  PROVE  TInv'
<1>1. /\ TypeOK /\ job \in [Threads -> Jobs] /\ submitted \in Nat /\ submitted' \in Nat
      /\ \A t \in Threads : EnrolmentOK(job[t]) /\ CallOK(job[t])
      /\ \A recs \in Copies : Sound(recs)
      /\ SecretsApart
  BY BoundsAssumption DEF TInv, TypeOK
<1>2. job'[th] = new /\ \A t \in Threads \ {th} : job'[t] = job[t]
  BY <1>1
<1>3. \A s \in Secrets : Unwritten(s)' => Unwritten(s)
  BY <1>2 DEF Unwritten
<1>4. Secrets \subseteq Secrets' /\ Records \subseteq Records'
  BY <1>1, SecretsGrow
<1>5. TypeOK'
  <2>1. \A j \in Jobs : j \in Jobs'
    BY <1>1, JobsGrow
  <2>2. job' \in [Threads -> Jobs']
    BY <1>1, <2>1
  <2>3. (disk' = Corrupt \/ Wellformed(disk)') /\ Wellformed(value)'
    <3>1. /\ disk = Corrupt \/ Wellformed(disk)
          /\ Wellformed(value) \/ (Wellformed(disk) /\ value' = disk)
      BY <1>1 DEF TypeOK
    <3> QED
      BY <1>4, <3>1 DEF Wellformed
  <2>4. gone' \subseteq Secrets'
    BY <1>1, <1>4 DEF TypeOK
  <2> QED
    BY <1>1, <2>2, <2>3, <2>4 DEF TypeOK
<1>6. \A recs \in Copies' : Sound(recs)'
  <2>1. Copies' \subseteq Copies
    BY <1>2 DEF Copies
  <2>2. ASSUME NEW recs \in Copies' PROVE Sound(recs)'
    BY <1>1, <1>3, <2>1, SoundStays
  <2> QED
    BY <2>2
<1>7. \A t \in Threads : EnrolmentOK(job[t])' /\ CallOK(job[t])'
  <2>1. ASSUME NEW t \in Threads \ {th} PROVE EnrolmentOK(job[t])' /\ CallOK(job[t])'
    <3>1. job[t].at = "change" => seen'
      BY <1>1 DEF EnrolmentOK
    <3> QED
      BY <1>1, <1>2, <1>3, <3>1, BystanderKnows
  <2>2. EnrolmentOK(job[th])'
    BY <1>2 DEF EnrolmentOK, degraded, Labelled
  <2>3. CallOK(job[th])'
    BY <1>2 DEF CallOK, FooterInside, degraded
  <2> QED
    BY <2>1, <2>2, <2>3
<1>8. SecretsApart'
  <2>1. \A s \in gone' : ~Unwritten(s)'
    BY <1>1, <1>3 DEF SecretsApart, TypeOK
  <2>2. ASSUME NEW t \in Threads, job[t].at \in {"enter", "change"}, NEW r \in job[t].adds
        PROVE  r.secret \in Secrets
    <3>1. r \in Records
      BY <1>1, <2>2, JobFacts
    <3> QED
      BY <3>1 DEF Records
  <2>3. ASSUME NEW t \in Threads \ {th}, job[t].at \in {"enter", "change"},
               new.at \in {"enter", "change"},
               NEW r1 \in job[t].adds, NEW r2 \in new.adds
        PROVE  r1.secret # r2.secret
    BY <1>1, <2>2, <2>3 DEF SecretsApart
  <2>4. ASSUME NEW t1 \in Threads, NEW t2 \in Threads, t1 # t2,
               job'[t1].at \in {"enter", "change"}, job'[t2].at \in {"enter", "change"},
               NEW r1 \in job'[t1].adds, NEW r2 \in job'[t2].adds
        PROVE  r1.secret # r2.secret
    <3>1. CASE t1 = th
      BY <1>2, <2>3, <2>4, <3>1
    <3>2. CASE t2 = th
      BY <1>2, <2>3, <2>4, <3>2
    <3>3. CASE t1 # th /\ t2 # th
      BY <1>1, <1>2, <2>4, <3>3 DEF SecretsApart
    <3> QED
      BY <3>1, <3>2, <3>3
  <2> QED
    BY <2>1, <2>4 DEF SecretsApart
<1> QED
  BY <1>1, <1>5, <1>6, <1>7, <1>8 DEF TInv

\* A thread outside the lock moves on with nothing new to write.
LEMMA QuietMove ==
  ASSUME TInv, NEW th \in Threads, NEW new \in Jobs,
         job' = [job EXCEPT ![th] = new],
         UNCHANGED <<disk, value, seen, writer, masters, active, backend, submitted,
                     held, dropped, gone, enforce, tokens>>,
         job[th].at \notin {"change", "publish"}, new.at \notin {"change", "publish"},
         new.at = "enter" => new.adds = {},
         EnrolmentOK(new), CallOK(new)
  PROVE  TInv'
<1>1. /\ TypeOK /\ job \in [Threads -> Jobs] /\ submitted \in 0 .. MaxSets /\ submitted \in Nat
      /\ seen => disk = value \/ disk = Corrupt
  BY BoundsAssumption DEF TInv, TypeOK
<1>2. job'[th] = new /\ \A t \in Threads \ {th} : job'[t] = job[t]
  BY <1>1
<1>3. new \in Jobs'
  BY <1>1, JobsGrow
<1>4. \A t \in Threads : job'[t].at \in {"change", "publish"} <=> writer' = t
  BY <1>1, <1>2 DEF TypeOK
<1>5. EnrolmentOK(new)' /\ CallOK(new)'
  BY DEF EnrolmentOK, CallOK, FooterInside, degraded, Labelled
<1>6. submitted <= submitted' /\ seen' \in BOOLEAN /\ writer' \in Threads \cup {NoThread}
  BY <1>1 DEF TypeOK
<1> QED
  BY <1>1, <1>3, <1>4, <1>5, <1>6, ThreadStep

-------------------------------------------------------------------------------
(***************************************************************************)
(* The credential of a call.                                               *)
(***************************************************************************)

\* Neither the gateway's own credential nor its absence is one that was submitted.
LEMMA SecretsAreNotShared ==
  ASSUME submitted \in 0 .. MaxSets
  PROVE  \A s \in Secrets : s # Shared /\ s # NoSecret
<1>1. \A n \in 0 .. submitted : n \in 0 .. MaxSets
  BY BoundsAssumption
<1> QED
  BY <1>1, SharedAssumption DEF Secrets

\* What get() hands out opens under the caller's name and this tracker only, and has not
\* been removed; and whom it calls missing is not enrolled, or was lost sight of.
LEMMA GetFacts ==
  ASSUME TInv, NEW a \in Actors, NEW got, got = Get(value, a, backend)
  PROVE  /\ got.state \in {"missing", "degraded", "undecryptable", "ok"}
         /\ got.state = "ok" =>
              /\ got.secret \in Secrets
              /\ got.secret.of = a /\ got.secret.for = backend
              /\ got.secret \notin gone
         /\ got.state = "missing" => <<a, backend>> \notin held \ dropped
         /\ got.state = "degraded" => degraded
<1>1. Sound(value) /\ backend \in Backends
  BY DEF TInv, Copies, TypeOK
<1>2. CASE Found(value, a, backend) = {}
  <2>1. got.state = "missing"
    BY <1>2 DEF Get
  <2>2. ASSUME <<a, backend>> \in held \ dropped PROVE FALSE
    BY <1>1, <1>2, <2>2 DEF Sound
  <2> QED
    BY <2>1, <2>2
<1>3. CASE Found(value, a, backend) # {}
  <2> DEFINE r == CHOOSE r \in Found(value, a, backend) : TRUE
  <2>1. r \in Found(value, a, backend)
    BY <1>3
  <2> HIDE DEF r
  <2>2. r \in Records /\ Labelled(r, backend)
        /\ (r.secret \in gone => ~(r.secret.of = a /\ r.secret.for = backend))
    BY <1>1, <2>1, FoundTyped DEF Sound
  <2>3. CASE degraded
    BY <1>3, <2>3 DEF Get
  <2>4. CASE ~degraded /\ ~Unseals(r, a, backend)
    BY <1>3, <2>4 DEF Get, r
  <2>5. CASE ~degraded /\ Unseals(r, a, backend)
    <3>1. got = [state |-> "ok", secret |-> r.secret]
      BY <1>3, <2>5 DEF Get, r
    <3>2. r.secret \in Secrets
      BY <2>2 DEF Records
    <3>3. r.secret.of = a /\ r.secret.for = backend
      <4>1. CASE r.backend = NoBackend
        BY <2>2, <2>5, <4>1 DEF Unseals, Labelled
      <4>2. CASE r.backend # NoBackend
        BY <2>2, <2>5, <4>2 DEF Unseals, Labelled
      <4> QED
        BY <4>1, <4>2
    <3> QED
      BY <2>2, <3>1, <3>2, <3>3
  <2> QED
    BY <2>3, <2>4, <2>5
<1> QED
  BY <1>2, <1>3

\* What a call knows when it has chosen: of the removals it knew before, those that still
\* stand; that it is enrolled, if it was all along; that it was lost sight of, if it ever was.
LEMMA KnownFacts ==
  ASSUME gone \subseteq Secrets, NEW k \in Knowledge, NEW a
  PROVE  LET known == Throughout(k, Known(a))
         IN  /\ known \in Knowledge /\ Known(a) \in Knowledge
             /\ known.past \subseteq gone
             /\ known.secure => <<a, backend>> \in held
             /\ <<a, backend>> \in dropped => known.dropped
<1> DEFINE known == Throughout(k, Known(a))
<1>1. /\ Known(a) \in Knowledge /\ Known(a).past \subseteq gone
      /\ Known(a).secure = (<<a, backend>> \in held)
      /\ Known(a).dropped = (<<a, backend>> \in dropped)
  BY DEF Known, Knowledge
<1>2. /\ known.past = k.past \cap Known(a).past
      /\ known.secure = (k.secure /\ Known(a).secure)
      /\ known.dropped = (k.dropped \/ Known(a).dropped)
  BY DEF Throughout
<1>3. known \in Knowledge
  <2>1. /\ k.past \cap Known(a).past \in SUBSET Secrets
        /\ (k.secure /\ Known(a).secure) \in BOOLEAN
        /\ (k.dropped \/ Known(a).dropped) \in BOOLEAN
    BY <1>1
  <2> QED
    BY <2>1 DEF Throughout, Knowledge
<1> HIDE DEF known
<1> QED
  BY <1>1, <1>2, <1>3 DEF known

\* The call has its credential, or ends.
LEMMA ChooseStep ==
  ASSUME TInv, NEW th \in Callers, NEW kind \in Routed, Choose(th, kind)
  PROVE  TInv'
<1> DEFINE a == job[th].actor
           got == Get(value, a, backend)
           key == KeyFor(kind, got)
           known == Throughout(job[th].known, Known(a))
           chosen == [at |-> First(kind), actor |-> a, kind |-> kind, key |-> key, known |-> known]
           new == IF key = Refused THEN Idle ELSE chosen
<1>1. /\ th \in Threads /\ job[th] \in Jobs /\ job[th].at = "look"
      /\ a \in Actors /\ job[th].known \in Knowledge
      /\ gone \subseteq Secrets
  BY RolesAssumption, JobFacts DEF Choose, TInv, TypeOK
<1>2. /\ job' = [job EXCEPT ![th] = new]
      /\ UNCHANGED <<disk, value, seen, writer, masters, active, backend, submitted,
                     held, dropped, gone, enforce, tokens>>
  BY DEF Choose, Goto, unchosen, copy, boot, history
<1>3. /\ got.state \in {"missing", "degraded", "undecryptable", "ok"}
      /\ got.state = "ok" =>
           /\ got.secret \in Secrets
           /\ got.secret.of = a /\ got.secret.for = backend
           /\ got.secret \notin gone
      /\ got.state = "missing" => <<a, backend>> \notin held \ dropped
      /\ got.state = "degraded" => degraded
  <2> HIDE DEF a
  <2> QED BY <1>1, GetFacts
<1>4. \A s \in Secrets : s # Shared /\ s # NoSecret
  BY SecretsAreNotShared DEF TInv, TypeOK
<1>5. CASE key = Refused
  <2>1. new = Idle
    BY <1>5
  <2>2. EnrolmentOK(Idle) /\ CallOK(Idle) /\ Idle \in Jobs
    BY DEF EnrolmentOK, CallOK, Idle, Jobs
  <2> HIDE DEF new
  <2> QED
    BY <1>1, <1>2, <2>1, <2>2, QuietMove DEF Idle
<1>6. CASE key # Refused
  <2>1. \/ key = Shared
        \/ got.state = "ok" /\ key = got.secret
    BY <1>3, <1>6 DEF KeyFor, ReadKey, MineKey, WriteKey
  <2>2. key = Shared =>
          \/ kind = "read" /\ (backend # Redmine \/ got.state = "missing")
          \/ kind \in Writing /\ got.state \in {"missing", "degraded"} /\ ~enforce
    BY <1>3, <1>4, <1>6
       DEF KeyFor, ReadKey, MineKey, WriteKey, Refused, Reading, Writing, Routed
  <2>3. /\ First(kind) \in {"fetch", "gate", "mutate"}
        /\ First(kind) = "fetch" <=> kind \in Reading
    BY DEF First, Reading, Writing, Routed
  <2> HIDE DEF key, got
  <2>4. chosen \in Jobs
    <3>1. chosen \in [at : {"fetch", "gate", "mutate", "annotate", "signed", "unsigned"},
                      actor : Actors, kind : Reading \cup Writing, known : Knowledge,
                      key : Secrets \cup {Shared}]
      <4>1. known \in Knowledge
        BY <1>1, KnownFacts
      <4>2. kind \in Reading \cup Writing
        BY DEF Routed
      <4> HIDE DEF known
      <4> QED
        BY <1>1, <1>3, <2>1, <2>3, <4>1, <4>2
    <3> QED
      BY <3>1 DEF Jobs
  <2>5. EnrolmentOK(chosen)
    BY <2>3 DEF EnrolmentOK
  <2>6. CallOK(chosen)
    <3>1. key # Shared => key.of = a /\ key.for = backend
      BY <1>3, <2>1
    <3>2. key \notin known.past
      BY <1>1, <1>3, <1>4, <2>1, KnownFacts
    <3>3. key = Shared /\ kind \in Writing => ~enforce
      BY <2>2 DEF Writing
    <3>4. key = Shared /\ known.secure =>
            \/ kind = "read" /\ backend # Redmine
            \/ kind \in Writing /\ degraded /\ ~enforce
            \/ known.dropped
      BY <1>1, <1>3, <2>2, KnownFacts
    <3> HIDE DEF known
    <3> QED
      BY <2>3, <3>1, <3>2, <3>3, <3>4 DEF CallOK
  <2>7. new = chosen /\ chosen.at \notin {"change", "publish", "enter"}
    BY <1>6, <2>3
  <2> HIDE DEF new, chosen
  <2> QED
    BY <1>1, <1>2, <2>4, <2>5, <2>6, <2>7, QuietMove
<1> QED
  BY <1>5, <1>6

\* What the gateway looks up under its own credential.
LEMMA NamesStep ==
  ASSUME TInv, NEW th \in Callers, NEW a \in Actors, Names(th, a)
  PROVE  TInv'
<1>1. PICK known : known = Known(a)
  OBVIOUS
<1>2. PICK new : new = [at |-> "fetch", actor |-> a, kind |-> "names", key |-> Shared,
                        known |-> known]
  OBVIOUS
<1>3. /\ th \in Threads /\ job[th] = Idle /\ gone \subseteq Secrets
      /\ job' = [job EXCEPT ![th] = new]
      /\ UNCHANGED <<disk, value, seen, writer, masters, active, backend, submitted,
                     held, dropped, gone, enforce, tokens>>
  BY <1>1, <1>2, RolesAssumption
     DEF Names, Goto, unchosen, copy, boot, history, TInv, TypeOK
<1>4. known \in Knowledge /\ Shared \notin known.past
  <2>1. known \in Knowledge /\ known.past \subseteq gone
    BY <1>1, <1>3 DEF Known, Knowledge
  <2> QED
    BY <1>3, <2>1, SecretsAreNotShared DEF TInv, TypeOK
<1>5. new \in Jobs
  BY <1>2, <1>4 DEF Jobs, Reading
<1>6. EnrolmentOK(new) /\ CallOK(new)
  BY <1>2, <1>4 DEF EnrolmentOK, CallOK, Reading, Writing
<1>7. job[th].at \notin {"change", "publish"} /\ new.at \notin {"change", "publish", "enter"}
  BY <1>2, <1>3 DEF Idle
<1> QED
  BY <1>3, <1>5, <1>6, <1>7, QuietMove

\* A call that goes on to another request keeps its credential.
LEMMA CallGoesOn ==
  ASSUME NEW j \in Jobs, CallOK(j), j.at \in {"gate", "mutate", "annotate"},
         NEW at \in {"mutate", "annotate", "signed", "unsigned"},
         at \in {"annotate", "unsigned"} => ~FooterInside(j.kind)
  PROVE  LET new == [j EXCEPT !.at = at]
         IN  new \in Jobs /\ EnrolmentOK(new) /\ CallOK(new) /\ new.at = at
<1> DEFINE new == [j EXCEPT !.at = at]
           Shapes == [at : {"fetch", "gate", "mutate", "annotate", "signed", "unsigned"},
                      actor : Actors, kind : Reading \cup Writing, known : Knowledge,
                      key : Secrets \cup {Shared}]
<1>1. j \in Shapes
  BY JobFacts
<1>2. /\ new \in Shapes /\ new.at = at /\ new.actor = j.actor /\ new.kind = j.kind
      /\ new.known = j.known /\ new.key = j.key
  BY <1>1
<1> HIDE DEF new
<1>3. new \in Jobs
  BY <1>2 DEF Jobs
<1>4. EnrolmentOK(new)
  BY <1>2 DEF EnrolmentOK
<1>5. j.kind \notin Reading
  BY DEF CallOK
<1>6. CallOK(new)
  BY <1>2, <1>5 DEF CallOK
<1> QED
  BY <1>2, <1>3, <1>4, <1>6 DEF new

\* The steps of the API and of a call that touch the thread alone.
LEMMA QuietSteps ==
  ASSUME TInv, NEW th \in Threads,
         \/ \E a \in Actors : SetKey(th, a) \/ ClearKey(th, a)
         \/ Reject(th)
         \/ Gate(th) \/ Mutate(th) \/ Annotate(th) \/ Reply(th),
         UNCHANGED enforce
  PROVE  TInv'
<1>1. /\ job[th] \in Jobs /\ EnrolmentOK(job[th]) /\ CallOK(job[th])
  BY DEF TInv, TypeOK
<1>2. UNCHANGED <<disk, value, seen, writer, masters, active, backend, submitted,
                  held, dropped, gone, enforce, tokens>>
  BY DEF SetKey, ClearKey, Reject, Gate, Mutate, Annotate, Reply, unchosen, copy, boot, history
<1>3. ASSUME Goto(th, Idle), job[th].at \notin {"change", "publish"} PROVE TInv'
  <2>1. EnrolmentOK(Idle) /\ CallOK(Idle) /\ Idle \in Jobs
    BY DEF EnrolmentOK, CallOK, Idle, Jobs
  <2> QED
    BY <1>2, <1>3, <2>1, QuietMove DEF Idle, Goto
<1>4. ASSUME NEW a \in Actors, SetKey(th, a) PROVE TInv'
  <2> DEFINE new == [at |-> "verify", actor |-> a]
  <2>1. new \in Jobs /\ EnrolmentOK(new) /\ CallOK(new)
    BY <1>4 DEF Jobs, EnrolmentOK, CallOK, SetKey
  <2>2. job[th].at \notin {"change", "publish"} /\ new.at \notin {"change", "publish", "enter"}
        /\ job' = [job EXCEPT ![th] = new]
    BY <1>4 DEF SetKey, Idle, Goto
  <2> HIDE DEF new
  <2> QED
    BY <1>2, <2>1, <2>2, QuietMove
<1>5. ASSUME NEW a \in Actors, ClearKey(th, a) PROVE TInv'
  <2> DEFINE new == [at |-> "enter", actor |-> a, adds |-> {}]
  <2>1. new \in Jobs /\ EnrolmentOK(new) /\ CallOK(new)
    BY DEF Jobs, EnrolmentOK, CallOK
  <2>2. job[th].at \notin {"change", "publish"} /\ new.at \notin {"change", "publish"}
        /\ new.adds = {} /\ job' = [job EXCEPT ![th] = new]
    BY <1>5 DEF ClearKey, Idle, Goto
  <2> HIDE DEF new
  <2> QED
    BY <1>2, <2>1, <2>2, QuietMove
<1>6. ASSUME NEW at \in {"mutate", "annotate", "signed", "unsigned"},
             job[th].at \in {"gate", "mutate", "annotate"},
             Goto(th, [job[th] EXCEPT !.at = at]),
             at \in {"annotate", "unsigned"} => ~FooterInside(job[th].kind)
      PROVE  TInv'
  <2> DEFINE new == [job[th] EXCEPT !.at = at]
  <2>1. new \in Jobs /\ EnrolmentOK(new) /\ CallOK(new) /\ new.at = at
    BY <1>1, <1>6, CallGoesOn
  <2>2. job' = [job EXCEPT ![th] = new]
    BY <1>6 DEF Goto
  <2>3. job[th].at \notin {"change", "publish"} /\ new.at \notin {"change", "publish", "enter"}
    BY <1>6, <2>1
  <2> HIDE DEF new
  <2> QED
    BY <1>2, <2>1, <2>2, <2>3, QuietMove
<1>7. CASE Reject(th) \/ Reply(th)
  BY <1>3, <1>7 DEF Reject, Reply
<1>8. CASE Gate(th)
  BY <1>3, <1>6, <1>8 DEF Gate
<1>9. CASE Mutate(th)
  BY <1>3, <1>6, <1>9 DEF Mutate
<1>10. CASE Annotate(th)
  <2>1. ~FooterInside(job[th].kind)
    BY <1>1, <1>10 DEF Annotate, CallOK
  <2> QED
    BY <1>6, <1>10, <2>1 DEF Annotate
<1> QED
  BY <1>4, <1>5, <1>7, <1>8, <1>9, <1>10

-------------------------------------------------------------------------------
(***************************************************************************)
(* Enrolment and removal.                                                  *)
(***************************************************************************)

\* What the invariant says first, for the proofs of the steps.
LEMMA Basics ==
  ASSUME TInv
  PROVE  /\ job \in [Threads -> Jobs]
         /\ submitted \in 0 .. MaxSets /\ submitted \in Nat /\ MaxSets \in Nat
         /\ disk = Corrupt \/ Wellformed(disk)
         /\ seen \in BOOLEAN /\ (seen => disk = value \/ disk = Corrupt)
         /\ writer \in Threads \cup {NoThread}
         /\ masters \subseteq Keys /\ active \in masters \cup {NoKey}
         /\ backend \in Backends /\ gone \subseteq Secrets
         /\ held \subseteq Actors \X Backends /\ dropped \subseteq Actors \X Backends
         /\ \A t \in Threads : job[t].at \in {"change", "publish"} <=> writer = t
         /\ \A t \in Threads : EnrolmentOK(job[t]) /\ CallOK(job[t])
  BY BoundsAssumption DEF TInv, TypeOK

\* A reload serves what the file says, or what it said when it last parsed.
LEMMA RefreshFacts ==
  ASSUME TInv, Refresh
  PROVE  /\ value' = value \/ (value' = disk /\ disk # Corrupt)
         /\ seen' = TRUE /\ (disk = value' \/ disk = Corrupt)
  BY Basics DEF Refresh

\* A new secret is none that was ever in play.
LEMMA EncryptStep ==
  ASSUME TInv, NEW th \in Threads, Encrypt(th), UNCHANGED enforce
  PROVE  TInv'
<1>1. PICK a, r : a = job[th].actor /\ r = Seal(a, backend, submitted + 1)
  OBVIOUS
<1>2. PICK new : new = [at |-> "enter", actor |-> a, adds |-> {r}]
  OBVIOUS
<1>3. submitted' = submitted + 1 /\ submitted' \in 0 .. MaxSets /\ submitted <= submitted'
  BY Basics DEF Encrypt
<1>4. /\ a \in Actors /\ ~degraded
      /\ UNCHANGED <<disk, value, seen, writer, masters, active, backend, held, dropped, gone, enforce, tokens>>
      /\ job' = [job EXCEPT ![th] = new] /\ job[th].at = "verify"
  BY <1>1, <1>2, Basics, JobFacts DEF Encrypt, EnrolmentOK, copy, boot, history, Goto
<1>5. /\ r.secret = Secret(a, backend, submitted + 1) /\ r.backend = backend
      /\ r.secret.of = a /\ r.secret.for = backend /\ r.aad = <<a, backend>>
  BY <1>1 DEF Seal, Secret
<1>6. r \in Records'
  <2>1. r.secret \in Secrets'
    BY <1>3, <1>4, <1>5, Basics DEF Secrets
  <2>2. active \in Keys
    BY <1>4, Basics DEF degraded
  <2> QED
    BY <1>1, <1>4, <1>5, <2>1, <2>2, Basics DEF Seal, Records
<1>7. r.secret \notin Secrets
  <2> SUFFICES ASSUME r.secret \in Secrets PROVE FALSE
    OBVIOUS
  <2>1. PICK x \in Actors, y \in Backends, n \in 0 .. submitted : r.secret = Secret(x, y, n)
    BY DEF Secrets
  <2>2. r.secret.n = n /\ r.secret.n = submitted + 1
    BY <1>5, <2>1 DEF Secret
  <2> QED
    BY <2>1, <2>2, Basics
<1>8. new \in Jobs'
  BY <1>2, <1>4, <1>6 DEF Jobs
<1>9. EnrolmentOK(new)' /\ CallOK(new)'
  <2>1. backend \in Backends /\ NoBackend \notin Backends /\ backend' = backend
    BY <1>4, Basics, BackendsAssumption
  <2>2. Labelled(r, backend)'
    BY <1>5, <2>1 DEF Labelled
  <2> QED
    BY <1>2, <1>5, <2>1, <2>2 DEF EnrolmentOK, CallOK
<1>10. \A t \in Threads : job'[t].at \in {"change", "publish"} <=> writer' = t
  BY <1>2, <1>4, Basics
<1>11. /\ seen' \in BOOLEAN /\ (seen => seen') /\ (seen' => disk = value' \/ disk = Corrupt)
       /\ writer' \in Threads \cup {NoThread}
  BY <1>4, Basics
<1>12. new.at = "enter" /\ \A f \in new.adds : f.secret \notin Secrets
  BY <1>2, <1>7
<1> QED
  BY <1>3, <1>4, <1>8, <1>9, <1>10, <1>11, <1>12, ThreadStep

\* The lock is taken and the file reloaded.
LEMMA EnterStep ==
  ASSUME TInv, NEW th \in Threads, Enter(th), UNCHANGED enforce
  PROVE  TInv'
<1>1. PICK j \in Jobs : j = job[th]
  BY Basics
<1>2. PICK new : new = [at |-> "change", actor |-> j.actor, adds |-> j.adds]
  OBVIOUS
<1>3. /\ j.at = "enter" /\ j.actor \in Actors /\ j.adds \subseteq Records
      /\ writer = NoThread /\ writer' = th
      /\ UNCHANGED <<disk, submitted, masters, active, backend, held, dropped, gone, enforce, tokens>>
      /\ job' = [job EXCEPT ![th] = new]
  BY <1>1, <1>2, JobFacts DEF Enter, boot, history, Goto
<1>4. /\ value' = value \/ (value' = disk /\ disk # Corrupt)
      /\ seen' = TRUE /\ (disk = value' \/ disk = Corrupt)
  BY RefreshFacts DEF Enter
<1>5. new \in Jobs'
  <2>1. j.adds \subseteq Records'
    BY <1>3 DEF Records, Secrets
  <2> QED
    BY <1>2, <1>3, <2>1 DEF Jobs
<1>6. EnrolmentOK(new)' /\ CallOK(new)'
  <2>1. EnrolmentOK(j)
    BY <1>1, Basics
  <2> QED
    BY <1>2, <1>3, <1>4, <2>1 DEF EnrolmentOK, CallOK, Labelled
<1>7. \A t \in Threads : job'[t].at \in {"change", "publish"} <=> writer' = t
  <2>1. \A t \in Threads : job[t].at \notin {"change", "publish"}
    BY <1>3, Basics, MarkersAssumption
  <2> QED
    BY <1>2, <1>3, <2>1, Basics
<1>8. new.at = "change" /\ \A f \in new.adds : job[th].at \in {"enter", "change"} /\ f \in job[th].adds
  BY <1>1, <1>2, <1>3
<1>9. submitted' \in 0 .. MaxSets /\ submitted <= submitted' /\ writer' \in Threads \cup {NoThread}
  BY <1>3, Basics
<1> QED
  BY <1>3, <1>4, <1>5, <1>6, <1>7, <1>8, <1>9, ThreadStep

\* A reader reloads too, and remembers what has been acknowledged by now.
LEMMA LookStep ==
  ASSUME TInv, NEW th \in Threads, NEW a \in Actors, Look(th, a), UNCHANGED enforce
  PROVE  TInv'
<1>1. PICK known, new : /\ known = Known(a)
                        /\ new = [at |-> "look", actor |-> a, known |-> known]
  OBVIOUS
<1>2. /\ job[th] = Idle
      /\ UNCHANGED <<disk, submitted, writer, masters, active, backend, held, dropped, gone, enforce, tokens>>
      /\ job' = [job EXCEPT ![th] = new]
  BY <1>1 DEF Look, boot, history, Goto
<1>3. /\ value' = value \/ (value' = disk /\ disk # Corrupt)
      /\ seen' = TRUE /\ (disk = value' \/ disk = Corrupt)
  BY RefreshFacts DEF Look
<1>4. new \in Jobs'
  <2>1. known \in Knowledge'
    BY <1>1, <1>2, Basics DEF Known, Knowledge, Secrets
  <2> QED
    BY <1>1, <2>1 DEF Jobs
<1>5. EnrolmentOK(new)' /\ CallOK(new)'
  BY <1>1 DEF EnrolmentOK, CallOK
<1>6. \A t \in Threads : job'[t].at \in {"change", "publish"} <=> writer' = t
  BY <1>1, <1>2, Basics DEF Idle
<1>7. /\ submitted' \in 0 .. MaxSets /\ submitted <= submitted' /\ writer' \in Threads \cup {NoThread}
      /\ new.at = "look"
  BY <1>1, <1>2, Basics
<1> QED
  BY <1>2, <1>3, <1>4, <1>5, <1>6, <1>7, ThreadStep

\* clear() leaves with nothing to remove.
LEMMA ClearNothingStep ==
  ASSUME TInv, NEW th \in Threads, ClearNothing(th), UNCHANGED enforce
  PROVE  TInv'
<1>1. /\ job[th].at = "change" /\ writer = th /\ writer' = NoThread
      /\ UNCHANGED <<disk, value, seen, submitted, masters, active, backend, held, dropped, gone, enforce, tokens>>
      /\ job' = [job EXCEPT ![th] = Idle]
  BY Basics DEF ClearNothing, copy, boot, history, Goto
<1>2. Idle \in Jobs' /\ EnrolmentOK(Idle)' /\ CallOK(Idle)' /\ Idle.at = "idle"
  BY DEF Jobs, EnrolmentOK, CallOK, Idle
<1>3. \A t \in Threads : job'[t].at \in {"change", "publish"} <=> writer' = t
  <2>1. \A t \in Threads \ {th} : job'[t].at \notin {"change", "publish"}
    BY <1>1, Basics
  <2> QED
    BY <1>1, <1>2, <2>1, Basics, MarkersAssumption
<1>4. /\ submitted' \in 0 .. MaxSets /\ submitted <= submitted'
      /\ seen' \in BOOLEAN /\ (seen => seen') /\ (seen' => disk = value' \/ disk = Corrupt)
  BY <1>1, Basics
<1> QED
  BY <1>1, <1>2, <1>3, <1>4, ThreadStep

\* A thread that is neither in the API's lock nor moved keeps its type.
LEMMA JobsStay ==
  ASSUME job \in [Threads -> Jobs], NEW th \in Threads, NEW new \in Jobs',
         job' = [job EXCEPT ![th] = new],
         UNCHANGED submitted, submitted \in Nat,
         \A t \in Threads \ {th} : job[t].at = "publish" => disk' = disk
  PROVE  job' \in [Threads -> Jobs']
<1>1. \A t \in Threads \ {th} : job[t] \in Jobs'
  BY JobsGrow
<1> QED
  BY <1>1

\* Enrolments stay apart when a thread has nothing more to write.
LEMMA ApartStays ==
  ASSUME SecretsApart, job \in [Threads -> Jobs], NEW th \in Threads, NEW new,
         job' = [job EXCEPT ![th] = new], new.at \notin {"enter", "change"},
         \A s \in gone' : ~Unwritten(s)'
  PROVE  SecretsApart'
  BY DEF SecretsApart

\* The file is replaced: the new contents are sound before anybody reads them.
LEMMA ChangeStep ==
  ASSUME TInv, NEW th \in Threads, Change(th), UNCHANGED enforce
  PROVE  TInv'
<1>1. PICK j \in Jobs : j = job[th]
  BY Basics
<1>2. PICK a, adds, old : a = j.actor /\ adds = j.adds /\ old = Found(value, a, backend)
  OBVIOUS
<1>3. PICK recs, drops : /\ recs = disk'
                         /\ drops = {r.secret : r \in old} \cap {Secret(a, backend, n) : n \in 0 .. submitted}
  OBVIOUS
<1>4. PICK added : added = IF adds = {} THEN {} ELSE {CHOOSE r \in adds : TRUE}
  OBVIOUS
<1>5. PICK new : new = [at |-> "publish", actor |-> a, adds |-> adds, drops |-> drops, records |-> recs]
  OBVIOUS
<1>6. /\ j.at = "change" /\ a \in Actors /\ adds \subseteq Records
      /\ UNCHANGED <<value, writer, masters, active, backend, submitted, gone, enforce, tokens>>
      /\ job' = [job EXCEPT ![th] = new]
      /\ seen' = FALSE
      /\ held' = held \ {<<a, backend>>} /\ dropped' = dropped \ {<<a, backend>>}
      /\ adds = {} => old # {}
      /\ recs = IF adds = {} THEN WithoutRecord(value, a, backend)
                ELSE WithRecord(value, a, backend, CHOOSE r \in adds : TRUE)
  <2>1. /\ j.at = "change" /\ a \in Actors /\ adds \subseteq Records
        /\ UNCHANGED <<value, writer, masters, active, backend, submitted, gone, enforce, tokens>>
    BY <1>1, <1>2, JobFacts DEF Change, boot
  <2>2. /\ seen' = FALSE
        /\ held' = held \ {<<a, backend>>} /\ dropped' = dropped \ {<<a, backend>>}
        /\ adds = {} => old # {}
        /\ job' = [job EXCEPT ![th] = new]
    BY <1>1, <1>2, <1>3, <1>5 DEF Change, Goto
  <2>3. recs = IF adds = {} THEN WithoutRecord(value, a, backend)
               ELSE WithRecord(value, a, backend, CHOOSE r \in adds : TRUE)
    BY <1>1, <1>2, <1>3 DEF Change
  <2> QED
    BY <2>1, <2>2, <2>3
<1>7. /\ Sound(value) /\ SecretsApart /\ TypeOK
      /\ \A t \in Threads \ {th} : job'[t] = job[t] /\ job[t].at \notin {"change", "publish"}
      /\ writer = th /\ job'[th] = new
  BY <1>1, <1>6, Basics DEF TInv, Copies
<1>8. added \subseteq adds /\ (adds # {} => added # {})
  BY <1>4
<1>9. \A x, y : Found(recs, x, y) = IF <<x, y>> = <<a, backend>> THEN added ELSE Found(value, x, y)
  <2>1. CASE adds = {}
    <3>1. a \in DOMAIN value
      BY <1>2, <1>6, <2>1, FoundIffThere
    <3> QED
      BY <1>4, <1>6, <2>1, <3>1, FoundWithoutRecord
  <2>2. CASE adds # {}
    <3>1. PICK r : r = CHOOSE f \in adds : TRUE
      OBVIOUS
    <3>2. recs = WithRecord(value, a, backend, r) /\ added = {r}
      BY <1>4, <1>6, <2>2, <3>1
    <3>3. \A x, y : Found(WithRecord(value, a, backend, r), x, y)
                     = IF <<x, y>> = <<a, backend>> THEN {r} ELSE Found(value, x, y)
      BY FoundWithRecord
    <3> QED
      BY <3>2, <3>3
  <2> QED
    BY <2>1, <2>2
<1>10. Wellformed(recs)
  <2>1. Wellformed(value) /\ backend \in Backends
    BY <1>7, Basics DEF Sound
  <2>2. CASE adds = {}
    <3>1. a \in DOMAIN value
      BY <1>2, <1>6, <2>2, FoundIffThere
    <3> QED
      BY <1>6, <2>1, <2>2, <3>1, WithoutRecordWellformed
  <2>3. CASE adds # {}
    <3>1. (CHOOSE r \in adds : TRUE) \in Records
      BY <1>6, <2>3
    <3> QED
      BY <1>6, <2>1, <2>3, <3>1, WithRecordWellformed
  <2> QED
    BY <2>2, <2>3
<1>11. \A s : Unwritten(s)' => Unwritten(s)
  BY <1>5, <1>7 DEF Unwritten
<1>12. \A r \in added : /\ Labelled(r, backend)
                        /\ r.secret \notin gone /\ Unwritten(r.secret) /\ ~Unwritten(r.secret)'
  <2>1. EnrolmentOK(j)
    BY <1>1, Basics
  <2>2. \A r \in adds : Labelled(r, backend) /\ Unwritten(r.secret)
    BY <1>1, <1>2, <1>6, <2>1 DEF EnrolmentOK, Unwritten
  <2>3. \A r \in adds : r.secret \notin gone
    BY <1>7, <2>2 DEF SecretsApart
  <2>4. \A r \in adds : ~Unwritten(r.secret)'
    BY <1>1, <1>2, <1>5, <1>6, <1>7 DEF SecretsApart, Unwritten
  <2> QED
    BY <1>8, <2>2, <2>3, <2>4
<1>13. Sound(recs)'
  <2>1. Wellformed(recs)'
    <3>1. Records' = Records
      BY <1>6 DEF Records, Secrets
    <3> QED
      BY <1>10, <3>1 DEF Wellformed
  <2>2. ASSUME NEW x \in Actors, NEW y \in Backends, NEW r \in Found(recs, x, y)
        PROVE  /\ Labelled(r, y)
               /\ r.secret \in gone' => ~(r.secret.of = x /\ r.secret.for = y)
               /\ ~Unwritten(r.secret)'
    <3>1. CASE <<x, y>> = <<a, backend>>
      BY <1>6, <1>9, <1>12, <2>2, <3>1
    <3>2. CASE <<x, y>> # <<a, backend>>
      BY <1>6, <1>7, <1>9, <1>11, <2>2, <3>2 DEF Sound
    <3> QED
      BY <3>1, <3>2
  <2>3. \A h \in held' \ dropped' : Found(recs, h[1], h[2]) # {}
    <3>1. \A h \in held' \ dropped' : h \in held \ dropped /\ <<h[1], h[2]>> # <<a, backend>>
      <4>1. held \subseteq Actors \X Backends
        BY Basics
      <4> QED
        BY <1>6, <4>1
    <3> QED
      BY <1>7, <1>9, <3>1 DEF Sound
  <2> QED
    BY <2>1, <2>2, <2>3 DEF Sound
<1>14. Sound(value)'
  <2>1. /\ \A h \in held' \ dropped' : h \in held \ dropped
        /\ submitted \in Nat /\ submitted' \in Nat /\ submitted <= submitted'
    BY <1>6, Basics
  <2>2. PICK v : v = value
    OBVIOUS
  <2>3. Sound(v)'
    BY <1>6, <1>7, <1>11, <2>1, <2>2, SoundStays
  <2> QED
    BY <1>6, <2>2, <2>3 DEF Sound
<1>15. \A rs \in Copies' : Sound(rs)'
  <2>1. Copies' \subseteq {value', recs}
    BY <1>3, <1>5, <1>7 DEF Copies
  <2> QED
    BY <1>13, <1>14, <2>1
<1>16. drops \subseteq Secrets /\ \A s \in drops :
         /\ s.of = a /\ s.for = backend /\ ~Unwritten(s) /\ ~Unwritten(s)'
         /\ \A r \in Found(recs, a, backend) : r.secret # s
  <2>1. ASSUME NEW s \in drops
        PROVE  s \in Secrets /\ s.of = a /\ s.for = backend
    BY <1>3, <1>6, Basics DEF Secrets, Secret
  <2>2. ASSUME NEW s \in drops PROVE ~Unwritten(s)
    <3>1. PICK r \in old : s = r.secret
      BY <1>3
    <3> QED
      BY <1>2, <1>6, <1>7, <3>1, Basics DEF Sound
  <2> QED
    BY <1>9, <1>11, <1>12, <2>1, <2>2
<1>17. new \in Jobs'
  <2>1. adds \subseteq Records' /\ drops \subseteq Secrets'
    BY <1>6, <1>16 DEF Records, Secrets
  <2> QED
    BY <1>3, <1>5, <1>6, <2>1 DEF Jobs
<1>18. EnrolmentOK(new)' /\ CallOK(new)'
  BY <1>5, <1>6, <1>8, <1>9, <1>16 DEF EnrolmentOK, CallOK
<1>19. \A t \in Threads : EnrolmentOK(job[t])' /\ CallOK(job[t])'
  <2>1. ASSUME NEW t \in Threads \ {th} PROVE EnrolmentOK(job[t])' /\ CallOK(job[t])'
    BY <1>6, <1>7, <1>11, Basics, BystanderKnows
  <2>2. EnrolmentOK(job[th])'
    BY <1>7, <1>18 DEF EnrolmentOK, degraded, Labelled
  <2>3. CallOK(job[th])'
    BY <1>7, <1>18 DEF CallOK, FooterInside, degraded
  <2> QED
    BY <2>1, <2>2, <2>3
<1>20. TypeOK'
  <2>1. job' \in [Threads -> Jobs']
    BY <1>6, <1>7, <1>17, Basics, JobsStay
  <2>2. Wellformed(disk)' /\ Wellformed(value)'
    BY <1>3, <1>13, <1>14 DEF Sound, Wellformed
  <2>3. \A t \in Threads : job'[t].at \in {"change", "publish"} <=> writer' = t
    BY <1>5, <1>6, <1>7
  <2>4. /\ gone' \subseteq Secrets'
        /\ held' \subseteq Actors \X Backends /\ dropped' \subseteq Actors \X Backends
    BY <1>6, Basics DEF Secrets
  <2> QED
    BY <1>6, <1>7, <2>1, <2>2, <2>3, <2>4 DEF TypeOK
<1>21. SecretsApart'
  <2>1. new.at \notin {"enter", "change"}
    BY <1>5
  <2>2. \A s \in gone' : ~Unwritten(s)'
    BY <1>6, <1>7, <1>11 DEF SecretsApart
  <2> QED
    BY <1>6, <1>7, <2>1, <2>2, Basics, ApartStays
<1> QED
  BY <1>6, <1>15, <1>19, <1>20, <1>21 DEF TInv

\* What was written is served, and the caller is told.
LEMMA PublishStep ==
  ASSUME TInv, NEW th \in Threads, Publish(th), UNCHANGED enforce
  PROVE  TInv'
<1>1. PICK j \in Jobs : j = job[th]
  BY Basics
<1>2. PICK a, drops : a = j.actor /\ drops = j.drops
  OBVIOUS
<1>3. /\ j.at = "publish" /\ a \in Actors /\ drops \subseteq Secrets /\ j.records = disk
      /\ UNCHANGED <<disk, masters, active, backend, submitted, enforce, tokens>>
      /\ job' = [job EXCEPT ![th] = Idle]
      /\ value' = disk /\ seen' = TRUE /\ writer' = NoThread
      /\ gone' = gone \cup drops
      /\ held' = IF j.adds = {} THEN held ELSE held \cup {<<a, backend>>}
      /\ dropped' = dropped
  BY <1>1, <1>2, JobFacts DEF Publish, boot, Goto
<1>4. /\ SecretsApart /\ TypeOK /\ EnrolmentOK(j)
      /\ \A t \in Threads \ {th} : job'[t] = job[t] /\ job[t].at \notin {"change", "publish"}
      /\ writer = th /\ job'[th] = Idle
  BY <1>1, <1>3, Basics DEF TInv
<1>5. PICK recs : recs = disk
  OBVIOUS
<1>6. Sound(recs) /\ Wellformed(recs)
  BY <1>1, <1>3, <1>5 DEF TInv, Copies, Sound
<1>7. \A s : Unwritten(s)' => Unwritten(s)
  BY <1>4 DEF Unwritten, Idle
<1>8. Sound(recs)'
  <2>1. \A x \in Actors, y \in Backends : \A r \in Found(recs, x, y) :
          r.secret \in gone' => r.secret \in gone \/ ~(r.secret.of = x /\ r.secret.for = y)
    BY <1>2, <1>3, <1>4, <1>5 DEF EnrolmentOK
  <2>2. \A h \in held' \ dropped' : h \in held \ dropped \/ Found(recs, h[1], h[2]) # {}
    BY <1>2, <1>3, <1>4, <1>5 DEF EnrolmentOK
  <2>3. submitted \in Nat /\ submitted' \in Nat /\ submitted <= submitted'
    BY <1>3, Basics
  <2> QED
    BY <1>6, <1>7, <2>1, <2>2, <2>3, SoundStays
<1>9. \A rs \in Copies' : Sound(rs)'
  <2>1. Copies' \subseteq {recs}
    BY <1>3, <1>4, <1>5 DEF Copies, Idle
  <2> QED
    BY <1>8, <2>1
<1>10. Idle \in Jobs' /\ EnrolmentOK(Idle)' /\ CallOK(Idle)'
  BY DEF Jobs, EnrolmentOK, CallOK, Idle
<1>11. \A t \in Threads : EnrolmentOK(job[t])' /\ CallOK(job[t])'
  <2>1. ASSUME NEW t \in Threads \ {th} PROVE EnrolmentOK(job[t])' /\ CallOK(job[t])'
    BY <1>3, <1>4, <1>7, Basics, BystanderKnows
  <2>2. EnrolmentOK(job[th])'
    BY <1>4 DEF EnrolmentOK, Idle
  <2>3. CallOK(job[th])'
    BY <1>4 DEF CallOK, Idle
  <2> QED
    BY <2>1, <2>2, <2>3
<1>12. TypeOK'
  <2>1. job' \in [Threads -> Jobs']
    BY <1>3, <1>10, Basics, JobsStay
  <2>2. (disk' = Corrupt \/ Wellformed(disk)') /\ Wellformed(value)'
    BY <1>3, <1>5, <1>8 DEF Sound, Wellformed
  <2>3. \A t \in Threads : job'[t].at \in {"change", "publish"} <=> writer' = t
    BY <1>3, <1>4, MarkersAssumption DEF Idle
  <2>4. Secrets' = Secrets
    BY <1>3 DEF Secrets
  <2>5. /\ gone' \subseteq Secrets'
        /\ held' \subseteq Actors \X Backends /\ dropped' \subseteq Actors \X Backends
    BY <1>3, <2>4, Basics
  <2> QED
    BY <1>3, <1>4, <2>1, <2>2, <2>3, <2>5 DEF TypeOK
<1>13. SecretsApart'
  <2>1. Idle.at \notin {"enter", "change"}
    BY DEF Idle
  <2>2. \A s \in gone' : ~Unwritten(s)'
    BY <1>2, <1>3, <1>4, <1>7 DEF SecretsApart, EnrolmentOK
  <2> QED
    BY <1>3, <2>1, <2>2, Basics, <1>4, ApartStays
<1> QED
  BY <1>3, <1>9, <1>11, <1>12, <1>13 DEF TInv

-------------------------------------------------------------------------------
(***************************************************************************)
(* Around the gateway.                                                     *)
(***************************************************************************)

\* Whatever is done to the file by hand, if what it says then is sound.
LEMMA EditStep ==
  ASSUME TInv, NEW recs, Edit(recs), UNCHANGED enforce,
         held' \subseteq held, UNCHANGED dropped, gone' \subseteq gone,
         recs = Corrupt \/
           /\ Wellformed(recs)
           /\ \A a \in Actors, b \in Backends : \A r \in Found(recs, a, b) :
                /\ Labelled(r, b) /\ ~Unwritten(r.secret)
                /\ r.secret \in gone' => ~(r.secret.of = a /\ r.secret.for = b)
           /\ \A h \in held' \ dropped' : Found(recs, h[1], h[2]) # {}
  PROVE  TInv'
<1>1. /\ writer = NoThread /\ disk' = recs /\ seen' = FALSE
      /\ UNCHANGED <<value, writer, masters, active, backend, tokens, job, submitted>>
  BY DEF Edit, boot
<1>2. /\ \A t \in Threads : job[t].at \notin {"change", "publish"}
      /\ TypeOK /\ SecretsApart /\ Sound(value)
  BY <1>1, Basics, MarkersAssumption DEF TInv, Copies
<1>3. /\ Secrets' = Secrets /\ Records' = Records
      /\ \A s : Unwritten(s)' <=> Unwritten(s)
  BY <1>1 DEF Secrets, Records, Unwritten
<1>4. recs = Corrupt \/ Sound(recs)'
  BY <1>3 DEF Sound, Wellformed
<1>5. Sound(value)'
  <2>1. PICK v : v = value
    OBVIOUS
  <2>2. submitted \in Nat /\ submitted' \in Nat /\ submitted <= submitted'
    BY <1>1, Basics
  <2>3. Sound(v)'
    BY <1>2, <1>3, <2>1, <2>2, SoundStays
  <2> QED
    BY <1>1, <2>1, <2>3 DEF Sound
<1>6. \A rs \in Copies' : Sound(rs)'
  <2>1. Copies' \subseteq {value'} \cup ({recs} \ {Corrupt})
    BY <1>1, <1>2 DEF Copies
  <2> QED
    BY <1>4, <1>5, <2>1
<1>7. \A t \in Threads : EnrolmentOK(job[t])' /\ CallOK(job[t])'
  BY <1>1, <1>2, <1>3, Basics, BystanderKnows
<1>8. TypeOK'
  <2>1. job' \in [Threads -> Jobs']
    <3>1. \A t \in Threads : job[t] \in Jobs'
      BY <1>1, <1>2, Basics, JobsGrow
    <3> QED
      BY <1>1, <3>1, Basics
  <2>2. (disk' = Corrupt \/ Wellformed(disk)') /\ Wellformed(value)'
    BY <1>1, <1>4, <1>5 DEF Sound, Wellformed
  <2> QED
    BY <1>1, <1>2, <1>3, <2>1, <2>2 DEF TypeOK
<1>9. SecretsApart'
  BY <1>1, <1>2, <1>3 DEF SecretsApart
<1> QED
  BY <1>1, <1>6, <1>7, <1>8, <1>9 DEF TInv

LEMMA EditSteps ==
  ASSUME TInv, UNCHANGED enforce,
         \/ \E a \in Actors : EditOut(a)
         \/ \E a, to \in Actors, b, tob \in Backends : EditMove(a, b, to, tob)
         \/ EditCorrupt
  PROVE  TInv'
<1>1. /\ disk # Corrupt => Sound(disk) /\ Wellformed(disk)
      /\ held \subseteq Actors \X Backends
  BY Basics DEF TInv, Copies
<1>2. CASE EditCorrupt
  BY <1>2, EditStep DEF EditCorrupt, history
<1>3. ASSUME NEW a \in Actors, EditOut(a) PROVE TInv'
  <2>1. PICK recs : recs = [x \in DOMAIN disk \ {a} |-> disk[x]]
    OBVIOUS
  <2>2. /\ disk # Corrupt /\ Edit(recs) /\ UNCHANGED <<dropped, gone>>
        /\ held' = {h \in held : h[1] # a}
    BY <1>3, <2>1 DEF EditOut
  <2>3. Wellformed(recs)
    BY <1>1, <2>1, <2>2, WithoutActorWellformed
  <2>4. \A x, y : Found(recs, x, y) = IF x = a THEN {} ELSE Found(disk, x, y)
    <3>1. ASSUME NEW x, NEW y PROVE Found(recs, x, y) = IF x = a THEN {} ELSE Found(disk, x, y)
      BY <2>1, FoundWithoutActor
    <3> QED
      BY <3>1
  <2> QED
    BY <1>1, <2>2, <2>3, <2>4, EditStep DEF Sound
<1>4. ASSUME NEW a \in Actors, NEW to \in Actors, NEW b \in Backends, NEW tob \in Backends,
             EditMove(a, b, to, tob)
      PROVE  TInv'
  <2>1. PICK r \in Found(disk, a, b) :
          /\ r.backend = NoBackend => tob = Redmine
          /\ Edit(WithRecord(disk, to, tob, r))
          /\ gone' = gone \ {r.secret}
    BY <1>4 DEF EditMove
  <2>2. PICK recs : recs = WithRecord(disk, to, tob, r)
    OBVIOUS
  <2>3. disk # Corrupt /\ held' = held \ {<<to, tob>>} /\ dropped' = dropped /\ Edit(recs)
    BY <1>4, <2>1, <2>2 DEF EditMove
  <2>4. Sound(disk) /\ Wellformed(disk) /\ r \in Records
    BY <1>1, <2>1, <2>3, FoundTyped
  <2>5. /\ Wellformed(recs)
        /\ \A x, y : Found(recs, x, y) = IF <<x, y>> = <<to, tob>> THEN {r} ELSE Found(disk, x, y)
    BY <2>2, <2>4, WithRecordWellformed, FoundWithRecord
  <2>6. Labelled(r, tob) /\ ~Unwritten(r.secret) /\ r.secret \notin gone'
    BY <2>1, <2>4 DEF Sound, Labelled
  <2>7. ASSUME NEW x \in Actors, NEW y \in Backends, NEW q \in Found(recs, x, y)
        PROVE  /\ Labelled(q, y) /\ ~Unwritten(q.secret)
               /\ q.secret \in gone' => ~(q.secret.of = x /\ q.secret.for = y)
    <3>1. CASE <<x, y>> = <<to, tob>>
      BY <2>5, <2>6, <2>7, <3>1
    <3>2. CASE <<x, y>> # <<to, tob>>
      BY <2>1, <2>4, <2>5, <2>7, <3>2 DEF Sound
    <3> QED
      BY <3>1, <3>2
  <2>8. \A h \in held' \ dropped' : Found(recs, h[1], h[2]) # {}
    <3>1. \A h \in held' \ dropped' : h \in held \ dropped /\ <<h[1], h[2]>> # <<to, tob>>
      BY <1>1, <2>3
    <3> QED
      BY <2>4, <2>5, <3>1 DEF Sound
  <2>9. held' \subseteq held /\ gone' \subseteq gone
    BY <2>1, <2>3
  <2> QED
    BY <2>3, <2>5, <2>7, <2>8, <2>9, EditStep
<1> QED
  BY <1>2, <1>3, <1>4

\* A restart forgets what the threads were doing and what was served.
LEMMA RestartStep ==
  ASSUME TInv, Restart, UNCHANGED enforce
  PROVE  TInv'
<1>1. /\ UNCHANGED <<disk, tokens, submitted, held, gone>>
      /\ value' = Loaded(disk) /\ seen' = TRUE /\ writer' = NoThread
      /\ job' = [t \in Threads |-> Idle]
      /\ dropped' = IF disk = Corrupt THEN held ELSE dropped
      /\ masters' \subseteq Keys /\ active' \in masters' \cup {NoKey} /\ backend' \in Backends
  BY DEF Restart, Boot
<1>2. \A s : ~Unwritten(s)'
  BY <1>1 DEF Unwritten, Idle
<1>3. TypeOK /\ Secrets' = Secrets /\ Records' = Records
  BY <1>1 DEF TInv, Secrets, Records
<1>4. PICK recs : recs = Loaded(disk)
  OBVIOUS
<1>5. Sound(recs)'
  <2>1. CASE disk = Corrupt
    <3>1. recs = Empty /\ held' \ dropped' = {}
      BY <1>1, <1>4, <2>1 DEF Loaded
    <3>2. Wellformed(Empty) /\ \A x, y : Found(Empty, x, y) = {}
      BY EmptyWellformed, NothingInEmpty
    <3> QED
      BY <1>3, <3>1, <3>2 DEF Sound, Wellformed
  <2>2. CASE disk # Corrupt
    <3>1. recs = disk /\ dropped' = dropped
      BY <1>1, <1>4, <2>2 DEF Loaded
    <3>2. Sound(recs)
      BY <2>2, <3>1 DEF TInv, Copies
    <3>3. submitted \in Nat /\ submitted' \in Nat /\ submitted <= submitted'
      BY <1>1, Basics
    <3> QED
      BY <1>1, <1>2, <3>1, <3>2, <3>3, SoundStays
  <2> QED
    BY <2>1, <2>2
<1>6. \A rs \in Copies' : Sound(rs)'
  <2>1. Copies' \subseteq {recs}
    BY <1>1, <1>4 DEF Copies, Loaded, Idle
  <2> QED
    BY <1>5, <2>1
<1>7. \A t \in Threads : EnrolmentOK(job[t])' /\ CallOK(job[t])'
  BY <1>1 DEF EnrolmentOK, CallOK, Idle
<1>8. TypeOK'
  <2>1. job' \in [Threads -> Jobs']
    BY <1>1 DEF Jobs
  <2>2. (disk' = Corrupt \/ Wellformed(disk)') /\ Wellformed(value)'
    BY <1>1, <1>3, <1>4, <1>5 DEF Sound, TypeOK, Wellformed
  <2>3. \A t \in Threads : job'[t].at \in {"change", "publish"} <=> writer' = t
    BY <1>1, MarkersAssumption DEF Idle
  <2>4. /\ held' \subseteq Actors \X Backends /\ dropped' \subseteq Actors \X Backends
        /\ gone' \subseteq Secrets'
    BY <1>1, <1>3, Basics
  <2> QED
    BY <1>1, <1>3, <2>1, <2>2, <2>3, <2>4 DEF TypeOK
<1>9. SecretsApart'
  BY <1>1, <1>2 DEF SecretsApart, Idle
<1>10. seen' => disk' = value' \/ disk' = Corrupt
  BY <1>1 DEF Loaded
<1> QED
  BY <1>6, <1>7, <1>8, <1>9, <1>10 DEF TInv

\* What the enrolment and the calls never look at.
LEMMA StillStep ==
  ASSUME TInv,
         UNCHANGED <<disk, value, seen, writer, masters, active, backend, job, submitted,
                     held, dropped, gone, enforce>>,
         tokens' \subseteq Actors
  PROVE  TInv'
<1>1. TypeOK'
  BY DEF TInv, TypeOK, Wellformed, Jobs, Knowledge, Records, Secrets
<1>2. \A t \in Threads : EnrolmentOK(job[t])' /\ CallOK(job[t])'
  BY DEF TInv, EnrolmentOK, CallOK, Labelled, Unwritten, FooterInside, degraded
<1>3. SecretsApart'
  BY DEF TInv, SecretsApart, Unwritten
<1>4. \A rs \in Copies' : Sound(rs)'
  <2>1. Copies' = Copies
    BY DEF Copies
  <2>2. ASSUME NEW rs \in Copies PROVE Sound(rs)'
    <3>1. \A s : Unwritten(s)' <=> Unwritten(s)
      BY DEF Unwritten
    <3>2. submitted \in Nat /\ submitted' \in Nat /\ submitted <= submitted'
      BY Basics
    <3> QED
      BY <2>2, <3>1, <3>2, SoundStays DEF TInv
  <2> QED
    BY <2>1, <2>2
<1> QED
  BY <1>1, <1>2, <1>3, <1>4 DEF TInv

-------------------------------------------------------------------------------
(***************************************************************************)
(* The invariant holds of the specification.                               *)
(***************************************************************************)
LEMMA TInvInit == TrackerInit => TInv
<1> SUFFICES ASSUME TrackerInit PROVE TInv
  OBVIOUS
<1>1. /\ seen = TRUE /\ value = Loaded(disk) /\ writer = NoThread
      /\ masters \subseteq Keys /\ active \in masters \cup {NoKey} /\ backend \in Backends
      /\ tokens = Actors /\ job = [th \in Threads |-> Idle] /\ submitted = 0
      /\ held = {<<a, Redmine>> : a \in DOMAIN value} /\ dropped = {} /\ gone = {}
      /\ enforce \in BOOLEAN
  BY DEF TrackerInit, Init
<1>2. \A s : ~Unwritten(s)
  BY <1>1 DEF Unwritten, Idle
<1>3. Sound(value)
  <2>1. CASE value = Empty
    <3>1. Wellformed(value) /\ held = {} /\ \A x, y : Found(value, x, y) = {}
      BY <1>1, <2>1, EmptyWellformed, NothingInEmpty
    <3> QED
      BY <3>1 DEF Sound
  <2>2. ASSUME NEW a \in Actors, NEW key \in Keys, value = Put(Empty, a, Flat(Legacy(a, key)))
        PROVE  Sound(value)
    <3>1. submitted \in Nat
      BY <1>1
    <3>2. PICK recs : recs = Put(Empty, a, Flat(Legacy(a, key)))
      OBVIOUS
    <3>3. /\ Wellformed(recs) /\ DOMAIN recs = {a}
          /\ \A x, y : Found(recs, x, y) = IF <<x, y>> = <<a, Redmine>> THEN {Legacy(a, key)} ELSE {}
      BY <3>1, <3>2, LegacyWellformed
    <3>4. recs = value /\ held = {<<a, Redmine>>}
      BY <1>1, <2>2, <3>2, <3>3
    <3>5. Labelled(Legacy(a, key), Redmine)
      BY DEF Labelled, Legacy, Secret
    <3> QED
      BY <1>1, <1>2, <3>3, <3>4, <3>5 DEF Sound
  <2>3. \/ disk = Empty
        \/ \E a \in Actors, key \in Keys : disk = Put(Empty, a, Flat(Legacy(a, key)))
    BY DEF TrackerInit, Init
  <2> QED
    BY <1>1, <2>1, <2>2, <2>3 DEF Loaded
<1>4. disk = value \/ disk = Corrupt
  BY <1>1 DEF Loaded
<1>5. TypeOK
  <2>1. job \in [Threads -> Jobs]
    BY <1>1 DEF Jobs
  <2>2. \A th \in Threads : job[th].at \in {"change", "publish"} <=> writer = th
    BY <1>1, MarkersAssumption DEF Idle
  <2>3. held \subseteq Actors \X Backends
    BY <1>1, <1>3, BackendsAssumption DEF Sound, Wellformed
  <2> QED
    BY <1>1, <1>3, <1>4, <2>1, <2>2, <2>3, BoundsAssumption DEF TypeOK, Sound
<1>6. \A recs \in Copies : Sound(recs)
  BY <1>1, <1>3, <1>4 DEF Copies, Idle
<1>7. \A th \in Threads : EnrolmentOK(job[th]) /\ CallOK(job[th])
  BY <1>1 DEF EnrolmentOK, CallOK, Idle
<1>8. SecretsApart
  BY <1>1, <1>2 DEF SecretsApart, Idle
<1> QED
  BY <1>1, <1>4, <1>5, <1>6, <1>7, <1>8 DEF TInv

LEMMA TInvStep == TInv /\ [Next]_trackerVars => TInv'
<1> SUFFICES ASSUME TInv, [Next]_trackerVars PROVE TInv'
  OBVIOUS
<1>1. Portal \subseteq Threads /\ Callers \subseteq Threads
  BY RolesAssumption
<1>2. ASSUME NEW th \in Portal, ApiStep(th), UNCHANGED enforce PROVE TInv'
  BY <1>1, <1>2, QuietSteps, EncryptStep, EnterStep, ClearNothingStep, ChangeStep, PublishStep
     DEF ApiStep
<1>3. ASSUME NEW th \in Callers, NEW a \in Actors, Look(th, a), UNCHANGED enforce PROVE TInv'
  BY <1>1, <1>3, LookStep
<1>4. ASSUME NEW th \in Callers,
             (\E kind \in Routed : Choose(th, kind)) \/ (\E a \in Actors : Names(th, a))
      PROVE  TInv'
  BY <1>4, ChooseStep, NamesStep
<1>5. ASSUME NEW th \in Callers, Gate(th) \/ Mutate(th) \/ Annotate(th) \/ Reply(th) PROVE TInv'
  <2>1. UNCHANGED enforce
    BY <1>5 DEF Gate, Mutate, Annotate, Reply, unchosen
  <2> QED
    BY <1>1, <1>5, <2>1, QuietSteps
<1>6. ASSUME Outside, UNCHANGED enforce PROVE TInv'
  <2>1. ASSUME NEW a \in Actors, Revoke(a) PROVE TInv'
    <3>1. /\ tokens' \subseteq Actors
          /\ UNCHANGED <<disk, value, seen, writer, masters, active, backend, job, submitted,
                         held, dropped, gone, enforce>>
      BY <1>6, <2>1 DEF Revoke, TInv, TypeOK, copy, boot, history
    <3> QED
      BY <3>1, StillStep
  <2> QED
    BY <1>6, <2>1, EditSteps, RestartStep DEF Outside
<1>7. CASE UNCHANGED trackerVars
  <2>1. /\ tokens' \subseteq Actors
        /\ UNCHANGED <<disk, value, seen, writer, masters, active, backend, job, submitted,
                       held, dropped, gone, enforce>>
    BY <1>7 DEF trackerVars, vars, copy, boot, history, TInv, TypeOK
  <2> QED
    BY <2>1, StillStep
<1> QED
  BY <1>2, <1>3, <1>4, <1>5, <1>6, <1>7 DEF Next

LEMMA TInvHolds == Spec => []TInv
<1> QED
  BY TInvInit, TInvStep, PTL DEF Spec

-------------------------------------------------------------------------------
(***************************************************************************)
(* Theorems.                                                               *)
(***************************************************************************)

\* Types: what is in the file and in the copy served always reads as credentials of known
\* actors and trackers, the lock is held by exactly the thread that is between the reload
\* and the publication in set() or clear(), and what is about to be published is what the
\* file says.
THEOREM CredentialTypes == Spec => []TypeOK
<1>1. TInv => TypeOK
  BY DEF TInv
<1> QED
  BY <1>1, TInvHolds, PTL

\* A call reaches the tracker under the gateway's account or under what its own actor
\* enrolled for that very tracker, for every history of enrolments, removals, restarts with
\* other master keys, and edits that present one record as another.
THEOREM OnlyOwnSecretsHolds == Spec => []OnlyOwnSecrets
<1>1. TInv => OnlyOwnSecrets
  BY DEF TInv, OnlyOwnSecrets, CallOK, Calling
<1> QED
  BY <1>1, TInvHolds, PTL

\* An acknowledged removal or replacement is final for every call that begins later,
\* although readers take no lock.
THEOREM RemovedStaysRemovedHolds == Spec => []RemovedStaysRemoved
<1>1. TInv => RemovedStaysRemoved
  BY DEF TInv, RemovedStaysRemoved, CallOK, Calling
<1> QED
  BY <1>1, TInvHolds, PTL

\* A caller whose enrolment was acknowledged, and stands, goes out under the shared account
\* in three cases only: a look-up of names or a read on GitLab; a write while no master key
\* is loaded, unless enforced; and after a boot over a file that did not parse.
THEOREM EnrolledNotSharedHolds == Spec => []EnrolledNotShared
<1>1. TInv => EnrolledNotShared
  BY DEF TInv, EnrolledNotShared, CallOK, Calling
<1> QED
  BY <1>1, TInvHolds, PTL

\* What is written under the shared account is never written in enforced mode, and on
\* Redmine always names its actor.
THEOREM SharedWritesAreSignedHolds == Spec => []SharedWritesAreSignedOnRedmine
<1>1. ASSUME TInv, NEW th \in Threads, job[th].at \in {"signed", "unsigned"}, job[th].key = Shared
      PROVE  ~enforce /\ (backend = Redmine => job[th].at = "signed")
  <2>1. PICK j \in Jobs : j = job[th] /\ CallOK(j)
    BY <1>1, Basics
  <2>2. j.kind \in Reading \cup Writing
    BY <1>1, <2>1, JobFacts
  <2> QED
    BY <1>1, <2>1, <2>2 DEF CallOK, FooterInside
<1>2. TInv => SharedWritesAreSignedOnRedmine
  BY <1>1 DEF SharedWritesAreSignedOnRedmine
<1> QED
  BY <1>2, TInvHolds, PTL

\* set() and clear() replace the file and touch one record in it: nobody else's, and none
\* of the same actor's for another tracker, whatever the layout it was found in.
THEOREM OthersUndisturbedHolds == Spec => OthersUndisturbed
<1> DEFINE Undisturbed ==
      \A th \in Threads : job[th].at = "change" /\ job'[th].at = "publish" =>
        LET before == IF disk = Corrupt THEN value ELSE disk
        IN  \A a \in Actors, b \in Backends :
              <<a, b>> # <<job[th].actor, backend>> => Found(disk', a, b) = Found(before, a, b)
<1>1. ASSUME TInv, [Next]_trackerVars, NEW th \in Threads,
             job[th].at = "change", job'[th].at = "publish"
      PROVE  Change(th)
  <2>1. \A t \in Threads : \A j : Goto(t, j) => t = th /\ j.at = "publish" /\ job[t] # Idle
    BY <1>1, Basics DEF Goto, Idle
  <2>2. ASSUME NEW t \in Portal, ApiStep(t) PROVE Change(th)
    <3>1. t \in Threads
      BY RolesAssumption
    <3>2. Change(t) => t = th
      BY <1>1, <2>1, <3>1 DEF Change
    <3>3. \A a : ~SetKey(t, a) /\ ~ClearKey(t, a)
      BY <2>1, <3>1 DEF SetKey, ClearKey
    <3>4. ~(Reject(t) \/ Encrypt(t) \/ ClearNothing(t) \/ Publish(t))
      BY <1>1, <2>1, <3>1 DEF Reject, Encrypt, ClearNothing, Publish, Idle
    <3>5. ~Enter(t)
      BY <1>1, <2>1, <3>1 DEF Enter
    <3> QED
      BY <2>2, <3>2, <3>3, <3>4, <3>5 DEF ApiStep
  <2>3. \A t \in Callers : \A a : ~Look(t, a)
    BY <2>1, RolesAssumption DEF Look
  <2>4. ~\E t \in Callers :
           (\E kind \in Routed : Choose(t, kind)) \/ (\E a \in Actors : Names(t, a))
    BY <1>1, <2>1, RolesAssumption DEF Choose, Names
  <2>5. ~\E t \in Callers : Gate(t) \/ Mutate(t) \/ Annotate(t) \/ Reply(t)
    BY <1>1, <2>1, RolesAssumption DEF Gate, Mutate, Annotate, Reply
  <2>6. ~Outside
    <3>1. job' # job /\ job' # [t \in Threads |-> Idle]
      BY <1>1 DEF Idle
    <3> QED
      BY <3>1 DEF Outside, Revoke, EditOut, EditMove, EditCorrupt, Edit, Restart
  <2> QED
    BY <1>1, <2>2, <2>3, <2>4, <2>5, <2>6 DEF Next, trackerVars, vars
<1>2. ASSUME TInv, NEW th \in Threads, Change(th),
             NEW x, NEW y, <<x, y>> # <<job[th].actor, backend>>
      PROVE  Found(disk', x, y) = Found(IF disk = Corrupt THEN value ELSE disk, x, y)
  <2>1. EnrolmentOK(job[th]) /\ (seen => disk = value \/ disk = Corrupt) /\ job[th].at = "change"
    BY <1>2, Basics DEF Change
  <2>2. PICK recs, a, r : recs = value /\ a = job[th].actor /\ r = CHOOSE f \in job[th].adds : TRUE
    OBVIOUS
  <2>3. recs = IF disk = Corrupt THEN value ELSE disk
    BY <2>1, <2>2 DEF EnrolmentOK
  <2>4. CASE job[th].adds = {}
    <3>1. disk' = WithoutRecord(recs, a, backend) /\ a \in DOMAIN recs
      BY <1>2, <2>2, <2>4, FoundIffThere DEF Change
    <3>2. Found(WithoutRecord(recs, a, backend), x, y)
            = IF <<x, y>> = <<a, backend>> THEN {} ELSE Found(recs, x, y)
      BY <3>1, FoundWithoutRecord
    <3> QED
      BY <1>2, <2>2, <2>3, <3>1, <3>2
  <2>5. CASE job[th].adds # {}
    <3>1. disk' = WithRecord(recs, a, backend, r)
      BY <1>2, <2>2, <2>5 DEF Change
    <3>2. Found(WithRecord(recs, a, backend, r), x, y)
            = IF <<x, y>> = <<a, backend>> THEN {r} ELSE Found(recs, x, y)
      BY FoundWithRecord
    <3> QED
      BY <1>2, <2>2, <2>3, <3>1, <3>2
  <2> QED
    BY <2>4, <2>5
<1>3. TInv /\ [Next]_trackerVars => [Undisturbed]_vars
  BY <1>1, <1>2
<1> QED
  BY <1>3, TInvHolds, PTL DEF Spec, OthersUndisturbed
===============================================================================

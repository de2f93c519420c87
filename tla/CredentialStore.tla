---------------------------- MODULE CredentialStore ----------------------------
(***************************************************************************)
(* CredentialStore (redmine_keystore.py) and the enrolment endpoints of    *)
(* InternalApi (internal_api.py): per-user credentials, sealed under a     *)
(* master key, indexed by actor and backend.                               *)
(*                                                                         *)
(* One process writes the file, under self._lock; it is edited by hand     *)
(* too, but not while a write is under way (two writers are HotFile's      *)
(* second specification).  Readers take no lock, so what set() and clear() *)
(* do is split where a reader can look: the lock and the reload, the       *)
(* replacement of the file, the publication.  A refresh is one step here;  *)
(* HotFile is what justifies it.                                           *)
(*                                                                         *)
(* A secret is named by the enrolment it was submitted in; sealing keeps   *)
(* it with the associated data.  An entry that is not a JSON object is     *)
(* left out.                                                               *)
(***************************************************************************)
EXTENDS Naturals, FiniteSets

CONSTANTS
  Actors, Backends, Redmine,    \* Redmine: the default of `backend`
  Threads, NoThread,            \* server threads; the lock is free
  Keys, NoKey,                  \* ids of master keys; the store is degraded
  NoBackend, NoSecret,          \* a record without that field; no credential
  Corrupt,                      \* a file that does not parse
  MaxSets,                      \* bound: credentials submitted
  MaxEdits,                     \* bound: edits by hand
  MaxRestarts                   \* bound: restarts

ASSUME BackendsAssumption == Redmine \in Backends /\ NoBackend \notin Backends
ASSUME MarkersAssumption == NoThread \notin Threads /\ NoKey \notin Keys
ASSUME BoundsAssumption == MaxSets \in Nat /\ MaxEdits \in Nat /\ MaxRestarts \in Nat

VARIABLES
  disk,                 \* the file
  value, seen,          \* self._store: the records served, whether its signature is the file's
  writer,               \* self._lock
  masters, active,      \* the master keys loaded at boot
  backend,              \* the issue backend this process was started for
  tokens,               \* actors whose gateway token is live
  job,                  \* what each thread is doing
  submitted,            \* number of credentials submitted
  held,                 \* history: <<actor, backend>> whose enrolment was acknowledged and stands
  dropped,              \* history: those of them a boot over a broken file lost sight of
  gone,                 \* history: secrets whose removal was acknowledged
  edits, restarts       \* counters of the bounds

copy == <<value, seen>>
boot == <<masters, active, backend, restarts>>
history == <<held, dropped, gone>>
vars == <<disk, copy, writer, boot, tokens, job, submitted, history, edits>>

-------------------------------------------------------------------------------
(***************************************************************************)
(* Records and layouts.                                                    *)
(***************************************************************************)
Empty == [a \in {} |-> a]

\* d[k] = v on a dict, or on a copy of it.
Put(d, k, v) == [x \in DOMAIN d \cup {k} |-> IF x = k THEN v ELSE d[x]]

Secret(a, b, n) == [of |-> a, for |-> b, n |-> n]

\* A record of a version that knew one backend only: sealed to the actor alone.
Legacy(a, key) ==
  [key |-> key, backend |-> NoBackend, aad |-> <<a>>, secret |-> Secret(a, Redmine, 0)]

Seal(a, b, n) == [key |-> active, backend |-> b, aad |-> <<a, b>>, secret |-> Secret(a, b, n)]

\* An actor's entry is one record, or a record per backend.
Flat(r) == [flat |-> TRUE, rec |-> r]
Nested(recs) == [flat |-> FALSE, recs |-> recs]

Home(r) == IF r.backend = NoBackend THEN Redmine ELSE r.backend

\* The records of an entry by backend.
ByBackend(entry) == IF entry.flat THEN Put(Empty, Home(entry.rec), entry.rec) ELSE entry.recs

\* _get_record: at most one.
Found(recs, a, b) ==
  IF a \in DOMAIN recs /\ b \in DOMAIN ByBackend(recs[a]) THEN {ByBackend(recs[a])[b]} ELSE {}

\* Faulty variant: the entry is rebuilt from the new record alone.
WithRecordAlone(recs, a, b, r) == Put(recs, a, Nested(Put(Empty, b, r)))

\* What set() writes ...
WithRecord(recs, a, b, r) ==
  LET others == IF a \in DOMAIN recs THEN ByBackend(recs[a]) ELSE Empty
  IN  Put(recs, a, Nested(Put(others, b, r)))

\* ... and clear(), which drops an actor with nothing left.
WithoutRecord(recs, a, b) ==
  LET others == [c \in DOMAIN ByBackend(recs[a]) \ {b} |-> ByBackend(recs[a])[c]]
  IN  IF DOMAIN others = {}
      THEN [x \in DOMAIN recs \ {a} |-> recs[x]]
      ELSE [recs EXCEPT ![a] = Nested(others)]

degraded == active = NoKey

\* Faulty variant: the associated data is the actor in every record.
UnsealsForActor(r, a, b) == r.key \in masters /\ r.aad[1] = a

\* AES-GCM: a record opens under its own key and the data it was sealed with.
Unseals(r, a, b) ==
  r.key \in masters /\ r.aad = IF r.backend = NoBackend THEN <<a>> ELSE <<a, b>>

\* Faulty variant: an outage of the master key looks like nothing enrolled.
GetOutageMissing(recs, a, b) ==
  IF Found(recs, a, b) = {} \/ degraded
  THEN [state |-> "missing", secret |-> NoSecret]
  ELSE LET r == CHOOSE r \in Found(recs, a, b) : TRUE
       IN  IF Unseals(r, a, b) THEN [state |-> "ok", secret |-> r.secret]
                               ELSE [state |-> "undecryptable", secret |-> NoSecret]

Get(recs, a, b) ==
  IF Found(recs, a, b) = {}
  THEN [state |-> "missing", secret |-> NoSecret]
  ELSE IF degraded
  THEN [state |-> "degraded", secret |-> NoSecret]
  ELSE LET r == CHOOSE r \in Found(recs, a, b) : TRUE
       IN  IF Unseals(r, a, b) THEN [state |-> "ok", secret |-> r.secret]
                               ELSE [state |-> "undecryptable", secret |-> NoSecret]

-------------------------------------------------------------------------------
Idle == [at |-> "idle"]

\* A boot reads the file, or starts empty over one that does not parse.
Loaded(contents) == IF contents = Corrupt THEN Empty ELSE contents

\* load_master_keys: any keys; the active one is among them, if there is one.
Boot(keys, key, b) ==
  /\ masters' = keys
  /\ key \in IF keys = {} THEN {NoKey} ELSE keys
  /\ active' = key
  /\ backend' = b

Init ==
  /\ disk \in {Empty} \cup {Put(Empty, a, Flat(Legacy(a, key))) : a \in Actors, key \in Keys}
  /\ seen = TRUE
  /\ value = Loaded(disk)
  /\ writer = NoThread
  /\ masters \in SUBSET Keys
  /\ active \in IF masters = {} THEN {NoKey} ELSE masters
  /\ backend \in Backends
  /\ tokens = Actors
  /\ job = [th \in Threads |-> Idle]
  /\ submitted = 0
  /\ held = {<<a, Redmine>> : a \in DOMAIN value}
  /\ dropped = {} /\ gone = {}
  /\ edits = 0 /\ restarts = 0

\* ReloadingFile.refresh.
Refresh ==
  /\ value' = IF seen \/ disk = Corrupt THEN value ELSE disk
  /\ seen' = TRUE

Goto(th, j) == job' = [job EXCEPT ![th] = j]

\* POST /internal/credentials, up to the question to the tracker.
SetKey(th, a) ==
  /\ job[th] = Idle
  /\ a \in tokens
  /\ ~degraded
  /\ submitted < MaxSets
  /\ Goto(th, [at |-> "verify", actor |-> a])
  /\ UNCHANGED <<disk, copy, writer, boot, tokens, submitted, history, edits>>

\* The tracker does not know the credential, or knows it as somebody else's.
Reject(th) ==
  /\ job[th].at = "verify"
  /\ Goto(th, Idle)
  /\ UNCHANGED <<disk, copy, writer, boot, tokens, submitted, history, edits>>

\* The tracker answers with the caller's own address: set() seals the credential.
Encrypt(th) ==
  /\ job[th].at = "verify"
  /\ submitted < MaxSets
  /\ submitted' = submitted + 1
  /\ Goto(th, [at |-> "enter", actor |-> job[th].actor,
               adds |-> {Seal(job[th].actor, backend, submitted + 1)}])
  /\ UNCHANGED <<disk, copy, writer, boot, tokens, history, edits>>

\* DELETE /internal/credentials.
ClearKey(th, a) ==
  /\ job[th] = Idle
  /\ a \in tokens
  /\ Goto(th, [at |-> "enter", actor |-> a, adds |-> {}])
  /\ UNCHANGED <<disk, copy, writer, boot, tokens, submitted, history, edits>>

\* set() and clear() take the lock and reload.
Enter(th) ==
  /\ job[th].at = "enter"
  /\ writer = NoThread
  /\ writer' = th
  /\ Refresh
  /\ Goto(th, [job[th] EXCEPT !.at = "change"])
  /\ UNCHANGED <<disk, boot, tokens, submitted, history, edits>>

\* clear() finds nothing to remove.
ClearNothing(th) ==
  /\ job[th].at = "change"
  /\ job[th].adds = {}
  /\ Found(value, job[th].actor, backend) = {}
  /\ writer' = NoThread
  /\ Goto(th, Idle)
  /\ UNCHANGED <<disk, copy, boot, tokens, submitted, history, edits>>

\* Otherwise the file is replaced ...
Change(th) ==
  /\ job[th].at = "change"
  /\ LET a == job[th].actor
         old == Found(value, a, backend)
     IN  /\ job[th].adds = {} => old # {}
         /\ disk' = IF job[th].adds = {} THEN WithoutRecord(value, a, backend)
                    ELSE WithRecord(value, a, backend, CHOOSE r \in job[th].adds : TRUE)
         /\ seen' = FALSE
         /\ held' = held \ {<<a, backend>>}
         /\ dropped' = dropped \ {<<a, backend>>}
         /\ Goto(th, [at |-> "publish", actor |-> a, adds |-> job[th].adds,
                      drops |-> {r.secret : r \in old} \cap {Secret(a, backend, n) : n \in 0 .. submitted},
                      records |-> disk'])
  /\ UNCHANGED <<value, writer, boot, tokens, submitted, gone, edits>>

\* Faulty variant: the signature is recorded, the value forgotten.
PublishSignature(th) ==
  /\ job[th].at = "publish"
  /\ seen' = TRUE
  /\ writer' = NoThread
  /\ held' = IF job[th].adds = {} THEN held ELSE held \cup {<<job[th].actor, backend>>}
  /\ gone' = gone \cup job[th].drops
  /\ Goto(th, Idle)
  /\ UNCHANGED <<disk, value, boot, tokens, submitted, dropped, edits>>

\* ... and what was written is published; the caller is told.
Publish(th) ==
  /\ job[th].at = "publish"
  /\ value' = job[th].records
  /\ seen' = TRUE
  /\ writer' = NoThread
  /\ held' = IF job[th].adds = {} THEN held ELSE held \cup {<<job[th].actor, backend>>}
  /\ gone' = gone \cup job[th].drops
  /\ Goto(th, Idle)
  /\ UNCHANGED <<disk, boot, tokens, submitted, dropped, edits>>

\* What the history says of an actor at the beginning of a call.
Known(a) == [past |-> {s \in gone : s.of = a},
             secure |-> <<a, backend>> \in held, dropped |-> <<a, backend>> \in dropped]

\* get(): the reload.
Look(th, a) ==
  /\ job[th] = Idle
  /\ a \in tokens
  /\ Refresh
  /\ Goto(th, [at |-> "look", actor |-> a, known |-> Known(a)])
  /\ UNCHANGED <<disk, writer, boot, tokens, submitted, history, edits>>

\* An operator who offboards an actor confirms that the record is gone, and then
\* revokes the token, which the authenticator sees at once.
Revoke(a) ==
  /\ a \in tokens
  /\ disk # Corrupt
  /\ a \notin DOMAIN disk
  /\ tokens' = tokens \ {a}
  /\ UNCHANGED <<disk, copy, writer, boot, job, submitted, history, edits>>

-------------------------------------------------------------------------------
\* Somebody edits the file while nobody writes it ...
Edit(contents) ==
  /\ writer = NoThread
  /\ edits < MaxEdits
  /\ edits' = edits + 1
  /\ disk' = contents
  /\ seen' = FALSE
  /\ UNCHANGED <<value, writer, boot, tokens, job, submitted>>

\* ... removes an actor, ...
EditOut(a) ==
  /\ disk # Corrupt
  /\ a \in DOMAIN disk
  /\ Edit([x \in DOMAIN disk \ {a} |-> disk[x]])
  /\ held' = {h \in held : h[1] # a}
  /\ UNCHANGED <<dropped, gone>>

\* ... presents a record as another actor's or another backend's -- a legacy record
\* only as another actor's: it was never bound to a backend ...
EditMove(a, b, to, tob) ==
  /\ disk # Corrupt
  /\ <<a, b>> # <<to, tob>>
  /\ \E r \in Found(disk, a, b) :
       /\ r.backend = NoBackend => tob = Redmine
       /\ Edit(WithRecord(disk, to, tob, r))
       /\ gone' = gone \ {r.secret}
  /\ held' = held \ {<<to, tob>>}
  /\ UNCHANGED dropped

\* ... or leaves something that does not parse.
EditCorrupt ==
  /\ disk # Corrupt
  /\ Edit(Corrupt)
  /\ UNCHANGED history

\* The process starts again, perhaps with other master keys or another backend.
Restart ==
  /\ restarts < MaxRestarts
  /\ restarts' = restarts + 1
  /\ \E keys \in SUBSET Keys : \E key \in Keys \cup {NoKey} : \E b \in Backends : Boot(keys, key, b)
  /\ value' = Loaded(disk)
  /\ seen' = TRUE
  /\ writer' = NoThread
  /\ job' = [th \in Threads |-> Idle]
  /\ dropped' = IF disk = Corrupt THEN held ELSE dropped
  /\ UNCHANGED <<disk, tokens, submitted, held, gone, edits>>

ApiStep(th) ==
  \/ \E a \in Actors : SetKey(th, a) \/ ClearKey(th, a)
  \/ Reject(th)
  \/ Encrypt(th)
  \/ Enter(th)
  \/ ClearNothing(th)
  \/ Change(th)
  \/ Publish(th)

Outside ==
  \/ \E a \in Actors : Revoke(a)
  \/ \E a \in Actors : EditOut(a)
  \/ \E a, to \in Actors, b, tob \in Backends : EditMove(a, b, to, tob)
  \/ EditCorrupt
  \/ Restart
===============================================================================

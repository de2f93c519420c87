-------------------------------- MODULE HotFile --------------------------------
(***************************************************************************)
(* ReloadingFile and atomic_write_json (hotfile.py): a parsed value that   *)
(* follows a file on disk.  The token store, the OIDC grants, the memory   *)
(* routing table and the docs registry are edited by an operator or by     *)
(* another process; the credential store is written by this process, which *)
(* publishes what it wrote.                                                *)
(*                                                                         *)
(* Every write makes a new version of the file (os.replace: a new inode,   *)
(* so a new signature), and a reader sees a version whole.  Versions       *)
(* count up; a value is the version it was parsed from.  Readers take no   *)
(* lock to look at the value and the signature, so what refresh() does     *)
(* under the lock is split where a reader can look in between.             *)
(***************************************************************************)
EXTENDS Naturals

CONSTANTS
  Threads,      \* the threads that access the value
  NoThread,     \* the lock is free
  Publisher,    \* the thread that writes the file itself and publishes
  MaxVersion    \* bound: versions of the file

ASSUME ThreadsAssumption == NoThread \notin Threads /\ Publisher \notin Threads /\ Publisher # NoThread
ASSUME VersionsAssumption == MaxVersion \in Nat \ {0}

VARIABLES
  disk,         \* the version on disk
  bad,          \* the versions that do not parse
  value,        \* self._value; 0 is `initial`
  sig,          \* self._sig: the version it was taken of; 0 is _UNSET
  stale,        \* self._stale
  lock,         \* self._lock
  pc,           \* where each access is
  seen,         \* the signature an access has read
  start,        \* history: the version on disk when the access began
  own,          \* where the publisher is, and the version it wrote
  retry,        \* configuration: retry_failed
  writers       \* configuration: who writes the file

file == <<disk, bad>>
copy == <<value, sig, stale, lock>>
access == <<pc, seen, start>>
config == <<retry, writers>>
vars == <<file, copy, access, own, config>>

Idle == [at |-> "idle", version |-> 0]

Start(kinds) ==
  /\ disk = 1
  /\ bad \in SUBSET {1}
  /\ value = 0 /\ sig = 0 /\ stale = FALSE /\ lock = NoThread
  /\ pc = [th \in Threads |-> "idle"]
  /\ seen = [th \in Threads |-> 0]
  /\ start = [th \in Threads |-> 0]
  /\ own = Idle
  /\ retry \in BOOLEAN
  /\ writers \in kinds

\* A file has one writer: somebody outside, or the store that reads it.
Init == Start({{"outside"}, {"own"}})

\* ... or, against that rule, both.
SharedInit == Start({{"outside", "own"}})

-------------------------------------------------------------------------------
\* Somebody replaces the file, with something that parses or not.
Edit(good) ==
  /\ "outside" \in writers
  /\ disk < MaxVersion
  /\ disk' = disk + 1
  /\ bad' = IF good THEN bad ELSE bad \cup {disk + 1}
  /\ UNCHANGED <<copy, access, own, config>>

\* refresh() reads the signature of the file ...
Stat(th) ==
  /\ pc[th] = "idle"
  /\ pc' = [pc EXCEPT ![th] = "compare"]
  /\ seen' = [seen EXCEPT ![th] = disk]
  /\ start' = [start EXCEPT ![th] = disk]
  /\ UNCHANGED <<file, copy, own, config>>

\* ... and compares it with the stored one, without the lock.
Compare(th) ==
  /\ pc[th] = "compare"
  /\ pc' = [pc EXCEPT ![th] = IF seen[th] = sig THEN "return" ELSE "acquire"]
  /\ UNCHANGED <<file, copy, seen, start, own, config>>

\* Faulty variant: a thread that finds the lock taken leaves the reload to its owner.
TryAcquire(th) ==
  /\ pc[th] = "acquire"
  /\ lock' = IF lock = NoThread THEN th ELSE lock
  /\ pc' = [pc EXCEPT ![th] = IF lock = NoThread THEN "recheck" ELSE "return"]
  /\ UNCHANGED <<file, value, sig, stale, seen, start, own, config>>

Acquire(th) ==
  /\ pc[th] = "acquire"
  /\ lock = NoThread
  /\ lock' = th
  /\ pc' = [pc EXCEPT ![th] = "recheck"]
  /\ UNCHANGED <<file, value, sig, stale, seen, start, own, config>>

\* Faulty variant: the early return keeps the lock.
RecheckKeepsLock(th) ==
  /\ pc[th] = "recheck"
  /\ seen' = [seen EXCEPT ![th] = disk]
  /\ pc' = [pc EXCEPT ![th] = IF disk = sig THEN "return" ELSE "parse"]
  /\ UNCHANGED <<file, copy, start, own, config>>

\* Under the lock the signature is read again: somebody may have reloaded.
Recheck(th) ==
  /\ pc[th] = "recheck"
  /\ seen' = [seen EXCEPT ![th] = disk]
  /\ IF disk = sig
     THEN pc' = [pc EXCEPT ![th] = "return"] /\ lock' = NoThread
     ELSE pc' = [pc EXCEPT ![th] = "parse"] /\ lock' = lock
  /\ UNCHANGED <<file, value, sig, stale, start, own, config>>

\* Faulty variant: what is bound was loaded before the lock was taken.
ParseEarly(th) ==
  /\ pc[th] = "parse"
  /\ start[th] \notin bad
  /\ value' = start[th]
  /\ pc' = [pc EXCEPT ![th] = "stamp"]
  /\ UNCHANGED <<file, sig, stale, lock, seen, start, own, config>>

\* The file as it is by now parses: the value is bound first ...
ParseGood(th) ==
  /\ pc[th] = "parse"
  /\ disk \notin bad
  /\ value' = disk
  /\ pc' = [pc EXCEPT ![th] = "stamp"]
  /\ UNCHANGED <<file, sig, stale, lock, seen, start, own, config>>

\* Faulty variant: the signature is read after the parse.
StampLate(th) ==
  /\ pc[th] = "stamp"
  /\ sig' = disk
  /\ stale' = FALSE
  /\ lock' = NoThread
  /\ pc' = [pc EXCEPT ![th] = "return"]
  /\ UNCHANGED <<file, value, seen, start, own, config>>

\* ... and the signature read before the parse after it.
Stamp(th) ==
  /\ pc[th] = "stamp"
  /\ sig' = seen[th]
  /\ stale' = FALSE
  /\ lock' = NoThread
  /\ pc' = [pc EXCEPT ![th] = "return"]
  /\ UNCHANGED <<file, value, seen, start, own, config>>

\* It does not parse: the last good value stays and is flagged; whether the
\* signature is recorded says when the next attempt is made.
ParseBad(th) ==
  /\ pc[th] = "parse"
  /\ disk \in bad
  /\ stale' = TRUE
  /\ sig' = IF retry THEN sig ELSE seen[th]
  /\ lock' = NoThread
  /\ pc' = [pc EXCEPT ![th] = "return"]
  /\ UNCHANGED <<file, value, seen, start, own, config>>

\* `current` returns self._value.
Return(th) ==
  /\ pc[th] = "return"
  /\ pc' = [pc EXCEPT ![th] = "idle"]
  /\ UNCHANGED <<file, copy, seen, start, own, config>>

\* CredentialStore._atomic_write: the file is replaced, and then published.
OwnWrite ==
  /\ "own" \in writers
  /\ own = Idle
  /\ disk < MaxVersion
  /\ disk' = disk + 1
  /\ own' = [at |-> "written", version |-> disk + 1]
  /\ UNCHANGED <<bad, copy, access, config>>

\* publish(): under the lock the value is bound ...
PublishValue ==
  /\ own.at = "written"
  /\ lock = NoThread
  /\ lock' = Publisher
  /\ value' = own.version
  /\ own' = [own EXCEPT !.at = "stamp"]
  /\ UNCHANGED <<file, sig, stale, access, config>>

\* ... and stamped with the signature the file has by now.
PublishStamp ==
  /\ own.at = "stamp"
  /\ sig' = disk
  /\ stale' = FALSE
  /\ lock' = NoThread
  /\ own' = Idle
  /\ UNCHANGED <<file, value, access, config>>

Step(th) ==
  \/ Compare(th) \/ Acquire(th) \/ Recheck(th)
  \/ ParseGood(th) \/ Stamp(th) \/ ParseBad(th)
  \/ Return(th)

Next ==
  \/ \E good \in BOOLEAN : Edit(good)
  \/ \E th \in Threads : Stat(th) \/ Step(th)
  \/ OwnWrite
  \/ PublishValue
  \/ PublishStamp

\* A thread inside an access is scheduled, and so is one that is publishing.
\* Nothing obliges anybody to access the value or to write the file.
Fairness ==
  /\ \A th \in Threads : WF_vars(Step(th))
  /\ WF_vars(PublishValue \/ PublishStamp)

Spec == Init /\ [][Next]_vars /\ Fairness

SharedSpec == SharedInit /\ [][Next]_vars

-------------------------------------------------------------------------------
(***************************************************************************)
(* Properties.                                                             *)
(***************************************************************************)
Holding == {"recheck", "parse", "stamp"}

TypeOK ==
  /\ disk \in 1 .. MaxVersion
  /\ bad \subseteq 1 .. disk
  /\ value \in 0 .. disk /\ sig \in 0 .. disk
  /\ stale \in BOOLEAN
  /\ lock \in Threads \cup {NoThread, Publisher}
  /\ pc \in [Threads -> {"idle", "compare", "acquire", "return"} \cup Holding]
  /\ seen \in [Threads -> 0 .. disk]
  /\ start \in [Threads -> 0 .. disk]
  /\ own \in [at : {"idle", "written", "stamp"}, version : 0 .. disk]
  /\ retry \in BOOLEAN
  /\ writers \in SUBSET {"outside", "own"}

\* A version is recorded as seen only once the value reflects it: whenever the
\* signature matches the file and nobody is reloading, the value is the file's, or
\* the file does not parse and the copy says that it is out of date.
SeenMeansServed ==
  lock = NoThread /\ sig = disk =>
    IF disk \in bad THEN stale /\ value < disk
                    ELSE ~stale /\ value = disk

\* An access returns what was on disk when it began, or something newer -- unless
\* that version or a later one did not parse, when it may be the last good one.
Freshness ==
  \A th \in Threads : pc[th] = "return" =>
    \/ value >= start[th]
    \/ \E b \in bad : b >= start[th]

\* Two threads that both saw a change never publish the older version last.
NeverBackwards == [][value' >= value]_value

\* Once the file has stopped changing every access ends, also those that wait for
\* the lock -- except where a file that never parses is retried on each access.
AccessEnds ==
  \A th \in Threads :
    pc[th] # "idle" /\ disk = MaxVersion /\ (retry => disk \notin bad) ~> pc[th] = "idle"
===============================================================================

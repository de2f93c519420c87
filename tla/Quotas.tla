-------------------------------- MODULE Quotas --------------------------------
(***************************************************************************)
(* The quotas of InMemoryMemoryWriteLimiter (limits.py): reads and writes  *)
(* of a user in a minute, writes of a project in a day.  The clock is read *)
(* before the lock is taken, so calls are not decided in the order of      *)
(* their times.                                                            *)
(*                                                                         *)
(* That clock is the wall clock.  Here it runs as time does: nobody sets   *)
(* it, and what is said of the quotas is said of that.                     *)
(*                                                                         *)
(* One project; a user stands for a pair of actor and project.             *)
(***************************************************************************)
EXTENDS Integers, Sequences, FiniteSets

CONSTANTS
  Threads,
  Users,
  PerMinute,     \* [Kinds -> limit]: user_reads_per_minute, user_writes_per_minute
  PerDay,        \* project_writes_per_day
  Minute, Day,   \* their lengths
  Stall,         \* the longest a thread takes from the clock to the lock
  MaxTime

Kinds == {"read", "write"}

ASSUME QuotaAssumption ==
  /\ PerMinute \in [Kinds -> Nat \ {0}]
  /\ PerDay \in Nat \ {0}
  /\ {Minute, Day} \subseteq Nat \ {0}
  /\ {Stall, MaxTime} \subseteq Nat

VARIABLES
  time,       \* time.time
  call,       \* what each thread's tool call is doing
  recent,     \* _user_minute_reads and _user_minute_writes
  dayWrites,  \* _project_day_writes: a day and the writes counted for it
  granted     \* history: the calls within quota, in the order they were decided

quotaVars == <<time, call, recent, dayWrites, granted>>

DayIndex(now) == now \div Day

QuotaInit ==
  /\ time = 0
  /\ call = [t \in Threads |-> [step |-> "idle"]]
  /\ recent = [p \in Kinds \X Users |-> << >>]
  /\ dayWrites = [day |-> 0, count |-> 0]
  /\ granted = << >>

\* check_read and check_and_record look at the clock.
Ask(t, kind, user) ==
  /\ call[t].step = "idle"
  /\ call' = [call EXCEPT ![t] = [step |-> "decide", kind |-> kind, user |-> user, now |-> time]]
  /\ UNCHANGED <<time, recent, dayWrites, granted>>

\* Faulty variant: everything before this very moment is dropped.
WithinAMoment(times, now) == SelectSeq(times, LAMBDA x : x >= now)

\* The times still counted: old ones are dropped from the front, up to the first that is
\* young enough.
Within(times, now) ==
  LET dropped == {n \in 1 .. Len(times) : \A i \in 1 .. n : times[i] <= now - Minute}
  IN  SubSeq(times, Cardinality(dropped) + 1, Len(times))

\* Writes counted for the day of a call; a change of day starts again from zero.
Used(now) == IF dayWrites.day = DayIndex(now) THEN dayWrites.count ELSE 0

\* Faulty variant: the first write of a day is not counted.
CountedLate(now) ==
  IF dayWrites.day = DayIndex(now) THEN dayWrites.count + 1 ELSE 0

Counted(now) == Used(now) + 1

\* The decision, and its record, under the lock: the user's minute, then (for a write)
\* the project's day; a refusal has dropped the old times and nothing else.
Decide(t) ==
  LET c == call[t]
      times == Within(recent[<<c.kind, c.user>>], c.now)
      within == /\ Len(times) < PerMinute[c.kind]
                /\ c.kind = "write" => Used(c.now) < PerDay
  IN  /\ c.step = "decide"
      /\ recent' = [recent EXCEPT ![<<c.kind, c.user>>] =
           IF within THEN Append(times, c.now) ELSE times]
      /\ dayWrites' = IF within /\ c.kind = "write"
                      THEN [day |-> DayIndex(c.now), count |-> Counted(c.now)]
                      ELSE dayWrites
      /\ granted' = IF within
                    THEN Append(granted, [kind |-> c.kind, user |-> c.user, now |-> c.now, at |-> time])
                    ELSE granted
      /\ call' = [call EXCEPT ![t] =
           IF within THEN [step |-> "admitted", kind |-> c.kind] ELSE [step |-> "idle"]]
      /\ UNCHANGED time

\* The tool that asked goes on.
Proceed(t, kind) ==
  /\ call[t] = [step |-> "admitted", kind |-> kind]
  /\ call' = [call EXCEPT ![t] = [step |-> "idle"]]
  /\ UNCHANGED <<time, recent, dayWrites, granted>>

\* Time goes on, and nobody sets the clock; a thread comes from the clock to the lock
\* within Stall.
Tick ==
  /\ time < MaxTime
  /\ \A t \in Threads : call[t].step = "decide" => time - call[t].now < Stall
  /\ time' = time + 1
  /\ UNCHANGED <<call, recent, dayWrites, granted>>

-------------------------------------------------------------------------------
QuotaTypeOK ==
  LET now == 0 .. MaxTime
  IN  /\ time \in now
      /\ call \in [Threads ->
           [step : {"idle"}]
             \cup [step : {"decide"}, kind : Kinds, user : Users, now : now]
             \cup [step : {"admitted"}, kind : Kinds]]
      /\ recent \in [Kinds \X Users -> Seq(now)]
      /\ dayWrites \in [day : 0 .. MaxTime \div Day, count : 0 .. PerDay]
      /\ granted \in Seq([kind : Kinds, user : Users, now : now, at : now])

\* However the calls of a user overlap, one more of a kind than the minute's limit is
\* never let through within a minute, shortened by the time a thread may stall between
\* the clock and the lock, by a clock that nobody sets.
QuotaPerMinute ==
  \A k \in Kinds, u \in Users : \A i, j \in 1 .. Len(granted) :
    LET own == {n \in i .. j : granted[n].kind = k /\ granted[n].user = u}
    IN  Cardinality(own) > PerMinute[k] => granted[j].at - granted[i].at >= Minute - Stall

\* A project's writes of one day stay within its limit as long as no write of another
\* day is decided among them.  (At midnight one may be: a thread that read the clock
\* before it and takes the lock after another one of the new day starts the count again,
\* for its own day and then for the next write of the new one.)
QuotaPerDay ==
  \A i, j \in 1 .. Len(granted) :
    LET writes == {n \in i .. j : granted[n].kind = "write"}
    IN  Cardinality(writes) > PerDay =>
          \E m, n \in writes : DayIndex(granted[m].now) # DayIndex(granted[n].now)
===============================================================================

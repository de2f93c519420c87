------------------------------- MODULE KeyCache -------------------------------
(***************************************************************************)
(* The identity provider's signing keys as JwksCache (oidc.py) has them:   *)
(* one fetch begun per cool-down, made outside the lock, while other       *)
(* logins use the keys of the last good fetch and the provider rotates its *)
(* keys.  A fetch may take any time (the time-out bounds each wait for     *)
(* data), so that fetches overlap.                                         *)
(***************************************************************************)
EXTENDS Integers, FiniteSets

CONSTANTS
  Threads,
  Kids,        \* key ids
  NoKid,       \* a token whose header names no key
  Ttl,         \* ttl_sec
  Cooldown,    \* refetch_cooldown_sec
  Boots,       \* what time.monotonic may say when the process starts
  MaxClock

ASSUME KeyAssumption ==
  /\ {Ttl, Cooldown, MaxClock} \subseteq Nat
  /\ Boots \subseteq 0 .. MaxClock
  /\ NoKid \notin Kids

VARIABLES
  clock,        \* time.monotonic
  published,    \* the keys the provider publishes
  keys,         \* _keys
  asked,        \* history: when the provider gave them
  claimed,      \* history: what the login that stored them saw on the clock
  fetchedAt, lastAttempt,
  failing,      \* history: the last fetch that ended came to nothing
  login         \* what each thread's login is doing

keyVars == <<clock, published, keys, asked, claimed, fetchedAt, lastAttempt, failing, login>>

KeyInit ==
  /\ clock \in Boots
  /\ published \in (SUBSET Kids) \ {{}}
  /\ keys = {}
  /\ asked = 0
  /\ claimed = 0
  /\ fetchedAt = 0
  /\ lastAttempt = 0
  /\ failing = FALSE
  /\ login = [t \in Threads |-> [step |-> "idle"]]

-------------------------------------------------------------------------------
\* A login between its look at the keys and the end of its fetch.
Fetching == {t \in Threads : login[t].step \in {"fetch", "store"}}

\* get: the clock is read before the lock is taken.
Ask(t, kid) ==
  /\ login[t].step = "idle"
  /\ login' = [login EXCEPT ![t] = [step |-> "decide", kid |-> kid, now |-> clock]]
  /\ UNCHANGED <<clock, published, keys, asked, claimed, fetchedAt, lastAttempt, failing>>

\* Faulty variant: keys are fetched once and then kept.
StaleWhenEmpty(now) == keys = {}

Stale(now) == keys = {} \/ now - fetchedAt > Ttl
Unknown(kid) == keys # {} /\ kid # NoKid /\ kid \notin keys

\* Whether this login is the one to fetch.
Mine(l) == (Stale(l.now) \/ Unknown(l.kid)) /\ l.now - lastAttempt > Cooldown

\* Faulty variant: the attempt is not claimed.
DecideUnclaimed(t) ==
  LET l == login[t]
  IN  /\ l.step = "decide"
      /\ login' = [login EXCEPT ![t] =
           [step |-> IF Mine(l) THEN "fetch" ELSE "pick",
            kid |-> l.kid, now |-> l.now, busy |-> Fetching # {}]]
      /\ UNCHANGED <<clock, published, keys, asked, claimed, fetchedAt, lastAttempt, failing>>

\* Decided, and the attempt claimed, under the lock.  (busy is history: another login
\* is fetching.)
Decide(t) ==
  LET l == login[t]
  IN  /\ l.step = "decide"
      /\ login' = [login EXCEPT ![t] =
           [step |-> IF Mine(l) THEN "fetch" ELSE "pick",
            kid |-> l.kid, now |-> l.now, busy |-> Fetching # {}]]
      /\ lastAttempt' = IF Mine(l) THEN l.now ELSE lastAttempt
      /\ UNCHANGED <<clock, published, keys, asked, claimed, fetchedAt, failing>>

\* The provider answers; nothing of it is seen by others yet.
Fetch(t) ==
  /\ login[t].step = "fetch"
  /\ published # {}
  /\ login' = [login EXCEPT ![t] =
       [step |-> "store", kid |-> @.kid, now |-> @.now, busy |-> @.busy,
        got |-> published, at |-> clock]]
  /\ UNCHANGED <<clock, published, keys, asked, claimed, fetchedAt, lastAttempt, failing>>

\* Any failure, a key set without a usable key among them, keeps the last good keys.
FetchFails(t) ==
  /\ login[t].step = "fetch"
  /\ failing' = TRUE
  /\ login' = [login EXCEPT ![t].step = "pick"]
  /\ UNCHANGED <<clock, published, keys, asked, claimed, fetchedAt, lastAttempt>>

Store(t) ==
  LET l == login[t]
  IN  /\ l.step = "store"
      /\ keys' = l.got
      /\ asked' = l.at
      /\ claimed' = l.now
      /\ fetchedAt' = clock
      /\ failing' = FALSE
      /\ login' = [login EXCEPT ![t] =
           [step |-> "pick", kid |-> l.kid, now |-> l.now, busy |-> l.busy]]
      /\ UNCHANGED <<clock, published, lastAttempt>>

\* The key a login is checked against; without an id only when there is no choice.
Candidates(kid) ==
  IF kid # NoKid THEN keys \cap {kid} ELSE IF Cardinality(keys) = 1 THEN keys ELSE {}

\* The keys are read once more, under the lock; signature, claims and grant decide.
Pick(t, key) ==
  /\ login[t].step = "pick"
  /\ key \in Candidates(login[t].kid)
  /\ login' = [login EXCEPT ![t] = [step |-> "idle"]]
  /\ UNCHANGED <<clock, published, keys, asked, claimed, fetchedAt, lastAttempt, failing>>

\* "unknown token key"
Refuse(t) ==
  /\ login[t].step = "pick"
  /\ Candidates(login[t].kid) = {}
  /\ login' = [login EXCEPT ![t] = [step |-> "idle"]]
  /\ UNCHANGED <<clock, published, keys, asked, claimed, fetchedAt, lastAttempt, failing>>

\* The provider introduces and withdraws keys.
Rotate(kid) ==
  /\ published' = IF kid \in published THEN published \ {kid} ELSE published \cup {kid}
  /\ UNCHANGED <<clock, keys, asked, claimed, fetchedAt, lastAttempt, failing, login>>

Tick ==
  /\ clock < MaxClock
  /\ clock' = clock + 1
  /\ UNCHANGED <<published, keys, asked, claimed, fetchedAt, lastAttempt, failing, login>>

\* Everything but the beginning of a login.
KeyNext ==
  \/ \E t \in Threads :
       \/ Decide(t) \/ Fetch(t) \/ FetchFails(t) \/ Store(t) \/ Refuse(t)
       \/ \E key \in Kids : Pick(t, key)
  \/ \E kid \in Kids : Rotate(kid)
  \/ Tick

-------------------------------------------------------------------------------
KeyTypeOK ==
  LET now == 0 .. MaxClock
      kid == Kids \cup {NoKid}
  IN  /\ {clock, asked, claimed, fetchedAt, lastAttempt} \subseteq now
      /\ {published, keys} \subseteq SUBSET Kids
      /\ failing \in BOOLEAN
      /\ login \in [Threads ->
           [step : {"idle"}]
             \cup [step : {"decide"}, kid : kid, now : now]
             \cup [step : {"fetch", "pick"}, kid : kid, now : now, busy : BOOLEAN]
             \cup [step : {"store"}, kid : kid, now : now, busy : BOOLEAN,
                   got : SUBSET Kids, at : now]]

\* The keys are fetched and stored without a lock between the two, and a store compares
\* nothing.  The cool-down is all that keeps the keys in use from being replaced by ones
\* the provider gave earlier, with a key it has withdrawn among them: that happens only
\* when one of the two fetches, from its login's look at the clock to the store, has
\* outlasted the cool-down.
KeysMoveForward ==
  [][asked' < asked => \/ fetchedAt - claimed > Cooldown
                       \/ fetchedAt' - claimed' > Cooldown]_keyVars

\* How old stored keys may be when a login begins: the cool-down lets keys that are past
\* ttl_sec stay when it is the longer of the two.
Lifetime == IF Ttl > Cooldown THEN Ttl ELSE Cooldown

\* A login is checked against a key that the provider still published one such lifetime,
\* and the time the fetch of the keys took, before the login began, or later -- unless
\* the last fetch failed, or the keys were just being fetched by another login: after an
\* idle spell that one login is checked against keys of any age.
KeysAgeOut ==
  [][\A t \in Threads, key \in Kids : Pick(t, key) =>
       \/ asked >= login[t].now - Lifetime - (fetchedAt - claimed)
       \/ failing
       \/ login[t].busy]_keyVars
===============================================================================

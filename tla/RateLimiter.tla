----------------------------- MODULE RateLimiter -----------------------------
(***************************************************************************)
(* security/rate_limiter.cpp: a fixed window of kWindow per client key.    *)
(*                                                                         *)
(* Session threads call allow() before every bind.  The clock is read      *)
(* before mutex_ is taken, so a call may work with a time that is older    *)
(* than the one an overtaking call has already used.  Time is in ticks and *)
(* a thread is at most MaxStall ticks behind, the time it may wait for the *)
(* mutex and the processor.                                                *)
(*                                                                         *)
(* max_per_minute_ is set once, before the first session starts            *)
(* (LdapDaemon::initialize), and is positive here: with 0 allow() answers  *)
(* true before it touches any state.                                       *)
(***************************************************************************)
EXTENDS Integers, FiniteSets

CONSTANTS
  Threads,       \* session threads
  Keys,          \* client addresses, as clientKey cuts them from the peer name
  MaxPerMinute,  \* config bind_rate_limit
  Window,        \* kWindow, in ticks
  PruneAt,       \* the 4096 buckets at which allow() looks for old ones
  MaxStall,      \* bound on the age of a clock reading when it is used
  MaxTime        \* bound on the clock

ASSUME LimiterAssumption ==
  /\ MaxPerMinute \in Nat \ {0} /\ Window \in Nat \ {0}
  /\ PruneAt \in Nat /\ MaxStall \in Nat /\ MaxTime \in Nat \ {0}

VARIABLES
  clock,     \* steady_clock
  buckets,   \* buckets_: the keys that have one, with window_start and count
  call,      \* the allow() call each thread is in: [key, now], or NoCall
  granted    \* history: the binds let through, each with its number among those of
             \* its key, the tick, and the bucket as it left it

vars == <<clock, buckets, call, granted>>

NoCall == [key |-> "none", now |-> 0]
Bucket == [window_start : Nat, count : Nat]
Calls == [key : Keys, now : 1..MaxTime]

-----------------------------------------------------------------------------
\* The clock advances; a reading that is MaxStall ticks old is used first.
tick ==
  /\ clock < MaxTime
  /\ \A t \in Threads : call[t] # NoCall => clock < call[t].now + MaxStall
  /\ clock' = clock + 1
  /\ UNCHANGED <<buckets, call, granted>>

\* allow() up to the lock: the key and the time.
allowReadClock(t) ==
  /\ call[t] = NoCall
  /\ \E k \in Keys : call' = [call EXCEPT ![t] = [key |-> k, now |-> clock]]
  /\ UNCHANGED <<clock, buckets, granted>>

\* The window that began at start is over at time now.
Over(now, start) == now >= start + Window

\* Mutant: all buckets go once there are too many.
pruneLocked_all(b, now) ==
  IF Cardinality(DOMAIN b) < PruneAt THEN b ELSE [k \in {} |-> 0]

\* pruneLocked.
pruneLocked(b, now) ==
  IF Cardinality(DOMAIN b) < PruneAt THEN b
  ELSE [k \in {j \in DOMAIN b : ~Over(now, b[j].window_start)} |-> b[k]]

\* Mutant: a window that is over starts again without a new count.
current_keepsCount(b, k, now) ==
  IF k \notin DOMAIN b THEN [window_start |-> now, count |-> 0]
  ELSE IF Over(now, b[k].window_start) THEN [b[k] EXCEPT !.window_start = now]
  ELSE b[k]

\* The bucket that the key's request is counted in: a fresh window if there is
\* none yet or the last one is over.
current(b, k, now) ==
  IF k \notin DOMAIN b THEN [window_start |-> now, count |-> 0]
  ELSE IF Over(now, b[k].window_start) THEN [window_start |-> now, count |-> 0]
  ELSE b[k]

Grant(k, new) ==
  [key |-> k, nth |-> Cardinality({g \in granted : g.key = k}) + 1, at |-> clock, bucket |-> new]

\* Mutant: one bind too many is let through.
allow_offByOne(t) ==
  LET c   == call[t]
      b   == pruneLocked(buckets, c.now)
      cur == current(b, c.key, c.now)
      ok  == cur.count <= MaxPerMinute
      new == IF ok THEN [cur EXCEPT !.count = @ + 1] ELSE cur
  IN  /\ c # NoCall
      /\ buckets' = [k \in DOMAIN b \cup {c.key} |-> IF k = c.key THEN new ELSE b[k]]
      /\ granted' = IF ok THEN granted \cup {Grant(c.key, new)} ELSE granted
      /\ call' = [call EXCEPT ![t] = NoCall]
      /\ UNCHANGED clock

\* The rest of allow(), under mutex_.
allow(t) ==
  LET c   == call[t]
      b   == pruneLocked(buckets, c.now)
      cur == current(b, c.key, c.now)
      ok  == cur.count < MaxPerMinute
      new == IF ok THEN [cur EXCEPT !.count = @ + 1] ELSE cur
  IN  /\ c # NoCall
      /\ buckets' = [k \in DOMAIN b \cup {c.key} |-> IF k = c.key THEN new ELSE b[k]]
      /\ granted' = IF ok THEN granted \cup {Grant(c.key, new)} ELSE granted
      /\ call' = [call EXCEPT ![t] = NoCall]
      /\ UNCHANGED clock

Init ==
  /\ clock = 1
  /\ buckets = [k \in {} |-> 0]
  /\ call = [t \in Threads |-> NoCall]
  /\ granted = {}

Next == tick \/ \E t \in Threads : allowReadClock(t) \/ allow(t)

Spec == Init /\ [][Next]_vars

-----------------------------------------------------------------------------
\* No bucket counts more than the limit, and no window starts in the future.
TypeOK ==
  /\ clock \in 1..MaxTime
  /\ DOMAIN buckets \subseteq Keys
  /\ \A k \in DOMAIN buckets :
       /\ buckets[k] \in Bucket
       /\ buckets[k].window_start \in 1..clock
       /\ buckets[k].count \in 0..MaxPerMinute
  /\ call \in [Threads -> Calls \cup {NoCall}]
  /\ granted \subseteq [key : Keys, nth : Nat, at : 1..clock, bucket : Bucket]

\* How often key k was let through from tick a to tick b.
Passed(k, a, b) == Cardinality({g \in granted : g.key = k /\ g.at \in a..b})

\* No thread is held up for more than half a window between its reading of the
\* clock and the mutex.
StallsShort == 2 * MaxStall <= Window

\* What a fixed window promises of "binds per minute per client IP": over any
\* stretch of Window ticks a client is let through at most three times the
\* limit, once for the window the stretch begins in, once for the one that
\* starts within it, and once for a window that starts in the past because a
\* reading of the clock was used late.  With longer stalls, a bucket that was
\* pruned meanwhile may start again in the past once more.
BurstBounded ==
  StallsShort =>
    \A k \in Keys, a \in 1..clock : Passed(k, a, a + Window - 1) <= 3 * MaxPerMinute

\* A client is turned away only if it really was let through MaxPerMinute
\* times in the last window, give or take the age of the clock readings: a
\* window that is over never keeps a client out, pruned or not.
RefusalJustified ==
  [][\A t \in Threads :
       call[t] # NoCall /\ call'[t] = NoCall /\ granted' = granted =>
         Passed(call[t].key, clock + 1 - (Window + MaxStall), clock) >= MaxPerMinute]_vars
=============================================================================

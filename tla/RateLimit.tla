----------------------------- MODULE RateLimit -----------------------------
(***************************************************************************)
(* security/rate_limit.py and the cut-offs of read_loop in                 *)
(* websocket/voice.py: token buckets that are refilled when they are used, *)
(* the HTTP limiter that forgets idle buckets, and the limiter of one      *)
(* websocket, which is dropped after too many violations.                  *)
(*                                                                         *)
(* The clock and the tokens are counted in whole units so small that Cost  *)
(* of them make one token.  A request is one step: the HTTP limiter holds  *)
(* its lock, and a connection's limiter is used by its own thread only.    *)
(* What a handler does with a frame that passes is VoiceServer; there are  *)
(* also the other ends of a socket.                                        *)
(***************************************************************************)
EXTENDS Integers, FiniteSets

CONSTANTS
  HttpKeys,       \* (scope, address) pairs
  Global,         \* the bucket that each event of the connection is taken from
  Kinds,          \* the event names, each with a bucket of its own
  Capacity, Refill, Cost,
  SweepEvery,     \* 300 s
  IdleAfter,      \* 900 s
  MaxViolations,  \* config.MAX_PROTOCOL_VIOLATIONS
  NoBucket,       \* in place of a bucket: there is none
  MaxTime         \* bound on the clock

Keys == HttpKeys \cup Kinds \cup {Global}

\* With the limits of config.py the last conjunct holds: the slowest bucket,
\* (20, 0.4), fills in 50 s.
ASSUME RateAssumption ==
  /\ Global \notin HttpKeys \cup Kinds /\ HttpKeys \cap Kinds = {}
  /\ Capacity \in [Keys -> Nat] /\ Refill \in [Keys -> Nat]
  /\ Cost \in Nat \ {0}
  /\ SweepEvery \in Nat /\ IdleAfter \in Nat
  /\ MaxViolations \in Nat /\ MaxTime \in Nat
  /\ NoBucket \notin [tokens : Int, updated : Int]
  /\ \A k \in HttpKeys : Refill[k] * IdleAfter >= Capacity[k]

VARIABLES
  now,          \* time.monotonic()
  bucket,       \* the TokenBucket of each key, HttpRateLimiter and EventRateLimiter
  swept,        \* HttpRateLimiter._swept
  violations,   \* EventRateLimiter.violations
  open,         \* the connection's read loop goes on
  watched,      \* ghost: the bucket that is looked at, any of them
  from,         \* ghost: the window that is looked at begins here, anywhere
  granted,      \* ghost: requests granted by that bucket in the window
  frames        \* ghost: frames of the connection read in the window

socketVars == <<violations, open, frames>>
window == <<watched, from>>
vars == <<now, bucket, swept, socketVars, window, granted>>

Bucket == [tokens : Nat, updated : Nat]

TypeOK ==
  /\ now \in Nat /\ swept \in Nat /\ from \in Nat
  /\ bucket \in [Keys -> Bucket \cup {NoBucket}]
  /\ bucket[Global] # NoBucket
  /\ violations \in Nat /\ open \in BOOLEAN
  /\ watched \in Keys /\ granted \in Nat /\ frames \in Nat

-----------------------------------------------------------------------------
(* TokenBucket *)

Least(a, b) == IF a <= b THEN a ELSE b

\* A new bucket is full.
Fresh(k) == [tokens |-> Capacity[k], updated |-> now]

\* A bucket is made when it is first needed.
Present(k, b) == IF b = NoBucket THEN Fresh(k) ELSE b

\* Mutant of Filled: what a bucket gains is not capped.
FilledOver(k, b) == b.tokens + Refill[k] * (now - b.updated)

Filled(k, b) ==
  Least(Capacity[k], b.tokens + Refill[k] * (now - b.updated))

Passes(k, b) == Filled(k, b) >= Cost

\* Mutant of Used: a refused request is paid for as well.
UsedAlways(k, b) == [tokens |-> Filled(k, b) - Cost, updated |-> now]

\* TokenBucket.allow: what is left of the bucket.
Used(k, b) ==
  [tokens |-> IF Passes(k, b) THEN Filled(k, b) - Cost ELSE Filled(k, b),
   updated |-> now]

\* Ghost: a request that the buckets in S grant.
Counted(S) == IF watched \in S /\ now >= from THEN granted + 1 ELSE granted

Init ==
  /\ now = 0 /\ swept = 0 /\ watched \in Keys /\ from \in 0..MaxTime
  /\ bucket = [k \in Keys |-> IF k = Global THEN Fresh(k) ELSE NoBucket]
  /\ violations = 0 /\ open = TRUE
  /\ granted = 0 /\ frames = 0

-----------------------------------------------------------------------------
(* HttpRateLimiter.allow *)

SweepDue == now - swept >= SweepEvery

\* Mutant of Idle: the time between two sweeps in place of the idle time.
IdleTooSoon(k) == bucket[k] # NoBucket /\ now - bucket[k].updated >= SweepEvery

\* Mutant of Idle: the time since the last sweep in place of the last use.
IdleSinceSweep(k) == bucket[k] # NoBucket /\ now - swept > IdleAfter

Idle(k) == bucket[k] # NoBucket /\ now - bucket[k].updated > IdleAfter

\* What _sweep keeps.
Kept == [k \in Keys |-> IF SweepDue /\ k \in HttpKeys /\ Idle(k)
                          THEN NoBucket ELSE bucket[k]]

SweptAt == IF SweepDue THEN now ELSE swept

HttpAllow(k) ==
  LET b == Present(k, Kept[k]) IN
  /\ bucket' = [Kept EXCEPT ![k] = Used(k, b)]
  /\ swept' = SweptAt
  /\ granted' = Counted(IF Passes(k, b) THEN {k} ELSE {})
  /\ UNCHANGED <<now, socketVars, window>>

-----------------------------------------------------------------------------
(* The read loop of one connection *)

Read == /\ open
        /\ frames' = IF now >= from THEN frames + 1 ELSE frames

\* parse_frame fails, or the event is unknown.
Invalid ==
  /\ Read
  /\ violations' = violations + 1
  /\ open' = (violations' <= MaxViolations)
  /\ UNCHANGED <<now, bucket, swept, window, granted>>

\* Mutant of Limited: a refusal does not end the loop.
LimitedForever ==
  /\ violations' = violations + 1
  /\ UNCHANGED open

\* A refused event is a violation too, and ends the loop after twice as many.
Limited ==
  /\ violations' = violations + 1
  /\ open' = (violations' <= 2 * MaxViolations)

\* EventRateLimiter.allow, no token left in the global bucket: the event's own
\* bucket is not looked at.
Flooded ==
  /\ Read /\ ~Passes(Global, bucket[Global])
  /\ bucket' = [bucket EXCEPT ![Global] = Used(Global, @)]
  /\ Limited
  /\ UNCHANGED <<now, swept, window, granted>>

\* The global token is gone also if the event's own bucket then refuses.
Event(e) ==
  LET b == Present(e, bucket[e]) IN
  /\ Read /\ Passes(Global, bucket[Global])
  /\ bucket' = [bucket EXCEPT ![Global] = Used(Global, @), ![e] = Used(e, b)]
  /\ granted' = Counted(IF Passes(e, b) THEN {Global, e} ELSE {Global})
  /\ IF Passes(e, b) THEN UNCHANGED <<violations, open>> ELSE Limited
  /\ UNCHANGED <<now, swept, window>>

-----------------------------------------------------------------------------
Tick ==
  /\ now < MaxTime
  /\ now' = now + 1
  /\ UNCHANGED <<bucket, swept, socketVars, window, granted>>

Next ==
  \/ \E k \in HttpKeys : HttpAllow(k)
  \/ Invalid \/ Flooded
  \/ \E e \in Kinds : Event(e)
  \/ Tick

Spec == Init /\ [][Next]_vars

-----------------------------------------------------------------------------
(* Properties *)

Elapsed == now - from

\* No bucket grants more in any window than it holds plus what it gains in the
\* window, also when the HTTP limiter forgets it in between and makes it anew.
RateBound ==
  now >= from =>
    Cost * granted <= Capacity[watched] + Refill[watched] * Elapsed

\* Whatever mixture of valid, invalid and refused frames a client sends, the
\* loop reads no more of them in a window than the global limit allows plus the
\* violations it tolerates on the whole: refusals do not keep a socket going.
LoadBound ==
  now >= from =>
    Cost * (frames - (2 * MaxViolations + 1))
      <= Capacity[Global] + Refill[Global] * Elapsed

\* After each HTTP request the table holds only buckets used within the last
\* IdleAfter + SweepEvery: clients that stay away do not fill the memory.
TableBound ==
  [][\A k \in HttpKeys : HttpAllow(k) =>
       \A j \in HttpKeys : bucket'[j] # NoBucket =>
         now - bucket'[j].updated <= IdleAfter + SweepEvery]_vars

\* The level of each bucket if it were refilled at every tick; a bucket that
\* does not exist is a full one.
Level == [k \in Keys |-> Filled(k, Present(k, bucket[k]))]

Eager == INSTANCE Buckets WITH level <- Level

\* Lazy refill, buckets made on demand and the sweep are invisible: the limiters
\* grant what buckets that are never forgotten grant.
KeepsBuckets == Eager!Spec

=============================================================================

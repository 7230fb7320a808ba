-------------------------- MODULE RateLimitProofs --------------------------
(***************************************************************************)
(* RateLimit, for all keys and limits: what a bucket or a connection is    *)
(* granted in any window is bounded, the table of the HTTP limiter too,    *)
(* and the limiters implement Buckets.                                     *)
(***************************************************************************)
EXTENDS RateLimit, TLAPS

\* Every bucket holds at most its capacity and was used in the past.
Sane ==
  /\ swept <= now
  /\ \A k \in Keys : bucket[k] # NoBucket =>
       bucket[k].tokens <= Capacity[k] /\ bucket[k].updated <= now

\* The last sweep left no bucket that was idle then.
SweptClean ==
  \A k \in HttpKeys : bucket[k] # NoBucket => swept - bucket[k].updated <= IdleAfter

\* What was granted and what is left come out of the capacity and the refill.
Budget ==
  IF now < from THEN granted = 0
  ELSE Cost * granted + Level[watched]
         <= Capacity[watched] + Refill[watched] * Elapsed

\* The same for the frames that are no violations: each took a global token.
FrameBudget ==
  IF now < from THEN frames = 0
  ELSE Cost * (frames - violations) + Level[Global]
         <= Capacity[Global] + Refill[Global] * Elapsed

Tolerance ==
  /\ violations <= 2 * MaxViolations + 1
  /\ open => violations <= 2 * MaxViolations

IInv == TypeOK /\ Sane /\ SweptClean /\ Budget /\ FrameBudget /\ Tolerance

-----------------------------------------------------------------------------
(* Arithmetic *)

\* A tick adds one refill.
LEMMA OneMore ==
  ASSUME NEW r \in Nat, NEW n \in Nat, NEW u \in Int
  PROVE  r * ((n + 1) - u) = r * (n - u) + r
BY SMT

\* A longer time refills no less.
LEMMA Longer ==
  ASSUME NEW r \in Nat, NEW a \in Nat, NEW b \in Nat, a <= b
  PROVE  r * a <= r * b
<1>1. PICK d \in Nat : b = a + d BY b - a \in Nat
<1>2. r * b = r * a + r * d BY <1>1
<1>3. r * d >= 0 OBVIOUS
<1> QED BY <1>2, <1>3

\* Two intervals that meet.
LEMMA Apart ==
  ASSUME NEW a \in Nat, NEW b \in Nat, NEW x \in Nat, NEW y \in Nat, NEW z \in Nat,
         x - y <= a, y - z <= b
  PROVE  x - z <= b + a
OBVIOUS

-----------------------------------------------------------------------------
(* One bucket *)

Full(k, b) ==
  /\ b \in Bucket
  /\ b.tokens <= Capacity[k] /\ b.updated <= now

LEMMA PresentFull ==
  ASSUME TypeOK, Sane, NEW k \in Keys
  PROVE  Full(k, Present(k, bucket[k]))
BY RateAssumption DEF TypeOK, Sane, Full, Present, Fresh, Bucket

LEMMA FilledRange ==
  ASSUME now \in Nat, NEW k \in Keys, NEW b, Full(k, b)
  PROVE  Filled(k, b) \in Nat /\ Filled(k, b) <= Capacity[k]
<1>1. /\ Capacity[k] \in Nat /\ Refill[k] \in Nat
      /\ b.tokens \in Nat /\ b.updated \in Nat /\ now - b.updated \in Nat
  BY RateAssumption DEF Full, Bucket
<1>2. Refill[k] * (now - b.updated) \in Nat BY <1>1
<1> QED BY <1>1, <1>2 DEF Filled, Least

\* A bucket that was just used is filled to what was left of it.
LEMMA UsedFilled ==
  ASSUME now \in Nat, NEW k \in Keys, NEW b, Full(k, b)
  PROVE  /\ Full(k, Used(k, b))
         /\ Used(k, b).updated = now
         /\ Filled(k, Used(k, b)) = IF Passes(k, b) THEN Filled(k, b) - Cost
                                                    ELSE Filled(k, b)
<1>1. Filled(k, b) \in Nat /\ Filled(k, b) <= Capacity[k] BY FilledRange
<1>2. Capacity[k] \in Nat /\ Refill[k] \in Nat /\ Cost \in Nat BY RateAssumption
<1> DEFINE left == IF Passes(k, b) THEN Filled(k, b) - Cost ELSE Filled(k, b)
<1>3. left \in Nat /\ left <= Capacity[k] BY <1>1, <1>2 DEF Passes
<1>4. Used(k, b) = [tokens |-> left, updated |-> now] BY DEF Used
<1> HIDE DEF left
<1>5. Full(k, Used(k, b)) /\ Used(k, b).updated = now
  BY <1>3, <1>4 DEF Full, Bucket
<1>6. Refill[k] * (now - now) = 0 BY <1>2
<1>7. Filled(k, Used(k, b)) = left
  BY <1>2, <1>3, <1>4, <1>6 DEF Filled, Least
<1> QED BY <1>5, <1>7 DEF left

\* An absent bucket counts as full.
LEMMA FreshFilled ==
  ASSUME now \in Nat, NEW k \in Keys
  PROVE  Filled(k, Present(k, NoBucket)) = Capacity[k]
<1>1. Capacity[k] \in Nat /\ Refill[k] \in Nat BY RateAssumption
<1>2. Refill[k] * (now - now) = 0 BY <1>1
<1> QED BY <1>1, <1>2 DEF Filled, Least, Present, Fresh

\* A bucket that the sweep forgets is full by then.
LEMMA IdleFull ==
  ASSUME TypeOK, Sane, NEW k \in HttpKeys, Idle(k)
  PROVE  Filled(k, bucket[k]) = Capacity[k]
<1>1. /\ k \in Keys /\ Capacity[k] \in Nat /\ Refill[k] \in Nat /\ IdleAfter \in Nat
      /\ Refill[k] * IdleAfter >= Capacity[k]
  BY RateAssumption DEF Keys
<1>2. /\ bucket[k].tokens \in Nat
      /\ now - bucket[k].updated \in Nat /\ IdleAfter <= now - bucket[k].updated
  BY <1>1 DEF Idle, TypeOK, Sane, Bucket
<1>3. Refill[k] * IdleAfter <= Refill[k] * (now - bucket[k].updated)
  BY <1>1, <1>2, Longer
<1>4. Refill[k] * (now - bucket[k].updated) \in Nat BY <1>1, <1>2
<1>5. Refill[k] * IdleAfter \in Nat BY <1>1
<1> QED BY <1>1, <1>2, <1>3, <1>4, <1>5 DEF Filled, Least

\* What the sweep keeps fills each bucket as before.
LEMMA KeptFilled ==
  ASSUME TypeOK, Sane, NEW k \in Keys
  PROVE  /\ Full(k, Present(k, Kept[k]))
         /\ Filled(k, Present(k, Kept[k])) = Level[k]
<1>1. CASE SweepDue /\ k \in HttpKeys /\ Idle(k)
  <2>1. Kept[k] = NoBucket BY <1>1 DEF Kept
  <2>2. Full(k, Present(k, NoBucket))
    BY RateAssumption DEF TypeOK, Full, Present, Fresh, Bucket
  <2>3. Filled(k, Present(k, NoBucket)) = Capacity[k] BY FreshFilled DEF TypeOK
  <2>4. Level[k] = Capacity[k] BY <1>1, IdleFull DEF Level, Present, Idle
  <2> QED BY <2>1, <2>2, <2>3, <2>4
<1>2. CASE ~(SweepDue /\ k \in HttpKeys /\ Idle(k))
  <2>1. Kept[k] = bucket[k] BY <1>2 DEF Kept
  <2> QED BY <2>1, PresentFull DEF Level
<1> QED BY <1>1, <1>2

-----------------------------------------------------------------------------
(* Each request takes the price of a request out of buckets that have it *)

\* A bucket table in which the buckets of S are used and the others fill as before.
LEMMA LevelsDrop ==
  ASSUME TypeOK, now' = now, NEW S \in SUBSET Keys, \A k \in S : Level[k] >= Cost,
         \A k \in Keys : Filled(k, Present(k, bucket[k]))'
                           = IF k \in S THEN Level[k] - Cost ELSE Level[k],
         granted' = Counted(S), UNCHANGED window
  PROVE  Eager!Grant(S)
BY DEF Eager!Grant, Eager!Counted, Eager!window, Counted, Level, window

LEMMA HttpGrants ==
  ASSUME TypeOK, Sane, NEW k \in HttpKeys, HttpAllow(k)
  PROVE  Eager!Grant(IF Passes(k, Present(k, Kept[k])) THEN {k} ELSE {})
<1> DEFINE b == Present(k, Kept[k])
           S == IF Passes(k, b) THEN {k} ELSE {}
<1>1. k \in Keys BY DEF Keys
<1>2. Full(k, b) /\ Filled(k, b) = Level[k] BY <1>1, KeptFilled
<1>3. \A j \in S : Level[j] >= Cost BY <1>2 DEF Passes
<1>4. now' = now /\ now \in Nat BY DEF HttpAllow, TypeOK
<1>5. bucket' = [Kept EXCEPT ![k] = Used(k, b)] BY DEF HttpAllow
<1>6. ASSUME NEW j \in Keys
      PROVE  Filled(j, Present(j, bucket[j]))'
               = IF j \in S THEN Level[j] - Cost ELSE Level[j]
  <2>1. CASE j = k
    <3>1. bucket'[k] = Used(k, b) BY <1>1, <1>5 DEF Kept
    <3>2. Used(k, b) # NoBucket BY <1>2, <1>4, UsedFilled, <1>1, RateAssumption DEF Full, Bucket
    <3>3. Filled(k, Present(k, bucket[k]))' = Filled(k, Used(k, b))
      BY <1>4, <3>1, <3>2 DEF Filled, Present
    <3> QED BY <2>1, <3>3, <1>1, <1>2, <1>4, UsedFilled
  <2>2. CASE j # k
    <3>1. bucket'[j] = Kept[j] BY <1>5, <2>2 DEF Kept
    <3>2. Filled(j, Present(j, bucket[j]))' = Filled(j, Present(j, Kept[j]))
      BY <1>4, <3>1 DEF Filled, Present, Fresh
    <3> QED BY <2>2, <3>2, KeptFilled
  <2> QED BY <2>1, <2>2
<1>7. granted' = Counted(S) /\ UNCHANGED window BY DEF HttpAllow
<1>8. S \in SUBSET Keys BY <1>1
<1> HIDE DEF b, S
<1>9. Eager!Grant(S) BY <1>3, <1>4, <1>6, <1>7, <1>8, LevelsDrop
<1> QED BY <1>9 DEF b, S

\* Nothing is granted and no bucket is refilled ahead of its time.
LEMMA SameLevels ==
  ASSUME TypeOK, UNCHANGED <<now, window, granted>>,
         \A k \in Keys : Filled(k, Present(k, bucket[k]))' = Level[k]
  PROVE  Eager!Grant({})
<1>1. granted' = Counted({}) BY DEF Counted
<1> QED BY <1>1, LevelsDrop

LEMMA InvalidGrants ==
  ASSUME TypeOK, Sane, Invalid
  PROVE  Eager!Grant({})
BY SameLevels DEF Invalid, Level, Filled, Present, Fresh, window

LEMMA FloodedGrants ==
  ASSUME TypeOK, Sane, Flooded
  PROVE  Eager!Grant({})
<1> DEFINE b == bucket[Global]
<1>1. Global \in Keys /\ b # NoBucket /\ Present(Global, b) = b
  BY DEF Keys, TypeOK, Present
<1>2. Full(Global, b) BY <1>1, PresentFull
<1>3. now' = now /\ now \in Nat /\ UNCHANGED <<window, granted>>
  BY DEF Flooded, TypeOK
<1>4. bucket' = [bucket EXCEPT ![Global] = Used(Global, b)] /\ ~Passes(Global, b)
  BY DEF Flooded
<1>5. ASSUME NEW j \in Keys
      PROVE  Filled(j, Present(j, bucket[j]))' = Level[j]
  <2>1. CASE j = Global
    <3>1. bucket'[j] = Used(j, b) BY <1>4, <2>1 DEF TypeOK
    <3>2. Used(j, b) # NoBucket
      BY <1>2, <1>3, <2>1, UsedFilled, RateAssumption DEF Full, Bucket
    <3>3. Filled(j, Present(j, bucket[j]))' = Filled(j, Used(j, b))
      BY <1>3, <3>1, <3>2 DEF Filled, Present
    <3>4. Level[j] = Filled(j, b) BY <1>1, <2>1 DEF Level
    <3> QED BY <1>2, <1>3, <1>4, <2>1, <3>3, <3>4, UsedFilled
  <2>2. CASE j # Global
    <3>1. bucket'[j] = bucket[j] BY <1>4, <2>2 DEF TypeOK
    <3> QED BY <1>3, <3>1 DEF Filled, Present, Fresh, Level
  <2> QED BY <2>1, <2>2
<1> QED BY <1>3, <1>5, SameLevels

LEMMA EventGrants ==
  ASSUME TypeOK, Sane, NEW e \in Kinds, Event(e)
  PROVE  Eager!Grant(IF Passes(e, Present(e, bucket[e])) THEN {Global, e} ELSE {Global})
<1> DEFINE g == bucket[Global]
           b == Present(e, bucket[e])
           S == IF Passes(e, b) THEN {Global, e} ELSE {Global}
<1>1. /\ Global \in Keys /\ e \in Keys /\ e # Global
      /\ g # NoBucket /\ Present(Global, g) = g
  BY RateAssumption DEF Keys, TypeOK, Present
<1>2. Full(Global, g) /\ Full(e, b) BY <1>1, PresentFull
<1>3. now' = now /\ now \in Nat /\ UNCHANGED window BY DEF Event, TypeOK
<1>4. /\ bucket' = [bucket EXCEPT ![Global] = Used(Global, g), ![e] = Used(e, b)]
      /\ Passes(Global, g) /\ granted' = Counted(S)
  BY DEF Event
<1>5. Level[Global] = Filled(Global, g) /\ Level[e] = Filled(e, b)
  BY <1>1 DEF Level
<1>6. \A j \in S : Level[j] >= Cost BY <1>4, <1>5 DEF Passes
<1>7. ASSUME NEW j \in Keys
      PROVE  Filled(j, Present(j, bucket[j]))'
               = IF j \in S THEN Level[j] - Cost ELSE Level[j]
  <2>1. CASE j = Global
    <3>1. bucket'[j] = Used(j, g) BY <1>1, <1>4, <2>1 DEF TypeOK
    <3>2. Used(j, g) # NoBucket
      BY <1>2, <1>3, <2>1, UsedFilled, RateAssumption DEF Full, Bucket
    <3>3. Filled(j, Present(j, bucket[j]))' = Filled(j, Used(j, g))
      BY <1>3, <3>1, <3>2 DEF Filled, Present
    <3> QED BY <1>2, <1>3, <1>4, <1>5, <2>1, <3>3, UsedFilled
  <2>2. CASE j = e
    <3>1. bucket'[j] = Used(j, b) BY <1>1, <1>4, <2>2 DEF TypeOK
    <3>2. Used(j, b) # NoBucket
      BY <1>2, <1>3, <2>2, UsedFilled, RateAssumption DEF Full, Bucket
    <3>3. Filled(j, Present(j, bucket[j]))' = Filled(j, Used(j, b))
      BY <1>3, <3>1, <3>2 DEF Filled, Present
    <3> QED BY <1>1, <1>2, <1>3, <1>5, <2>2, <3>3, UsedFilled
  <2>3. CASE j \notin {Global, e}
    <3>1. bucket'[j] = bucket[j] BY <1>4, <2>3 DEF TypeOK
    <3> QED BY <1>3, <2>3, <3>1 DEF Filled, Present, Fresh, Level
  <2> QED BY <2>1, <2>2, <2>3
<1>8. S \in SUBSET Keys BY <1>1
<1> HIDE DEF g, b, S
<1>9. Eager!Grant(S) BY <1>3, <1>4, <1>6, <1>7, <1>8, LevelsDrop
<1> QED BY <1>9 DEF b, S

\* What one tick adds is added once, at the next use.
LEMMA TickRefills ==
  ASSUME TypeOK, Sane, Tick
  PROVE  Eager!Tick
<1>1. ASSUME NEW k \in Keys
      PROVE  Filled(k, Present(k, bucket[k]))'
               = Eager!Least(Capacity[k], Level[k] + Refill[k])
  <2> DEFINE b == Present(k, bucket[k])
  <2>1. Full(k, b) BY PresentFull
  <2>2. now' = now + 1 /\ now \in Nat /\ bucket' = bucket BY DEF Tick, TypeOK
  <2>3. /\ Capacity[k] \in Nat /\ Refill[k] \in Nat
        /\ b.tokens \in Nat /\ b.updated \in Int /\ now - b.updated \in Nat
    BY <2>1, <2>2, RateAssumption DEF Full, Bucket
  <2>4. Refill[k] * ((now + 1) - b.updated) = Refill[k] * (now - b.updated) + Refill[k]
    BY <2>2, <2>3, OneMore, Zenon
  <2>5. Refill[k] * (now - b.updated) \in Nat BY <2>3
  <2>6. Level[k] = Least(Capacity[k], b.tokens + Refill[k] * (now - b.updated))
    BY DEF Level, Filled
  <2>7. CASE bucket[k] = NoBucket
    <3>1. Level[k] = Capacity[k] BY <2>2, <2>7, FreshFilled DEF Level
    <3>2. Filled(k, Present(k, bucket[k]))' = Capacity[k]
      <4>1. Refill[k] * ((now + 1) - (now + 1)) = 0 BY <2>2, <2>3
      <4> QED BY <2>2, <2>3, <2>7, <4>1 DEF Filled, Least, Present, Fresh
    <3> QED BY <2>3, <3>1, <3>2 DEF Eager!Least
  <2>8. CASE bucket[k] # NoBucket
    <3>1. Present(k, bucket[k])' = b BY <2>2, <2>8 DEF Present
    <3>2. Filled(k, Present(k, bucket[k]))'
            = Least(Capacity[k], b.tokens + Refill[k] * ((now + 1) - b.updated))
      BY <2>2, <3>1 DEF Filled
    <3> HIDE DEF b
    <3> QED BY <2>3, <2>4, <2>5, <2>6, <3>2 DEF Eager!Least, Least
  <2> QED BY <2>7, <2>8
<1> QED BY <1>1 DEF Eager!Tick, Eager!window, Tick, Level, window

\* So each step of the limiters is one of Buckets; S is what it takes from.
LEMMA EagerStep ==
  ASSUME TypeOK, Sane, Next
  PROVE  Eager!Next
<1>1. CASE \E k \in HttpKeys : HttpAllow(k)
  <2>1. PICK k \in HttpKeys : HttpAllow(k) BY <1>1
  <2> QED BY <2>1, HttpGrants DEF Eager!Next, Keys
<1>2. CASE Invalid BY <1>2, InvalidGrants DEF Eager!Next
<1>3. CASE Flooded BY <1>3, FloodedGrants DEF Eager!Next
<1>4. CASE \E e \in Kinds : Event(e)
  <2>1. PICK e \in Kinds : Event(e) BY <1>4
  <2> QED BY <2>1, EventGrants DEF Eager!Next, Keys
<1>5. CASE Tick BY <1>5, TickRefills DEF Eager!Next
<1> QED BY <1>1, <1>2, <1>3, <1>4, <1>5 DEF Next

-----------------------------------------------------------------------------
(* The invariant *)

LEMMA LevelRange ==
  ASSUME TypeOK, Sane, NEW k \in Keys
  PROVE  /\ Level[k] \in Nat /\ Level[k] <= Capacity[k]
         /\ Capacity[k] \in Nat /\ Refill[k] \in Nat
BY PresentFull, FilledRange, RateAssumption DEF Level, TypeOK

LEMMA BudgetStep ==
  ASSUME TypeOK, Sane, Budget, Eager!Next, watched' = watched
  PROVE  Budget'
<1> DEFINE w == watched  C == Capacity[w]  R == Refill[w]
<1>1. /\ w \in Keys /\ now \in Nat /\ from \in Nat /\ granted \in Nat
      /\ Cost \in Nat \ {0}
  BY RateAssumption DEF TypeOK
<1>2. C \in Nat /\ R \in Nat /\ Level[w] \in Nat /\ Level[w] <= C
  BY <1>1, LevelRange
<1>3. Cost * (granted + 1) = Cost * granted + Cost /\ Cost * 0 = 0 BY <1>1
<1>4. ASSUME NEW S \in SUBSET Keys, Eager!Grant(S)
      PROVE  Budget'
  <2>1. UNCHANGED <<now, window>> /\ granted' = Counted(S)
    BY <1>4 DEF Eager!Grant, Eager!Counted, Eager!window, Counted, window
  <2>2. Level'[w] = IF w \in S THEN Level[w] - Cost ELSE Level[w]
    BY <1>1, <1>4 DEF Eager!Grant
  <2>3. CASE now < from BY <2>1, <2>3, <1>1 DEF Budget, Counted, window
  <2>4. CASE ~(now < from)
    <3>1. Cost * granted' + Level'[w] = Cost * granted + Level[w]
                                        \/ w \notin S
      BY <1>1, <1>2, <1>3, <2>1, <2>2, <2>4 DEF Counted
    <3>2. w \notin S => granted' = granted /\ Level'[w] = Level[w]
      BY <2>1, <2>2 DEF Counted
    <3> QED BY <1>1, <1>2, <2>1, <2>4, <3>1, <3>2 DEF Budget, Elapsed, window
  <2> QED BY <2>3, <2>4
<1>5. CASE Eager!Tick
  <2>1. now' = now + 1 /\ UNCHANGED <<window, granted>>
    BY <1>5 DEF Eager!Tick, Eager!window, window
  <2>2. Level'[w] = Least(C, Level[w] + R)
    BY <1>1, <1>5 DEF Eager!Tick, Eager!Least, Least
  <2>3. R * ((now + 1) - from) = R * (now - from) + R BY <1>1, <1>2, OneMore
  <2>4. CASE now + 1 < from BY <1>1, <2>1, <2>4 DEF Budget, window
  <2>5. CASE now + 1 = from
    <3>1. granted = 0 /\ R * (from - from) = 0 BY <1>1, <1>2, <2>5 DEF Budget
    <3> QED BY <1>1, <1>2, <1>3, <2>1, <2>2, <2>5, <3>1 DEF Budget, Elapsed, Least, window
  <2>6. CASE from <= now
    <3>1. R * (now - from) \in Nat /\ Cost * granted \in Nat BY <1>1, <1>2, <2>6
    <3>2. Cost * granted + Level[w] <= C + R * (now - from)
      BY <1>1, <2>6 DEF Budget, Elapsed
    <3>3. Cost * granted + Level'[w] <= C + R * ((now + 1) - from)
      BY <1>1, <1>2, <2>2, <2>3, <3>1, <3>2 DEF Least
    <3> QED BY <1>1, <2>1, <2>6, <3>3 DEF Budget, Elapsed, window
  <2> QED BY <1>1, <2>4, <2>5, <2>6
<1> QED BY <1>4, <1>5 DEF Eager!Next

\* The buckets stay well formed.
LEMMA BucketStep ==
  ASSUME TypeOK, Sane, [Next]_vars
  PROVE  bucket' \in [Keys -> Bucket \cup {NoBucket}] /\ bucket'[Global] # NoBucket /\ Sane'
<1>0. /\ now \in Nat /\ swept \in Nat /\ Global \in Keys
      /\ bucket \in [Keys -> Bucket \cup {NoBucket}] /\ bucket[Global] # NoBucket
      /\ Capacity \in [Keys -> Nat] /\ NoBucket \notin Bucket
  BY RateAssumption DEF TypeOK, Keys, Bucket
<1>1. ASSUME NEW k \in Keys, NEW b, Full(k, b)
      PROVE  /\ Used(k, b) \in Bucket
             /\ Used(k, b).tokens <= Capacity[k] /\ Used(k, b).updated <= now
  BY <1>0, <1>1, UsedFilled DEF Full
<1>2. \A k \in Keys : bucket[k] # NoBucket => Full(k, bucket[k])
  BY <1>0 DEF Full, Sane
<1>3. CASE \E k \in HttpKeys : HttpAllow(k)
  <2>1. PICK k \in HttpKeys : HttpAllow(k) BY <1>3
  <2> DEFINE b == Present(k, Kept[k])
  <2>2. k \in Keys /\ k # Global BY RateAssumption DEF Keys
  <2>3. bucket' = [Kept EXCEPT ![k] = Used(k, b)] /\ now' = now /\ swept' = SweptAt
    BY <2>1 DEF HttpAllow
  <2>4. Full(k, b) BY <2>2, KeptFilled
  <2> HIDE DEF b
  <2>5. Kept \in [Keys -> Bucket \cup {NoBucket}]
    BY <1>0 DEF Kept
  <2>6. Global \notin HttpKeys BY RateAssumption
  <2>7. Kept[Global] # NoBucket BY <1>0, <2>6 DEF Kept
  <2>8. \A j \in Keys : Kept[j] # NoBucket => Kept[j] = bucket[j] BY DEF Kept
  <2>9. swept' \in Nat /\ swept' <= now BY <1>0, <2>3 DEF SweptAt, Sane
  <2>10. bucket' \in [Keys -> Bucket \cup {NoBucket}] BY <1>1, <2>2, <2>3, <2>4, <2>5
  <2>11. bucket'[Global] # NoBucket BY <1>0, <2>2, <2>3, <2>5, <2>7
  <2>12. ASSUME NEW j \in Keys, bucket'[j] # NoBucket
         PROVE  bucket'[j].tokens <= Capacity[j] /\ bucket'[j].updated <= now
    <3>1. CASE j = k BY <1>1, <2>2, <2>3, <2>4, <2>5, <3>1
    <3>2. CASE j # k
      <4>1. bucket'[j] = bucket[j] /\ bucket[j] # NoBucket
        BY <2>3, <2>5, <2>8, <2>12, <3>2
      <4> QED BY <4>1 DEF Sane
    <3> QED BY <3>1, <3>2
  <2> QED BY <2>3, <2>9, <2>10, <2>11, <2>12 DEF Sane
<1>4. CASE Invalid BY <1>0, <1>4 DEF Invalid, Sane
<1>5. CASE Flooded
  <2>1. /\ bucket' = [bucket EXCEPT ![Global] = Used(Global, bucket[Global])]
        /\ UNCHANGED <<now, swept>>
    BY <1>5 DEF Flooded
  <2>2. Full(Global, bucket[Global]) BY <1>0, <1>2
  <2> QED BY <1>0, <1>1, <2>1, <2>2 DEF Sane
<1>6. CASE \E e \in Kinds : Event(e)
  <2>1. PICK e \in Kinds : Event(e) BY <1>6
  <2> DEFINE b == Present(e, bucket[e])
             u == Used(Global, bucket[Global])
             v == Used(e, b)
  <2>2. e \in Keys /\ e # Global BY RateAssumption DEF Keys
  <2>3. bucket' = [bucket EXCEPT ![Global] = u, ![e] = v] /\ UNCHANGED <<now, swept>>
    BY <2>1 DEF Event
  <2>4. Full(Global, bucket[Global]) /\ Full(e, b) BY <1>0, <1>2, <2>2, PresentFull
  <2>5. /\ u \in Bucket /\ u.tokens <= Capacity[Global] /\ u.updated <= now
        /\ v \in Bucket /\ v.tokens <= Capacity[e] /\ v.updated <= now
    BY <1>0, <1>1, <2>2, <2>4
  <2> HIDE DEF b, u, v
  <2> QED BY <1>0, <2>2, <2>3, <2>5 DEF Sane
<1>7. CASE Tick BY <1>0, <1>7 DEF Tick, Sane, Bucket
<1>8. CASE UNCHANGED vars BY <1>0, <1>8 DEF vars, Sane
<1> QED BY <1>3, <1>4, <1>5, <1>6, <1>7, <1>8 DEF Next

\* A violation is counted and tested.
LEMMA Counting ==
  ASSUME violations \in Nat, NEW m \in Nat, violations' = violations + 1,
         open' = (violations' <= m)
  PROVE  violations' \in Nat /\ open' \in BOOLEAN /\ (open' => violations' <= m)
<1>1. violations' \in Nat OBVIOUS
<1> DEFINE few == violations' <= m
<1>2. few \in BOOLEAN BY <1>1
<1>3. open' = few OBVIOUS
<1> HIDE DEF few
<1>4. open' \in BOOLEAN /\ (open' => few) BY <1>2, <1>3
<1> QED BY <1>1, <1>4 DEF few

LEMMA TypeStep ==
  ASSUME TypeOK, Sane, [Next]_vars
  PROVE  TypeOK'
<1>1. bucket' \in [Keys -> Bucket \cup {NoBucket}] /\ bucket'[Global] # NoBucket
  BY BucketStep
<1>2. /\ now \in Nat /\ swept \in Nat /\ granted \in Nat /\ frames \in Nat
      /\ violations \in Nat /\ open \in BOOLEAN /\ MaxViolations \in Nat
  BY RateAssumption DEF TypeOK
<1>3. CASE \E k \in HttpKeys : HttpAllow(k)
  <2>1. PICK k \in HttpKeys : HttpAllow(k) BY <1>3
  <2>2. swept' \in Nat /\ granted' \in Nat
    BY <1>2, <2>1 DEF HttpAllow, SweptAt, Counted
  <2>3. UNCHANGED <<now, window, socketVars>> BY <2>1 DEF HttpAllow
  <2> QED BY <1>1, <1>2, <2>2, <2>3 DEF TypeOK, window, socketVars
<1>4. CASE Invalid \/ Flooded
  <2>1. UNCHANGED <<now, swept, window, granted>> BY <1>4 DEF Invalid, Flooded
  <2>2. violations' \in Nat /\ open' \in BOOLEAN
    BY <1>2, <1>4, Counting DEF Invalid, Flooded, Limited
  <2>3. frames' \in Nat BY <1>2, <1>4 DEF Invalid, Flooded, Read
  <2> QED BY <1>1, <1>2, <2>1, <2>2, <2>3 DEF TypeOK, window
<1>5. CASE \E e \in Kinds : Event(e)
  <2>1. PICK e \in Kinds : Event(e) BY <1>5
  <2>2. UNCHANGED <<now, swept, window>> BY <2>1 DEF Event
  <2>3. granted' \in Nat BY <1>2, <2>1 DEF Event, Counted
  <2>4. frames' \in Nat BY <1>2, <2>1 DEF Event, Read
  <2>5. violations' \in Nat /\ open' \in BOOLEAN
    BY <1>2, <2>1, Counting DEF Event, Limited
  <2> QED BY <1>1, <1>2, <2>2, <2>3, <2>4, <2>5 DEF TypeOK, window
<1>6. CASE Tick \/ UNCHANGED vars
  <2>1. now' \in Nat BY <1>2, <1>6 DEF Tick, vars
  <2>2. UNCHANGED <<swept, window, granted, socketVars>> BY <1>6 DEF Tick, vars
  <2> QED BY <1>1, <1>2, <2>1, <2>2 DEF TypeOK, window, socketVars
<1> QED BY <1>3, <1>4, <1>5, <1>6 DEF Next

\* After a sweep, and before the next one is due, the table has no older bucket.
LEMMA SweptCleanStep ==
  ASSUME TypeOK, Sane, SweptClean, [Next]_vars
  PROVE  SweptClean'
<1>0. /\ now \in Nat /\ swept \in Nat /\ IdleAfter \in Nat /\ HttpKeys \subseteq Keys
      /\ bucket \in [Keys -> Bucket \cup {NoBucket}] /\ NoBucket \notin Bucket
      /\ \A j \in HttpKeys : j # Global /\ j \notin Kinds
  BY RateAssumption DEF TypeOK, Keys, Bucket
<1>1. CASE \E k \in HttpKeys : HttpAllow(k)
  <2>1. PICK k \in HttpKeys : HttpAllow(k) BY <1>1
  <2> DEFINE b == Present(k, Kept[k])
  <2>2. bucket' = [Kept EXCEPT ![k] = Used(k, b)] /\ now' = now /\ swept' = SweptAt
    BY <2>1 DEF HttpAllow
  <2>3. Used(k, b).updated = now BY DEF Used
  <2> HIDE DEF b
  <2>4. SweptAt \in Nat /\ SweptAt <= now BY <1>0 DEF SweptAt, Sane
  <2>5. ASSUME NEW j \in HttpKeys, bucket'[j] # NoBucket
        PROVE  swept' - bucket'[j].updated <= IdleAfter
    <3>1. CASE j = k BY <1>0, <2>2, <2>3, <2>4, <3>1 DEF Kept
    <3>2. CASE j # k
      <4>1. bucket'[j] = bucket[j] /\ bucket[j] \in Bucket /\ ~(SweepDue /\ Idle(j))
        BY <1>0, <2>2, <2>5, <3>2 DEF Kept
      <4> QED BY <1>0, <2>2, <4>1 DEF Idle, SweptAt, SweptClean, Bucket
    <3> QED BY <3>1, <3>2
  <2> QED BY <2>5 DEF SweptClean
<1>2. CASE Invalid \/ Flooded \/ Tick
  <2>1. swept' = swept /\ \A j \in HttpKeys : bucket'[j] = bucket[j]
    BY <1>0, <1>2 DEF Invalid, Flooded, Tick
  <2> QED BY <2>1 DEF SweptClean
<1>3. CASE \E e \in Kinds : Event(e)
  <2>1. swept' = swept /\ \A j \in HttpKeys : bucket'[j] = bucket[j]
    BY <1>0, <1>3 DEF Event
  <2> QED BY <2>1 DEF SweptClean
<1>4. CASE UNCHANGED vars BY <1>4 DEF vars, SweptClean
<1> QED BY <1>1, <1>2, <1>3, <1>4 DEF Next

LEMMA ToleranceStep ==
  ASSUME TypeOK, Tolerance, [Next]_vars
  PROVE  Tolerance'
<1>1. violations \in Nat /\ MaxViolations \in Nat BY RateAssumption DEF TypeOK
<1>2. CASE Invalid
  <2>1. /\ open /\ violations' = violations + 1
        /\ (open' => violations' <= MaxViolations)
    BY <1>1, <1>2, Counting DEF Invalid, Read
  <2> QED BY <1>1, <2>1 DEF Tolerance
<1>3. ASSUME open, Limited
      PROVE  Tolerance'
  <2>1. violations' = violations + 1 /\ (open' => violations' <= 2 * MaxViolations)
    BY <1>1, <1>3, Counting DEF Limited
  <2> QED BY <1>1, <1>3, <2>1 DEF Tolerance
<1>4. CASE Flooded \/ \E e \in Kinds : Event(e)
  <2>1. open /\ (Limited \/ UNCHANGED <<violations, open>>)
    BY <1>4 DEF Flooded, Event, Read
  <2> QED BY <1>3, <2>1 DEF Tolerance
<1>5. CASE UNCHANGED socketVars BY <1>5 DEF socketVars, Tolerance
<1> QED BY <1>2, <1>4, <1>5 DEF Next, vars, HttpAllow, Tick

\* A frame is a violation or has taken a global token.
LEMMA FrameBudgetStep ==
  ASSUME TypeOK, Sane, FrameBudget, Next
  PROVE  FrameBudget'
<1> DEFINE C == Capacity[Global]  R == Refill[Global]
<1>1. /\ Global \in Keys /\ now \in Nat /\ from \in Nat /\ Cost \in Nat \ {0}
      /\ frames \in Nat /\ violations \in Nat
  BY RateAssumption DEF TypeOK, Keys
<1>2. C \in Nat /\ R \in Nat /\ Level[Global] \in Nat /\ Level[Global] <= C
  BY <1>1, LevelRange
<1>3. UNCHANGED window
  BY DEF Next, HttpAllow, Invalid, Flooded, Event, Tick, window
<1>4. ASSUME now' = now, NEW n \in {0, 1}, NEW v \in {0, 1}, v <= n,
             violations' = violations + v,
             frames' = IF now >= from THEN frames + n ELSE frames,
             Level'[Global] <= IF n = v THEN Level[Global] ELSE Level[Global] - Cost,
             Level'[Global] \in Nat
      PROVE  FrameBudget'
  <2>1. CASE now < from BY <1>1, <1>3, <1>4, <2>1 DEF FrameBudget, window
  <2>2. CASE ~(now < from)
    <3>1. frames' = frames + n BY <1>1, <1>4, <2>2
    <3>2. CASE n = v
      <4>1. frames' - violations' = frames - violations BY <1>1, <1>4, <3>1, <3>2
      <4>2. Cost * (frames - violations) \in Int BY <1>1
      <4> QED
        BY <1>1, <1>2, <1>3, <1>4, <2>2, <3>2, <4>1, <4>2 DEF FrameBudget, Elapsed, window
    <3>3. CASE n # v
      <4>1. frames' - violations' = (frames - violations) + 1
        BY <1>1, <1>4, <3>1, <3>3
      <4>2. frames - violations \in Int BY <1>1
      <4>3. Cost * ((frames - violations) + 1) = Cost * (frames - violations) + Cost
        BY <1>1, <4>2
      <4>4. Cost * (frames - violations) \in Int BY <1>1
      <4> QED
        BY <1>1, <1>2, <1>3, <1>4, <2>2, <3>3, <4>1, <4>3, <4>4
        DEF FrameBudget, Elapsed, window
    <3> QED BY <3>2, <3>3
  <2> QED BY <2>1, <2>2
<1>5. ASSUME NEW S \in SUBSET Keys, Eager!Grant(S)
      PROVE  /\ Level'[Global] = IF Global \in S THEN Level[Global] - Cost ELSE Level[Global]
             /\ Global \in S => Level[Global] >= Cost
  BY <1>1, <1>5 DEF Eager!Grant
<1>6. CASE \E k \in HttpKeys : HttpAllow(k)
  <2>1. PICK k \in HttpKeys : HttpAllow(k) BY <1>6
  <2>2. k \in Keys /\ k # Global BY RateAssumption DEF Keys
  <2> DEFINE S == IF Passes(k, Present(k, Kept[k])) THEN {k} ELSE {}
  <2>3. Level'[Global] = Level[Global]
    <3>1. S \in SUBSET Keys /\ Global \notin S BY <2>2
    <3>2. Eager!Grant(S) BY <2>1, HttpGrants
    <3> HIDE DEF S
    <3> QED BY <1>5, <3>1, <3>2
  <2>4. now' = now /\ violations' = violations + 0
        /\ frames' = IF now >= from THEN frames + 0 ELSE frames
    BY <1>1, <2>1 DEF HttpAllow, socketVars
  <2> QED BY <1>2, <1>4, <2>3, <2>4
<1>7. CASE Invalid \/ Flooded
  <2>1. Level'[Global] = Level[Global] BY <1>5, <1>7, InvalidGrants, FloodedGrants
  <2>2. now' = now /\ violations' = violations + 1
        /\ frames' = IF now >= from THEN frames + 1 ELSE frames
    BY <1>7 DEF Invalid, Flooded, Read, Limited
  <2> QED BY <1>2, <1>4, <2>1, <2>2
<1>8. CASE \E e \in Kinds : Event(e)
  <2>1. PICK e \in Kinds : Event(e) BY <1>8
  <2>2. e \in Keys BY DEF Keys
  <2>3. Level'[Global] = Level[Global] - Cost /\ Level[Global] >= Cost
    BY <1>1, <1>5, <2>1, <2>2, EventGrants
  <2>4. PICK v \in {0, 1} : violations' = violations + v
    BY <1>1, <2>1 DEF Event, Limited
  <2>5. now' = now /\ frames' = IF now >= from THEN frames + 1 ELSE frames
    BY <2>1 DEF Event, Read
  <2>6. Level'[Global] \in Nat BY <1>1, <1>2, <2>3
  <2>7. Level'[Global] <= IF 1 = v THEN Level[Global] ELSE Level[Global] - Cost
    BY <1>1, <1>2, <2>3
  <2> QED BY <1>4, <2>4, <2>5, <2>6, <2>7
<1>9. CASE Tick
  <2>1. now' = now + 1 /\ UNCHANGED <<frames, violations>>
    BY <1>9 DEF Tick, socketVars
  <2>2. Level'[Global] = Least(C, Level[Global] + R)
    BY <1>1, <1>9, TickRefills DEF Eager!Tick, Eager!Least, Least
  <2>3. R * ((now + 1) - from) = R * (now - from) + R BY <1>1, <1>2, OneMore
  <2>4. Cost * (frames - violations) \in Int BY <1>1
  <2>5. CASE now + 1 < from BY <1>1, <1>3, <2>1, <2>5 DEF FrameBudget, window
  <2>6. CASE now + 1 = from
    <3>1. frames = 0 /\ R * (from - from) = 0 BY <1>1, <1>2, <2>6 DEF FrameBudget
    <3>2. Cost * (frames - violations) <= 0
      <4>1. frames - violations <= 0 BY <1>1, <3>1
      <4> QED BY <1>1, <4>1
    <3> QED BY <1>1, <1>2, <1>3, <2>1, <2>2, <2>4, <2>6, <3>1, <3>2
            DEF FrameBudget, Elapsed, Least, window
  <2>7. CASE from <= now
    <3>1. R * (now - from) \in Nat BY <1>1, <1>2, <2>7
    <3>2. Cost * (frames - violations) + Level[Global] <= C + R * (now - from)
      BY <1>1, <2>7 DEF FrameBudget, Elapsed
    <3>3. Cost * (frames - violations) + Level'[Global] <= C + R * ((now + 1) - from)
      BY <1>2, <2>2, <2>3, <2>4, <3>1, <3>2 DEF Least
    <3> QED BY <1>1, <1>3, <2>1, <2>7, <3>3 DEF FrameBudget, Elapsed, window
  <2> QED BY <1>1, <2>5, <2>6, <2>7
<1> QED BY <1>6, <1>7, <1>8, <1>9 DEF Next

LEMMA InitInv ==
  ASSUME Init
  PROVE  IInv
<1>1. /\ Global \in Keys /\ Capacity \in [Keys -> Nat] /\ Cost \in Nat
      /\ Refill \in [Keys -> Nat] /\ MaxViolations \in Nat /\ NoBucket \notin Bucket
      /\ HttpKeys \subseteq Keys /\ Global \notin HttpKeys
  BY RateAssumption DEF Keys, Bucket
<1>2. /\ now = 0 /\ swept = 0 /\ from \in Nat /\ watched \in Keys
      /\ granted = 0 /\ frames = 0 /\ violations = 0 /\ open = TRUE
  BY RateAssumption DEF Init
<1>3. bucket = [k \in Keys |-> IF k = Global THEN Fresh(k) ELSE NoBucket] BY DEF Init
<1>4. \A k \in Keys : Fresh(k) \in Bucket /\ Fresh(k).tokens = Capacity[k]
                      /\ Fresh(k).updated = 0
  BY <1>1, <1>2 DEF Fresh, Bucket
<1>5. TypeOK BY <1>1, <1>2, <1>3, <1>4 DEF TypeOK
<1>6. Sane BY <1>1, <1>2, <1>3, <1>4 DEF Sane
<1>7. SweptClean BY <1>1, <1>3 DEF SweptClean
<1>8. Level[watched] <= Capacity[watched] /\ Level[Global] <= Capacity[Global]
      /\ Level[watched] \in Nat /\ Level[Global] \in Nat
  BY <1>1, <1>2, <1>5, <1>6, LevelRange
<1>9. Cost * 0 = 0 /\ Refill[watched] * (0 - 0) = 0 /\ Refill[Global] * (0 - 0) = 0
  BY <1>1, <1>2
<1>10. Budget BY <1>1, <1>2, <1>8, <1>9 DEF Budget, Elapsed
<1>11. FrameBudget BY <1>1, <1>2, <1>8, <1>9 DEF FrameBudget, Elapsed
<1>12. Tolerance BY <1>1, <1>2 DEF Tolerance
<1> QED BY <1>5, <1>6, <1>7, <1>10, <1>11, <1>12 DEF IInv

LEMMA StepInv ==
  ASSUME IInv, [Next]_vars
  PROVE  IInv'
<1>1. TypeOK' /\ Sane' /\ SweptClean' /\ Tolerance'
  BY TypeStep, BucketStep, SweptCleanStep, ToleranceStep DEF IInv
<1>2. CASE Next
  <2>1. watched' = watched
    BY <1>2 DEF Next, HttpAllow, Invalid, Flooded, Event, Tick, window
  <2>2. Budget' /\ FrameBudget'
    BY <1>2, <2>1, EagerStep, BudgetStep, FrameBudgetStep DEF IInv
  <2> QED BY <1>1, <2>2 DEF IInv
<1>3. CASE UNCHANGED vars
  <2>1. Level' = Level
    BY <1>3 DEF vars, Level, Filled, Present, Fresh
  <2>2. Budget' /\ FrameBudget'
    BY <1>3, <2>1 DEF IInv, Budget, FrameBudget, Elapsed, vars, window, socketVars
  <2> QED BY <1>1, <2>2 DEF IInv
<1> QED BY <1>2, <1>3

LEMMA Invariance == Spec => []IInv
BY InitInv, StepInv, PTL DEF Spec

-----------------------------------------------------------------------------
(* Theorems *)

\* Buckets, counters and clock keep their ranges: no level goes below zero.
THEOREM TypeCorrect == Spec => []TypeOK
<1>1. IInv => TypeOK BY DEF IInv
<1> QED BY <1>1, Invariance, PTL

\* No bucket ever grants more in a window than its capacity and its refill, idle
\* sweeps of the HTTP limiter included (HttpRateLimiter, TokenBucket.allow).
THEOREM RatesBounded == Spec => []RateBound
<1>1. ASSUME IInv
      PROVE  RateBound
  <2>1. /\ now \in Nat /\ from \in Nat /\ Level[watched] \in Nat
        /\ Cost * granted \in Nat /\ Capacity[watched] \in Nat
    BY <1>1, LevelRange, RateAssumption DEF IInv, TypeOK
  <2>2. from <= now => Refill[watched] * Elapsed \in Nat
    BY <1>1, <2>1, LevelRange DEF Elapsed, IInv, TypeOK
  <2> QED BY <1>1, <2>1, <2>2 DEF IInv, Budget, RateBound
<1> QED BY <1>1, Invariance, PTL

\* A client cannot keep the read loop busy beyond the global limit by sending
\* frames that are refused or invalid (read_loop's cut-offs).
THEOREM LoadBounded == Spec => []LoadBound
<1>1. ASSUME IInv
      PROVE  LoadBound
  <2> DEFINE m == 2 * MaxViolations + 1
             bound == Capacity[Global] + Refill[Global] * Elapsed
  <2>1. /\ now \in Nat /\ from \in Nat /\ Global \in Keys /\ Cost \in Nat
        /\ frames \in Nat /\ violations \in Nat /\ m \in Nat /\ violations <= m
    BY <1>1, RateAssumption DEF IInv, TypeOK, Tolerance, Keys
  <2>2. Level[Global] \in Nat BY <1>1, <2>1, LevelRange DEF IInv
  <2>3. PICK d \in Nat : d = m - violations BY <2>1
  <2>4. Cost * (frames - violations) = Cost * (frames - m) + Cost * d
    <3>1. frames - violations = (frames - m) + d BY <2>1, <2>3
    <3>2. frames - m \in Int BY <2>1
    <3> HIDE DEF m
    <3> QED BY <2>1, <3>1, <3>2
  <2>5. Cost * d \in Nat /\ Cost * (frames - m) \in Int BY <2>1
  <2>6. now >= from => bound \in Int /\ Cost * (frames - violations) + Level[Global] <= bound
    BY <1>1, <2>1, LevelRange DEF IInv, FrameBudget, Elapsed
  <2> HIDE DEF m, bound
  <2>7. now >= from => Cost * (frames - m) <= bound BY <2>1, <2>2, <2>4, <2>5, <2>6
  <2> QED BY <2>7 DEF LoadBound, m, bound
<1> QED BY <1>1, Invariance, PTL

\* The HTTP limiter forgets: after a request its table holds recent buckets only.
THEOREM TableBounded == Spec => TableBound
<1> DEFINE Recent == \A j \in HttpKeys : bucket'[j] # NoBucket =>
                       now - bucket'[j].updated <= IdleAfter + SweepEvery
<1>1. ASSUME IInv, IInv', NEW k \in HttpKeys, HttpAllow(k)
      PROVE  Recent
  <2>1. now \in Nat /\ swept \in Nat /\ IdleAfter \in Nat /\ SweepEvery \in Nat
    BY <1>1, RateAssumption DEF IInv, TypeOK
  <2>2. PICK s \in Nat : s = swept' /\ now - s <= SweepEvery
    BY <1>1, <2>1 DEF HttpAllow, SweptAt, SweepDue
  <2>3. ASSUME NEW j \in HttpKeys, bucket'[j] # NoBucket
        PROVE  bucket'[j].updated \in Nat /\ s - bucket'[j].updated <= IdleAfter
    BY <1>1, <2>2, <2>3 DEF IInv, TypeOK, SweptClean, Keys, Bucket
  <2>4. \A u \in Nat : s - u <= IdleAfter => now - u <= IdleAfter + SweepEvery
    BY <2>1, <2>2, Apart
  <2> QED BY <2>3, <2>4
<1>2. IInv /\ IInv' /\ [Next]_vars => [\A k \in HttpKeys : HttpAllow(k) => Recent]_vars
  BY <1>1
<1> QED BY <1>2, Invariance, PTL DEF Spec, TableBound

\* Refilling late, making buckets on demand and forgetting idle ones cannot be
\* told from buckets that are kept and refilled at every tick.
THEOREM ImplementsBuckets == Spec => KeepsBuckets
<1>1. ASSUME Init
      PROVE  Eager!Init
  <2>1. IInv BY <1>1, InitInv
  <2>2. \A k \in Keys : Level[k] = Capacity[k]
    <3>1. TAKE k \in Keys
    <3>2. Present(k, bucket[k]) = Fresh(k) \/ Present(k, bucket[k]) = Present(k, NoBucket)
      BY <1>1, <2>1 DEF Init, Present, IInv, TypeOK
    <3>3. Fresh(k) = Present(k, NoBucket) BY DEF Present
    <3>4. Level[k] = Filled(k, Present(k, NoBucket)) BY <3>2, <3>3 DEF Level
    <3> QED BY <2>1, <3>4, FreshFilled DEF IInv, TypeOK
  <2>3. Level = Capacity BY <2>2, RateAssumption DEF Level
  <2> QED BY <1>1, <2>3, RateAssumption DEF Init, Eager!Init
<1>2. ASSUME IInv, [Next]_vars
      PROVE  [Eager!Next]_(Eager!vars)
  <2>1. CASE Next BY <1>2, <2>1, EagerStep DEF IInv
  <2>2. CASE UNCHANGED vars
    BY <2>2 DEF vars, window, Eager!vars, Eager!window, Level, Filled, Present, Fresh
  <2> QED BY <1>2, <2>1, <2>2
<1> QED BY <1>1, <1>2, Invariance, PTL DEF Spec, KeepsBuckets, Eager!Spec

=============================================================================

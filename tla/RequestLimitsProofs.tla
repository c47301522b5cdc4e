------------------------ MODULE RequestLimitsProofs -------------------------
(***************************************************************************)
(* For every set of browsers, keys and addresses and every size of burst,  *)
(* cost and sweep interval: the buckets are well formed, no caller exceeds *)
(* its budget in any window, and a caller that obeys Retry-After is        *)
(* admitted.                                                               *)
(***************************************************************************)
EXTENDS RequestLimits, TLAPS

\* A full bucket holds at least one token (ratelimit.ts:41-44).
LEMMA FullHoldsAToken ==
    \A l \in Limiter : Full(l) \in Nat /\ Cost[l] \in Nat \ {0} /\ Cost[l] <= Full(l)
<1> SUFFICES ASSUME NEW l \in Limiter
             PROVE  Full(l) \in Nat /\ Cost[l] \in Nat \ {0} /\ Cost[l] <= Full(l)
    OBVIOUS
<1>1. Cost[l] \in Nat \ {0} /\ Burst[l] \in Nat \ {0}
    BY LimitsAssumption
<1>2. ASSUME NEW b \in Nat \ {0}, NEW c \in Nat \ {0}
      PROVE  b * c \in Nat /\ c <= b * c
    OBVIOUS
<1> QED BY <1>1, <1>2 DEF Full

\* A wait rounded up to whole seconds is not shorter than what is missing
\* (middleware.ts:136).
LEMMA RetryAfterCovers ==
    \A missing \in Nat : Second * RetryAfter(missing) \in Nat
                         /\ missing <= Second * RetryAfter(missing)
<1> SUFFICES ASSUME NEW m \in Nat
             PROVE  Second * RetryAfter(m) \in Nat /\ m <= Second * RetryAfter(m)
    OBVIOUS
<1> DEFINE q == (m + Second - 1) \div Second
<1>1. Second \in Nat \ {0}
    BY LimitsAssumption
<1>2. q \in Nat /\ m <= Second * q
    BY <1>1
<1>3. ASSUME NEW x \in Nat
      PROVE  Second * Larger(1, x) \in Nat /\ Second * x <= Second * Larger(1, x)
    BY <1>1 DEF Larger
<1> QED BY <1>1, <1>2, <1>3 DEF RetryAfter

-----------------------------------------------------------------------------
(* The buckets. *)

\* A bucket as the type invariant describes it.
Sound(l, b) == b = NoBucket \/ /\ b \in Bucket
                               /\ b.tokens \in 0..Full(l)
                               /\ b.updated <= clock

\* What a sound bucket holds is a number of units between nothing and a burst.
LEMMA LevelBounds ==
    ASSUME clock \in Nat, NEW l \in Limiter, NEW b, Sound(l, b)
    PROVE  Level(l, b) \in 0..Full(l)
<1>1. Full(l) \in Nat
    BY FullHoldsAToken
<1>2. CASE b = NoBucket
    BY <1>1, <1>2 DEF Level
<1>3. CASE b # NoBucket
    BY <1>1, <1>3 DEF Level, Sound, Bucket, Smaller
<1> QED BY <1>2, <1>3

\* "Forgetting it changes no answer" (ratelimit.ts:72-80): the sweep keeps what
\* every bucket holds.
LEMMA SweepKeepsLevel ==
    ASSUME clock \in Nat, NEW l \in Limiter, NEW k \in Key, Sound(l, bucket[l][k])
    PROVE  /\ Sound(l, AfterSweep(l, k))
           /\ Level(l, AfterSweep(l, k)) = Level(l, bucket[l][k])
<1>1. Full(l) \in Nat
    BY FullHoldsAToken
<1>2. CASE SweepDue(l) /\ Sweepable(l, bucket[l][k])
    BY <1>1, <1>2 DEF AfterSweep, Sweepable, Level, Sound, Bucket, Smaller
<1>3. CASE ~(SweepDue(l) /\ Sweepable(l, bucket[l][k]))
    BY <1>3 DEF AfterSweep
<1> QED BY <1>2, <1>3

\* A check changes what one bucket holds, by what it takes.
LEMMA TouchTakes ==
    ASSUME LimitsTypeOK, NEW l \in Limiter, NEW k \in Key, NEW taken \in Nat,
           taken <= Level(l, AfterSweep(l, k)), Touch(l, k, taken), clock' = clock
    PROVE  /\ swept' \in [Limiter -> 0..clock]
           /\ bucket' \in [Limiter -> [Key -> Bucket \cup {NoBucket}]]
           /\ \A m \in Limiter, q \in Key :
                 /\ Sound(m, bucket[m][q])'
                 /\ Level(m, bucket[m][q])' =
                       Level(m, bucket[m][q]) - (IF m = l /\ q = k THEN taken ELSE 0)
<1> DEFINE left == [tokens |-> Level(l, AfterSweep(l, k)) - taken, updated |-> clock]
<1>0. clock \in Nat
    BY DEF LimitsTypeOK
<1>1. \A m \in Limiter, q \in Key : Sound(m, bucket[m][q])
    BY DEF LimitsTypeOK, Sound
<1>2. \A m \in Limiter, q \in Key :
         /\ Sound(m, AfterSweep(m, q))
         /\ Level(m, AfterSweep(m, q)) = Level(m, bucket[m][q])
    BY <1>0, <1>1, SweepKeepsLevel
<1>3. Level(l, AfterSweep(l, k)) \in 0..Full(l)
    BY <1>0, <1>2, LevelBounds
<1>4. Full(l) \in Nat
    BY FullHoldsAToken
<1>5. left \in Bucket /\ left.tokens \in 0..Full(l) /\ left.updated = clock
    BY <1>0, <1>3, <1>4 DEF Bucket
<1>6. left # NoBucket
    BY <1>5, NoBucketAssumption
<1>7. Sound(l, left) /\ Level(l, left) = Level(l, AfterSweep(l, k)) - taken
  <2>1. left.tokens + (clock - left.updated) = left.tokens
      BY <1>0, <1>5 DEF Bucket
  <2>2. Smaller(Full(l), left.tokens) = left.tokens
      BY <1>4, <1>5 DEF Smaller
  <2>3. Sound(l, left)
      BY <1>0, <1>5 DEF Sound
  <2>4. Level(l, left) = left.tokens
      BY <1>6, <2>1, <2>2 DEF Level
  <2> QED BY <2>3, <2>4
<1>8. swept' \in [Limiter -> 0..clock]
    BY <1>0 DEF Touch, LimitsTypeOK
<1>9. bucket' = [bucket EXCEPT ![l] = [q \in Key |-> IF q = k THEN left ELSE AfterSweep(l, q)]]
    BY DEF Touch
<1>10. bucket \in [Limiter -> [Key -> Bucket \cup {NoBucket}]]
    BY DEF LimitsTypeOK
<1>11. \A q \in Key : AfterSweep(l, q) \in Bucket \cup {NoBucket}
    BY <1>10 DEF AfterSweep
<1>12. [q \in Key |-> IF q = k THEN left ELSE AfterSweep(l, q)] \in [Key -> Bucket \cup {NoBucket}]
    BY <1>5, <1>11
<1>13. bucket' \in [Limiter -> [Key -> Bucket \cup {NoBucket}]]
    BY <1>9, <1>10, <1>12
<1>14. ASSUME NEW m \in Limiter, NEW q \in Key
       PROVE  /\ Sound(m, bucket[m][q])'
              /\ Level(m, bucket[m][q])' =
                    Level(m, bucket[m][q]) - (IF m = l /\ q = k THEN taken ELSE 0)
  <2>1. \A b : (Sound(m, b) => Sound(m, b)') /\ Level(m, b)' = Level(m, b)
      BY DEF Sound, Level
  <2>2. Level(m, bucket[m][q]) \in Nat
      BY <1>0, <1>1, LevelBounds, FullHoldsAToken
  <2>3. CASE m = l /\ q = k
    <3>1. bucket'[m][q] = left
        BY <1>9, <1>10, <2>3
    <3> QED BY <1>2, <1>7, <2>3, <3>1, clock' = clock DEF Sound, Level
  <2>4. CASE m = l /\ q # k
    <3>1. bucket'[m][q] = AfterSweep(m, q)
        BY <1>9, <1>10, <2>4
    <3>2. Sound(m, AfterSweep(m, q)) /\ Level(m, AfterSweep(m, q)) = Level(m, bucket[m][q])
        BY <1>2
    <3> HIDE DEF left
    <3>3. \A b, c : c = b /\ Sound(m, b) =>
             /\ \/ c = NoBucket
                \/ c \in Bucket /\ c.tokens \in 0..Full(m) /\ c.updated <= clock'
             /\ (IF c = NoBucket THEN Full(m)
                 ELSE Smaller(Full(m), c.tokens + (clock' - c.updated))) = Level(m, b)
        BY clock' = clock DEF Sound, Level
    <3> QED BY <2>2, <2>4, <3>1, <3>2, <3>3 DEF Sound, Level
  <2>5. CASE m # l
    <3>1. bucket'[m][q] = bucket[m][q]
        BY <1>9, <1>10, <2>5
    <3> QED BY <1>1, <2>2, <2>5, <3>1, clock' = clock DEF Sound, Level
  <2> QED BY <2>3, <2>4, <2>5
<1> QED BY <1>8, <1>13, <1>14

-----------------------------------------------------------------------------
(* The invariant. A caller's budget is what was admitted and what its bucket
   still holds, together; a promise is what the bucket holds and what refills
   until the promised moment. *)

Holds(l, k) == Level(l, bucket[l][k])

Budgeted == \A l \in Limiter, k \in Key :
    spent[l][k] + Holds(l, k) <= Full(l) + (clock - opened)

Promised == \A l \in Limiter, k \in Key :
    promised[l][k] # NoPromise =>
        \/ Cost[l] <= Holds(l, k)
        \/ Cost[l] <= Holds(l, k) + (promised[l][k] - clock)

LimitsInv == LimitsTypeOK /\ Budgeted /\ Promised

LEMMA TypeMeansSound ==
    ASSUME LimitsTypeOK
    PROVE  \A l \in Limiter, k \in Key :
              /\ Sound(l, bucket[l][k])
              /\ Sound(l, AfterSweep(l, k))
              /\ Level(l, AfterSweep(l, k)) = Holds(l, k)
              /\ Holds(l, k) \in 0..Full(l)
<1>1. clock \in Nat /\ \A l \in Limiter, k \in Key : Sound(l, bucket[l][k])
    BY DEF LimitsTypeOK, Sound
<1> QED BY <1>1, SweepKeepsLevel, LevelBounds DEF Holds

LEMMA InitLimits == Init => LimitsInv
<1> SUFFICES ASSUME Init PROVE LimitsInv
    OBVIOUS
<1>1. LimitsTypeOK
    BY NoBucketAssumption DEF Init, LimitsTypeOK
<1>2. \A l \in Limiter, k \in Key : Holds(l, k) = Full(l)
    BY DEF Init, Holds, Level
<1>3. Budgeted
    BY <1>2, FullHoldsAToken DEF Init, Budgeted
<1>4. Promised
    BY DEF Init, Promised
<1> QED BY <1>1, <1>3, <1>4 DEF LimitsInv

LEMMA AdmitStep ==
    ASSUME LimitsInv, NEW b \in Browser, NEW l \in Limiter, Admit(b, l)
    PROVE  LimitsInv'
<1> DEFINE k == KeyOf[b]
<1>0. k \in Key /\ LimitsTypeOK /\ Cost[l] \in Nat
    BY LimitsAssumption DEF LimitsInv
<1>1. clock' = clock /\ opened' = opened /\ clock \in Nat /\ opened \in 0..clock
    BY DEF Admit, LimitsInv, LimitsTypeOK
<1>2. /\ swept' \in [Limiter -> 0..clock]
      /\ bucket' \in [Limiter -> [Key -> Bucket \cup {NoBucket}]]
      /\ \A m \in Limiter, q \in Key :
            /\ Sound(m, bucket[m][q])'
            /\ Level(m, bucket[m][q])' =
                  Level(m, bucket[m][q]) - (IF m = l /\ q = k THEN Cost[l] ELSE 0)
  <2>1. Cost[l] <= Level(l, AfterSweep(l, k)) /\ Touch(l, k, Cost[l])
      BY <1>0, TypeMeansSound, FullHoldsAToken DEF Admit
  <2> QED BY <1>0, <1>1, <2>1, TouchTakes
<1>3. \A m \in Limiter, q \in Key :
         /\ spent'[m][q] = spent[m][q] + (IF m = l /\ q = k THEN Cost[l] ELSE 0)
         /\ spent[m][q] \in Nat
         /\ promised'[m][q] = IF m = l /\ q = k THEN NoPromise ELSE promised[m][q]
    BY <1>0 DEF Admit, LimitsTypeOK
<1>4. \A m \in Limiter, q \in Key : Holds(m, q) \in Nat /\ Full(m) \in Nat
    BY <1>0, TypeMeansSound, FullHoldsAToken
<1>5. LimitsTypeOK'
  <2>1. spent' \in [Limiter -> [Key -> Nat]] /\ promised' \in [Limiter -> [Key -> Nat \cup {NoPromise}]]
      BY <1>0 DEF Admit, LimitsTypeOK
  <2> QED BY <1>1, <1>2, <2>1 DEF LimitsTypeOK, Sound
<1>6. Budgeted'
  <2> SUFFICES ASSUME NEW m \in Limiter, NEW q \in Key
               PROVE  spent'[m][q] + Holds(m, q)' <= Full(m) + (clock' - opened')
      BY DEF Budgeted, Full
  <2>1. spent[m][q] + Holds(m, q) <= Full(m) + (clock - opened)
      BY DEF LimitsInv, Budgeted
  <2> QED BY <1>0, <1>1, <1>2, <1>3, <1>4, <2>1 DEF Holds
<1>7. Promised'
  <2> SUFFICES ASSUME NEW m \in Limiter, NEW q \in Key, promised'[m][q] # NoPromise
               PROVE  \/ Cost[m] <= Holds(m, q)'
                      \/ Cost[m] <= Holds(m, q)' + (promised'[m][q] - clock')
      BY DEF Promised
  <2>1. ~(m = l /\ q = k) /\ promised'[m][q] = promised[m][q]
      BY <1>3
  <2>2. Holds(m, q)' = Holds(m, q)
      BY <1>2, <1>4, <2>1 DEF Holds
  <2> QED BY <1>1, <2>1, <2>2 DEF LimitsInv, Promised
<1> QED BY <1>5, <1>6, <1>7 DEF LimitsInv

LEMMA ShedStep ==
    ASSUME LimitsInv, NEW b \in Browser, NEW l \in Limiter, Shed(b, l)
    PROVE  LimitsInv'
<1> DEFINE k == KeyOf[b]
           missing == Cost[l] - Level(l, AfterSweep(l, k))
<1>0. k \in Key /\ LimitsTypeOK /\ Cost[l] \in Nat
    BY LimitsAssumption DEF LimitsInv
<1>1. clock' = clock /\ opened' = opened /\ spent' = spent /\ clock \in Nat
    BY DEF Shed, LimitsInv, LimitsTypeOK
<1>2. Level(l, AfterSweep(l, k)) = Holds(l, k) /\ Holds(l, k) \in Nat /\ Holds(l, k) < Cost[l]
    BY <1>0, TypeMeansSound, FullHoldsAToken DEF Shed
<1>3. /\ swept' \in [Limiter -> 0..clock]
      /\ bucket' \in [Limiter -> [Key -> Bucket \cup {NoBucket}]]
      /\ \A m \in Limiter, q \in Key :
            /\ Sound(m, bucket[m][q])'
            /\ Level(m, bucket[m][q])' =
                  Level(m, bucket[m][q]) - (IF m = l /\ q = k THEN 0 ELSE 0)
  <2>1. Touch(l, k, 0) /\ 0 <= Level(l, AfterSweep(l, k))
      BY <1>2 DEF Shed
  <2> QED BY <1>0, <1>1, <2>1, TouchTakes
<1>4. \A m \in Limiter, q \in Key : Holds(m, q)' = Holds(m, q)
  <2>1. \A m \in Limiter, q \in Key : Holds(m, q) \in Nat
      BY <1>0, TypeMeansSound, FullHoldsAToken
  <2> QED BY <1>3, <2>1 DEF Holds
<1>5. missing \in Nat /\ Second * RetryAfter(missing) \in Nat
      /\ missing <= Second * RetryAfter(missing)
    BY <1>0, <1>2, RetryAfterCovers
<1>6. \A m \in Limiter, q \in Key :
         promised'[m][q] = IF m = l /\ q = k /\ promised[m][q] = NoPromise
                           THEN clock + Second * RetryAfter(missing) ELSE promised[m][q]
    BY <1>0 DEF Shed, LimitsTypeOK
<1>7. LimitsTypeOK'
  <2>1. promised' \in [Limiter -> [Key -> Nat \cup {NoPromise}]]
    <3>1. clock + Second * RetryAfter(missing) \in Nat
        BY <1>1, <1>5
    <3>2. promised' = [promised EXCEPT ![l][k] =
              IF @ = NoPromise THEN clock + Second * RetryAfter(missing) ELSE @]
        BY DEF Shed
    <3> HIDE DEF missing
    <3> QED BY <1>0, <3>1, <3>2 DEF LimitsTypeOK
  <2>2. opened' \in 0..clock' /\ spent' \in [Limiter -> [Key -> Nat]] /\ clock' \in Nat
      BY <1>0, <1>1 DEF LimitsTypeOK
  <2> QED BY <1>1, <1>3, <2>1, <2>2 DEF LimitsTypeOK, Sound
<1>8. Budgeted'
    BY <1>1, <1>4 DEF LimitsInv, Budgeted, Full
<1>9. Promised'
  <2> SUFFICES ASSUME NEW m \in Limiter, NEW q \in Key, promised'[m][q] # NoPromise
               PROVE  \/ Cost[m] <= Holds(m, q)'
                      \/ Cost[m] <= Holds(m, q)' + (promised'[m][q] - clock')
      BY DEF Promised
  <2>1. CASE m = l /\ q = k /\ promised[m][q] = NoPromise
    <3> DEFINE wait == Second * RetryAfter(missing)
    <3>1. promised'[m][q] = clock + wait /\ wait \in Nat /\ missing <= wait
        BY <1>5, <1>6, <2>1
    <3>2. missing = Cost[m] - Holds(m, q)
        BY <1>2, <2>1
    <3> HIDE DEF missing, wait
    <3> QED BY <1>0, <1>1, <1>2, <1>4, <2>1, <3>1, <3>2
  <2>2. CASE ~(m = l /\ q = k /\ promised[m][q] = NoPromise)
    <3>1. promised'[m][q] = promised[m][q]
        BY <1>6, <2>2
    <3> QED BY <1>1, <1>4, <3>1 DEF LimitsInv, Promised
  <2> QED BY <2>1, <2>2
<1> QED BY <1>7, <1>8, <1>9 DEF LimitsInv

LEMMA TickStep == LimitsInv /\ Tick => LimitsInv'
<1> SUFFICES ASSUME LimitsInv, Tick PROVE LimitsInv'
    OBVIOUS
<1>1. /\ clock' = clock + 1 /\ opened' = opened /\ spent' = spent
      /\ bucket' = bucket /\ promised' = promised /\ swept' = swept
      /\ clock \in Nat /\ opened \in 0..clock /\ swept \in [Limiter -> 0..clock]
    BY DEF Tick, LimitsInv, LimitsTypeOK
<1>2. LimitsTypeOK'
  <2>1. clock' \in Nat /\ opened' \in 0..clock'
      BY <1>1
  <2>2. swept' \in [Limiter -> 0..clock']
      BY <1>1
  <2>3. \A l \in Limiter, k \in Key : bucket[l][k] # NoBucket =>
            /\ bucket[l][k].tokens \in 0..Full(l) /\ bucket[l][k].updated <= clock'
    <3>1. \A l \in Limiter, k \in Key : bucket[l][k] # NoBucket =>
              bucket[l][k] \in Bucket /\ bucket[l][k].tokens \in 0..Full(l)
              /\ bucket[l][k].updated <= clock
        BY DEF LimitsInv, LimitsTypeOK
    <3> QED BY <1>1, <3>1 DEF Bucket
  <2> QED BY <1>1, <2>1, <2>2, <2>3 DEF LimitsInv, LimitsTypeOK, Full
<1>3. ASSUME NEW l \in Limiter, NEW k \in Key
      PROVE  /\ Holds(l, k) \in 0..Full(l) /\ Full(l) \in Nat
             /\ Holds(l, k)' = Smaller(Full(l), Holds(l, k) + 1)
  <2>1. Sound(l, bucket[l][k]) /\ Holds(l, k) \in 0..Full(l) /\ Full(l) \in Nat
      BY TypeMeansSound, FullHoldsAToken DEF LimitsInv
  <2>2. CASE bucket[l][k] = NoBucket
      BY <1>1, <2>1, <2>2 DEF Holds, Level, Smaller, Full
  <2>3. CASE bucket[l][k] # NoBucket
      BY <1>1, <2>1, <2>3 DEF Holds, Level, Smaller, Full, Sound, Bucket
  <2> QED BY <2>1, <2>2, <2>3
<1>4. Budgeted'
  <2> SUFFICES ASSUME NEW l \in Limiter, NEW k \in Key
               PROVE  spent'[l][k] + Holds(l, k)' <= Full(l) + (clock' - opened')
      BY DEF Budgeted, Full
  <2>1. spent[l][k] + Holds(l, k) <= Full(l) + (clock - opened) /\ spent[l][k] \in Nat
      BY DEF LimitsInv, Budgeted, LimitsTypeOK
  <2> QED BY <1>1, <1>3, <2>1 DEF Smaller
<1>5. Promised'
  <2> SUFFICES ASSUME NEW l \in Limiter, NEW k \in Key, promised'[l][k] # NoPromise
               PROVE  \/ Cost[l] <= Holds(l, k)'
                      \/ Cost[l] <= Holds(l, k)' + (promised'[l][k] - clock')
      BY DEF Promised
  <2>1. /\ promised'[l][k] = promised[l][k] /\ promised[l][k] \in Nat
        /\ \/ Cost[l] <= Holds(l, k)
           \/ Cost[l] <= Holds(l, k) + (promised[l][k] - clock)
      BY <1>1 DEF LimitsInv, Promised, LimitsTypeOK
  <2>2. Cost[l] \in Nat /\ Cost[l] <= Full(l)
      BY FullHoldsAToken
  <2> QED BY <1>1, <1>3, <2>1, <2>2 DEF Smaller
<1> QED BY <1>2, <1>4, <1>5 DEF LimitsInv

LEMMA OtherStep ==
    ASSUME LimitsInv, clock' = clock, bucket' = bucket, swept' = swept, promised' = promised,
           \/ opened' = opened /\ spent' = spent
           \/ OpenWindow
    PROVE  LimitsInv'
<1>1. \A l \in Limiter, k \in Key : Holds(l, k)' = Holds(l, k)
    BY DEF Holds, Level, Full
<1>2. LimitsTypeOK'
    BY DEF LimitsInv, LimitsTypeOK, OpenWindow, Full
<1>3. Promised'
    BY <1>1 DEF LimitsInv, Promised
<1>4. CASE opened' = opened /\ spent' = spent
    BY <1>1, <1>2, <1>3, <1>4 DEF LimitsInv, Budgeted, Full
<1>5. CASE OpenWindow
  <2>1. opened' = clock /\ clock \in Nat
      BY <1>5 DEF OpenWindow, LimitsInv, LimitsTypeOK
  <2>2. \A l \in Limiter, k \in Key : spent'[l][k] = 0
      BY <1>5 DEF OpenWindow
  <2>3. \A l \in Limiter, k \in Key : Holds(l, k) \in 0..Full(l) /\ Full(l) \in Nat
      BY TypeMeansSound, FullHoldsAToken DEF LimitsInv
  <2>4. Budgeted'
      BY <1>1, <2>1, <2>2, <2>3 DEF Budgeted, Full
  <2> QED BY <1>2, <1>3, <2>4 DEF LimitsInv
<1> QED BY <1>4, <1>5

LEMMA LimitsStep == LimitsInv /\ [Next]_vars => LimitsInv'
<1> SUFFICES ASSUME LimitsInv, [Next]_vars PROVE LimitsInv'
    OBVIOUS
<1>1. ASSUME NEW b \in Browser, NEW url \in Url, Navigate(b, url) PROVE LimitsInv'
    BY <1>1, OtherStep DEF Navigate
<1>2. ASSUME NEW b \in Browser, OnRequest(b) PROVE LimitsInv'
  <2>1. CASE Redirect(b)
      BY <2>1, OtherStep DEF Redirect
  <2>2. CASE ServeUnlimited(b)
      BY <2>2, OtherStep DEF ServeUnlimited
  <2>3. CASE \E l \in Limiter : Admit(b, l) \/ Shed(b, l)
      BY <2>3, AdmitStep, ShedStep
  <2> QED BY <1>2, <2>1, <2>2, <2>3 DEF OnRequest
<1>3. CASE Tick
    BY <1>3, TickStep
<1>4. CASE OpenWindow
    BY <1>4, OtherStep DEF OpenWindow
<1>5. CASE UNCHANGED vars
    BY <1>5, OtherStep DEF vars
<1> QED BY <1>1, <1>2, <1>3, <1>4, <1>5 DEF Next

\* The tables stay well formed.
THEOREM LimitsTypeCorrect == Spec => []LimitsTypeOK
<1>1. LimitsInv => LimitsTypeOK
    BY DEF LimitsInv
<1> QED BY <1>1, InitLimits, LimitsStep, PTL DEF Spec

\* The budget of ratelimit.ts:41-83, for every burst, rate and window.
THEOREM BudgetHolds == Spec => []WithinBudget
<1>1. LimitsInv => WithinBudget
  <2> SUFFICES ASSUME LimitsInv, NEW l \in Limiter, NEW k \in Key
               PROVE  spent[l][k] <= Full(l) + (clock - opened)
      BY DEF WithinBudget
  <2>1. Holds(l, k) \in 0..Full(l) /\ Full(l) \in Nat
      BY TypeMeansSound, FullHoldsAToken DEF LimitsInv
  <2>2. spent[l][k] + Holds(l, k) <= Full(l) + (clock - opened)
        /\ spent[l][k] \in Nat /\ clock \in Nat /\ opened \in 0..clock
      BY DEF LimitsInv, Budgeted, LimitsTypeOK
  <2> QED BY <2>1, <2>2
<1> QED BY <1>1, InitLimits, LimitsStep, PTL DEF Spec

\* Retry-After is honoured (ratelimit.ts:64-66, middleware.ts:136).
THEOREM PromiseHolds == Spec => []PromiseKept
<1>1. LimitsInv => PromiseKept
  <2> SUFFICES ASSUME LimitsInv, NEW l \in Limiter, NEW k \in Key,
                      promised[l][k] # NoPromise, promised[l][k] <= clock
               PROVE  Cost[l] <= Holds(l, k)
      BY DEF PromiseKept, Holds
  <2>1. Cost[l] \in Nat /\ Holds(l, k) \in Nat /\ promised[l][k] \in Nat /\ clock \in Nat
      BY TypeMeansSound, FullHoldsAToken DEF LimitsInv, LimitsTypeOK
  <2>2. \/ Cost[l] <= Holds(l, k)
        \/ Cost[l] <= Holds(l, k) + (promised[l][k] - clock)
      BY DEF LimitsInv, Promised
  <2> QED BY <2>1, <2>2
<1> QED BY <1>1, InitLimits, LimitsStep, PTL DEF Spec

=============================================================================

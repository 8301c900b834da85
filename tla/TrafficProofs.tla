--------------------------- MODULE TrafficProofs ---------------------------
(***************************************************************************)
(* What keeps a run's traffic within bounds: the token bucket in front of  *)
(* every request, the monitor that stops the run when a target is in       *)
(* distress, and the budgets of a crawl.  Each is proved about by itself,  *)
(* for every value of its constants.                                       *)
(***************************************************************************)
EXTENDS Limiter, Distress, Crawl, FiniteSetTheorems, WellFoundedInduction, TLAPS

-----------------------------------------------------------------------------
(* Arithmetic, counting, and what is picked from a sequence.                *)

\* Products of non-negative integers are monotone and distribute: the solver
\* is given these as facts about opaque products.
LEMMA ProductMonotone ==
    ASSUME NEW r \in Nat, NEW a \in Int, NEW b \in Int, a =< b
    PROVE  r * a =< r * b
  OBVIOUS

\* Multiplication distributes over addition.
LEMMA ProductSum ==
    ASSUME NEW r \in Int, NEW a \in Int, NEW b \in Int
    PROVE  /\ r * (a + b) = r * a + r * b
           /\ r * a \in Int
           /\ a * r = r * a
  OBVIOUS

\* A set of naturals has a least one.
LEMMA LeastNat ==
    ASSUME NEW T, T \subseteq Nat, T # {}
    PROVE  \E n \in T : \A m \in T : n <= m
  <1>1. IsWellFoundedOn(OpToRel(<,Nat), Nat)
    BY NatLessThanWellFounded
  <1>2. PICK n \in T : \A m \in T : ~ (<<m, n>> \in OpToRel(<,Nat))
    BY <1>1, WFMin
  <1>3. \A m \in T : ~(m < n)
    BY <1>2 DEF OpToRel
  <1>4. QED
    BY <1>3

\* A bounded one has a greatest.
LEMMA GreatestNat ==
    ASSUME NEW T, NEW b \in Nat, T \subseteq 0..b, T # {}
    PROVE  \E n \in T : \A m \in T : m <= n
  <1> DEFINE U == {n \in Nat : \A m \in T : m <= n}
  <1>1. U \subseteq Nat /\ b \in U
    OBVIOUS
  <1>2. PICK n \in U : \A m \in U : n <= m
    <2> HIDE DEF U
    <2> QED
      BY <1>1, LeastNat
  <1>3. CASE n \in T
    BY <1>3, <1>2
  <1>4. CASE n \notin T
    <2>1. PICK t \in T : TRUE
      OBVIOUS
    <2>2. t <= n /\ t # n /\ t \in Nat
      BY <1>2, <1>4
    <2>3. n - 1 \in Nat
      BY <2>2, <1>2
    <2>4. \A m \in T : m <= n - 1
      BY <1>2, <1>4
    <2>5. n - 1 \in U
      BY <2>3, <2>4
    <2>6. QED
      BY <2>5, <1>2
  <1>5. QED
    BY <1>3, <1>4

\* The indices up to one of them.
UpTo(I, i) == {j \in I : j <= i}

\* The positions of a sequence of a given length are finitely many.
LEMMA LengthFinite ==
    ASSUME NEW n \in Nat
    PROVE  IsFiniteSet(1..n)
  BY FS_Interval

\* Counting up to an index: each index counts one more than those below it.
LEMMA UpToCounts ==
    ASSUME NEW b \in Nat, NEW I, I \subseteq 1..b
    PROVE  /\ IsFiniteSet(I) /\ Cardinality(I) \in Nat
           /\ \A i \in I : /\ IsFiniteSet(UpTo(I, i))
                           /\ Cardinality(UpTo(I, i)) \in 1..Cardinality(I)
           /\ \A i, j \in I : i < j => Cardinality(UpTo(I, i)) < Cardinality(UpTo(I, j))
  <1>1. IsFiniteSet(1..b)
    BY FS_Interval
  <1>2. IsFiniteSet(I) /\ Cardinality(I) \in Nat
    BY <1>1, FS_Subset, FS_CardinalityType
  <1>3. ASSUME NEW i \in I
        PROVE  /\ IsFiniteSet(UpTo(I, i))
               /\ Cardinality(UpTo(I, i)) \in 1..Cardinality(I)
    <2>1. UpTo(I, i) \in SUBSET I /\ i \in UpTo(I, i)
      BY <1>3 DEF UpTo
    <2>2. IsFiniteSet(UpTo(I, i)) /\ Cardinality(UpTo(I, i)) <= Cardinality(I)
      BY <2>1, <1>2, FS_Subset
    <2>3. Cardinality(UpTo(I, i)) \in Nat /\ Cardinality(UpTo(I, i)) # 0
      BY <2>1, <2>2, FS_CardinalityType, FS_EmptySet
    <2>4. QED
      BY <2>2, <2>3, <1>2
  <1>4. ASSUME NEW i \in I, NEW j \in I, i < j
        PROVE  Cardinality(UpTo(I, i)) < Cardinality(UpTo(I, j))
    <2>0. \A m \in I : m \in Int
      OBVIOUS
    <2>1. UpTo(I, i) \in SUBSET UpTo(I, j) /\ j \in UpTo(I, j) /\ j \notin UpTo(I, i)
      <3>1. i \in Int /\ j \in Int
        BY <2>0
      <3>2. \A m \in I : m <= i => m <= j
        BY <2>0, <3>1, <1>4
      <3>3. j <= j /\ ~(j <= i)
        BY <3>1, <1>4
      <3>4. QED
        BY <3>2, <3>3 DEF UpTo
    <2>2. /\ Cardinality(UpTo(I, i)) <= Cardinality(UpTo(I, j))
          /\ Cardinality(UpTo(I, i)) # Cardinality(UpTo(I, j))
      <3>1. IsFiniteSet(UpTo(I, j))
        BY <1>3
      <3>2. UpTo(I, i) # UpTo(I, j)
        BY <2>1
      <3>3. QED
        BY <2>1, <3>1, <3>2, FS_Subset
    <2>3. QED
      BY <2>2, <1>3, <1>2
  <1>5. QED
    BY <1>2, <1>3, <1>4

\* Every count is some index's.
LEMMA NthIs ==
    ASSUME NEW b \in Nat, NEW I, I \subseteq 1..b, NEW k \in 1..Cardinality(I)
    PROVE  Nth(I, k) \in I /\ Cardinality(UpTo(I, Nth(I, k))) = k
  <1> DEFINE C(i) == Cardinality(UpTo(I, i))
             T == {i \in I : C(i) >= k}
  <1>0. \A m \in I : m \in Nat /\ m \in 0..b
    OBVIOUS
  <1>1. /\ IsFiniteSet(I) /\ Cardinality(I) \in Nat
        /\ \A i \in I : IsFiniteSet(UpTo(I, i)) /\ C(i) \in 1..Cardinality(I)
        /\ \A i, j \in I : i < j => C(i) < C(j)
    <2> HIDE DEF C
    <2> QED
      BY UpToCounts DEF C
  <1>2. PICK g \in I : \A i \in I : i <= g
    <2>1. I # {}
      BY FS_EmptySet, <1>1
    <2>2. I \subseteq 0..b
      OBVIOUS
    <2>3. QED
      BY <2>1, <2>2, GreatestNat
  <1>3. UpTo(I, g) = I
    BY <1>2 DEF UpTo
  <1>4. g \in T
    BY <1>3, <1>1
  <1>5. PICK i \in T : \A j \in T : i <= j
    <2>1. T \subseteq Nat /\ T # {}
      BY <1>4, <1>0
    <2> HIDE DEF T
    <2> QED
      BY <2>1, LeastNat
  <1>6. i \in I /\ C(i) >= k /\ C(i) \in Nat
    BY <1>5, <1>1
  <1>7. ASSUME C(i) > k PROVE FALSE
    <2> DEFINE B == UpTo(I, i) \ {i}
    <2>1. i \in UpTo(I, i)
      BY <1>6 DEF UpTo
    <2>2. IsFiniteSet(B) /\ Cardinality(B) = C(i) - 1
      BY <2>1, <1>1, <1>6, FS_RemoveElement
    <2>3. B # {}
      BY <2>2, <1>7, <1>6, FS_EmptySet
    <2>4. B \subseteq 0..b
      BY <1>0 DEF UpTo
    <2>5. PICK j \in B : \A m \in B : m <= j
      <3> HIDE DEF B
      <3> QED
        BY <2>3, <2>4, GreatestNat
    <2>6. j \in I /\ j < i
      BY <2>5, <1>6 DEF UpTo
    <2>7. UpTo(I, j) = B
      <3>1. ASSUME NEW m \in I PROVE m <= j <=> m <= i /\ m # i
        <4>1. m \in Nat /\ i \in Nat /\ j \in Nat
          BY <1>0, <1>6, <2>6
        <4>2. m <= i /\ m # i => m \in B
          BY DEF UpTo
        <4>3. m <= i /\ m # i => m <= j
          BY <4>2, <2>5
        <4>4. QED
          BY <4>1, <4>3, <2>6
      <3>2. QED
        BY <3>1 DEF UpTo
    <2>8. C(j) >= k
      BY <2>7, <2>2, <1>7, <1>6
    <2>9. QED
      BY <2>8, <2>6, <1>5
  <1>8. C(i) = k
    BY <1>6, <1>7
  <1>9. \E n \in I : Cardinality({j \in I : j <= n}) = k
    BY <1>8, <1>6 DEF UpTo
  <1>10. QED
    BY <1>9 DEF Nth, UpTo

\* Picking walks the indices in their order and leaves none out.
LEMMA NthWalks ==
    ASSUME NEW b \in Nat, NEW I, I \subseteq 1..b
    PROVE  /\ Cardinality(I) \in Nat
           /\ \A k \in 1..Cardinality(I) : Nth(I, k) \in I
           /\ \A k, l \in 1..Cardinality(I) : k < l => Nth(I, k) < Nth(I, l)
           /\ \A i \in I : \E k \in 1..Cardinality(I) : Nth(I, k) = i
  <1>1. Cardinality(I) \in Nat
    BY UpToCounts
  <1>2. \A k \in 1..Cardinality(I) :
            Nth(I, k) \in I /\ Cardinality(UpTo(I, Nth(I, k))) = k
    BY NthIs
  <1> DEFINE C(i) == Cardinality(UpTo(I, i))
  <1>c. \A i, j \in I : i < j => C(i) < C(j)
    BY UpToCounts
  <1>i. \A i \in I : i \in Int /\ C(i) \in 1..Cardinality(I)
    <2>1. \A i \in I : i \in Int
      OBVIOUS
    <2>2. QED
      BY <2>1, UpToCounts
  <1> HIDE DEF C
  <1>3. ASSUME NEW k \in 1..Cardinality(I), NEW l \in 1..Cardinality(I), k < l
        PROVE  Nth(I, k) < Nth(I, l)
    <2>1. /\ Nth(I, k) \in I /\ C(Nth(I, k)) = k
          /\ Nth(I, l) \in I /\ C(Nth(I, l)) = l
      BY <1>2 DEF C
    <2>2. k \in Int /\ l \in Int /\ Nth(I, k) \in Int /\ Nth(I, l) \in Int
      <3>1. k \in Int /\ l \in Int
        BY <1>1
      <3>2. QED
        BY <2>1, <1>i, <3>1
    <2>3. ~(Nth(I, l) < Nth(I, k)) /\ Nth(I, l) # Nth(I, k)
      BY <2>1, <2>2, <1>c, <1>3
    <2>4. QED
      BY <2>2, <2>3
  <1>4. ASSUME NEW i \in I PROVE \E k \in 1..Cardinality(I) : Nth(I, k) = i
    <2>1. PICK k \in 1..Cardinality(I) : k = C(i)
      BY <1>i
    <2>2. Nth(I, k) \in I /\ C(Nth(I, k)) = k
      BY <1>2 DEF C
    <2>3. i \in Int /\ Nth(I, k) \in Int /\ k \in Int
      <3>1. k \in Int
        BY <1>1
      <3>2. i \in Int /\ Nth(I, k) \in Int
        BY <2>2, <1>i
      <3>3. QED
        BY <3>1, <3>2
    <2>4. ~(Nth(I, k) < i) /\ ~(i < Nth(I, k))
      BY <2>1, <2>2, <2>3, <1>c
    <2>5. QED
      BY <2>3, <2>4
  <1>5. QED
    BY <1>1, <1>2, <1>3, <1>4

\* Picking keeps to the sequence's elements, in their order.
LEMMA PickedSeq ==
    ASSUME NEW S, NEW seq \in Seq(S), NEW I, I \subseteq DOMAIN seq
    PROVE  /\ Picked(seq, I) \in Seq(S)
           /\ Len(Picked(seq, I)) = Cardinality(I) /\ Cardinality(I) \in Nat
           /\ DOMAIN Picked(seq, I) = 1..Cardinality(I)
           /\ \A k \in 1..Cardinality(I) : Picked(seq, I)[k] = seq[Nth(I, k)]
           /\ \A k \in 1..Cardinality(I) : Nth(I, k) \in I
           /\ \A k, l \in 1..Cardinality(I) : k < l => Nth(I, k) < Nth(I, l)
           /\ \A i \in I : \E k \in 1..Cardinality(I) : Nth(I, k) = i
  <1>1. Len(seq) \in Nat /\ I \subseteq 1..Len(seq)
    OBVIOUS
  <1>2. /\ Cardinality(I) \in Nat
        /\ \A k \in 1..Cardinality(I) : Nth(I, k) \in I
        /\ \A k, l \in 1..Cardinality(I) : k < l => Nth(I, k) < Nth(I, l)
        /\ \A i \in I : \E k \in 1..Cardinality(I) : Nth(I, k) = i
    BY <1>1, NthWalks
  <1>3. \A k \in 1..Cardinality(I) : seq[Nth(I, k)] \in S
    BY <1>2, <1>1
  <1>4. Picked(seq, I) \in [1..Cardinality(I) -> S]
    BY <1>3 DEF Picked
  <1>5. Picked(seq, I) \in Seq(S) /\ Len(Picked(seq, I)) = Cardinality(I)
    BY <1>4, <1>2
  <1>6. QED
    BY <1>2, <1>4, <1>5 DEF Picked

-----------------------------------------------------------------------------
(* The token bucket.                                                        *)

\* FullRefill is the quotient rounded down and one more: it refills at least
\* a whole bucket, and at most a bucket and one tick's rate.
LEMMA FullRefillBound ==
    /\ Capacity \in Nat
    /\ Capacity >= OneRequest
    /\ FullRefill \in Nat \ {0}
    /\ RatePerSecond * FullRefill >= Capacity
    /\ RatePerSecond * FullRefill =< Capacity + RatePerSecond
  <1>1. Burst * OneRequest \in Nat
    BY LimiterAssumption
  <1>2. Capacity \in Nat /\ Capacity >= OneRequest
    BY <1>1, LimiterAssumption DEF Capacity, Larger
  <1> DEFINE q == Capacity \div RatePerSecond
  <1>3. /\ q \in Nat
        /\ RatePerSecond * q =< Capacity
        /\ Capacity < RatePerSecond * q + RatePerSecond
    BY <1>2, LimiterAssumption
  <1>4. RatePerSecond * (q + 1) = RatePerSecond * q + RatePerSecond
    BY <1>3, LimiterAssumption
  <1>5. QED
    BY <1>2, <1>3, <1>4, LimiterAssumption DEF FullRefill

----------------------------------------------------------------------------
\* What a refill adds is never more than the time it covers is worth, and a
\* clock that is not ahead of the last refill adds nothing.
LEMMA RefillBound ==
    ASSUME TypeOK
    PROVE  /\ Elapsed \in Nat
           /\ Refilled \in 0..Capacity
           /\ Refilled >= tokensMicro
           /\ Refilled =< tokensMicro
                          + RatePerSecond * (Larger(now, lastRefillUs) - lastRefillUs)
           /\ Sum =< 2 * Capacity + RatePerSecond
  <1> USE FullRefillBound, LimiterAssumption
  <1> DEFINE gain == Larger(now, lastRefillUs) - lastRefillUs
  <1>1. /\ now \in Int /\ lastRefillUs \in Int
        /\ tokensMicro \in Nat /\ tokensMicro =< Capacity
    BY DEF TypeOK
  <1>2. gain \in Nat /\ gain = Larger(now - lastRefillUs, 0)
    BY <1>1 DEF Larger
  <1>3. Elapsed \in Nat /\ Elapsed =< gain /\ Elapsed =< FullRefill
    BY <1>1, <1>2 DEF Elapsed, Smaller
  <1>4. /\ Elapsed * RatePerSecond \in Nat
        /\ Elapsed * RatePerSecond = RatePerSecond * Elapsed
    BY <1>3
  <1>5. RatePerSecond * Elapsed =< RatePerSecond * gain
    BY <1>2, <1>3, ProductMonotone
  <1>6. RatePerSecond * Elapsed =< RatePerSecond * FullRefill
    BY <1>3, ProductMonotone
  <1>7. Sum \in Nat /\ Sum >= tokensMicro /\ Sum =< 2 * Capacity + RatePerSecond
    BY <1>1, <1>4, <1>6 DEF Sum
  <1>8. Refilled \in 0..Capacity /\ Refilled >= tokensMicro /\ Refilled =< Sum
    BY <1>1, <1>7 DEF Refilled, Smaller
  <1>9. RatePerSecond * gain \in Nat
    BY <1>2
  <1>10. QED
    BY <1>1, <1>3, <1>4, <1>5, <1>7, <1>8, <1>9 DEF Sum

(***************************************************************************)
(* The inductive invariant.  SetBackNeverMints is inductive given the      *)
(* types.  SustainedRate is not: it forgets the tokens still held, and a   *)
(* window opened after the last refill.                                    *)
(***************************************************************************)
WindowBalance ==
    ~winSetBack =>
        /\ now >= winStart /\ now >= lastRefillUs
        /\ lastRefillUs < winStart => winIssued = 0
        /\ winIssued * OneRequest + tokensMicro =<
              Capacity + RatePerSecond * (Larger(lastRefillUs, winStart) - winStart)

\* The types, what the ghosts of the window say, and its balance.
IInv ==
    /\ TypeOK
    /\ winRefill =< lastRefillUs
    /\ SetBackNeverMints
    /\ WindowBalance

\* A fresh bucket holds its burst and has issued nothing.
LEMMA InitIInv == Init => IInv
  <1> SUFFICES ASSUME Init PROVE IInv
    OBVIOUS
  <1> USE FullRefillBound, LimiterAssumption DEF Init
  <1>1. TypeOK
    <2>1. /\ now \in 0..Horizon /\ tokensMicro \in 0..Capacity
          /\ lastRefillUs \in 0..Horizon /\ issued \in 0..MaxRequests
          /\ winStart \in 0..Horizon /\ winRefill \in 0..Horizon
          /\ winIssued \in Nat
      OBVIOUS
    <2>2. winSetBack \in BOOLEAN
      OBVIOUS
    <2>3. answer \in [kind : Decision, at : 0..Horizon, retry : Nat]
      BY DEF Decision
    <2>4. QED
      BY <2>1, <2>2, <2>3 DEF TypeOK
  <1>2. RatePerSecond * 0 = 0 /\ 0 * OneRequest = 0
    OBVIOUS
  <1>3. SetBackNeverMints
    BY <1>2 DEF SetBackNeverMints
  <1>4. WindowBalance
    BY <1>2 DEF WindowBalance, Larger
  <1>5. QED
    BY <1>1, <1>3, <1>4 DEF IInv

\* Any check keeps the balances: the refill credits at most the time passed,
\* and an allow moves one request from the bucket to the count.
LEMMA CheckBalance ==
    ASSUME IInv,
           NEW n \in {0, 1}, n * OneRequest =< Refilled,
           Refill(n * OneRequest),
           winIssued' = winIssued + n,
           UNCHANGED <<now, winStart, winRefill, winSetBack>>
    PROVE  /\ tokensMicro' \in 0..Capacity
           /\ lastRefillUs' \in 0..Horizon
           /\ winRefill' =< lastRefillUs'
           /\ SetBackNeverMints'
           /\ WindowBalance'
  <1> USE FullRefillBound, LimiterAssumption
  <1> DEFINE gain == Larger(now, lastRefillUs) - lastRefillUs
             spent == n * OneRequest
  <1>1. TypeOK /\ SetBackNeverMints /\ WindowBalance /\ winRefill =< lastRefillUs
    BY DEF IInv
  <1>2. /\ now \in 0..Horizon /\ lastRefillUs \in 0..Horizon
        /\ winStart \in Int /\ winRefill \in Int
        /\ winIssued \in Nat /\ tokensMicro \in Nat /\ winSetBack \in BOOLEAN
    BY <1>1 DEF TypeOK
  <1>3. gain \in Nat /\ lastRefillUs' = lastRefillUs + gain
    BY <1>2 DEF Refill, Larger
  <1>4. /\ spent \in Nat
        /\ (winIssued + n) * OneRequest = winIssued * OneRequest + spent
        /\ winIssued * OneRequest \in Nat
    BY <1>2
  <1>5. /\ tokensMicro' \in 0..Capacity
        /\ tokensMicro' = Refilled - spent
        /\ Refilled \in Nat
        /\ Refilled =< Capacity
        /\ Refilled =< tokensMicro + RatePerSecond * gain
    BY <1>1, <1>4, RefillBound DEF Refill
  <1>6. lastRefillUs' \in 0..Horizon /\ winRefill' =< lastRefillUs'
    BY <1>1, <1>2, <1>3 DEF Refill, Larger
  <1>7. SetBackNeverMints'
    <2>1. RatePerSecond * (lastRefillUs' - winRefill) =
              RatePerSecond * (lastRefillUs - winRefill) + RatePerSecond * gain
      <3>1. lastRefillUs' - winRefill = (lastRefillUs - winRefill) + gain
        BY <1>2, <1>3
      <3>2. QED
        BY <1>2, <1>3, <3>1, ProductSum
    <2>2. /\ RatePerSecond * (lastRefillUs - winRefill) \in Int
          /\ RatePerSecond * gain \in Int
      BY <1>2, <1>3, ProductSum
    <2>3. winIssued * OneRequest + tokensMicro =<
              Capacity + RatePerSecond * (lastRefillUs - winRefill)
      BY <1>1 DEF SetBackNeverMints
    <2>4. QED
      BY <1>2, <1>4, <1>5, <2>1, <2>2, <2>3 DEF SetBackNeverMints
  <1>8. WindowBalance'
    <2> SUFFICES ASSUME ~winSetBack
                 PROVE  /\ now >= winStart /\ now >= lastRefillUs'
                        /\ lastRefillUs' < winStart => winIssued' = 0
                        /\ winIssued' * OneRequest + tokensMicro' =<
                             Capacity + RatePerSecond
                                          * (Larger(lastRefillUs', winStart) - winStart)
      BY DEF WindowBalance
    <2>1. /\ now >= winStart /\ now >= lastRefillUs
          /\ lastRefillUs < winStart => winIssued = 0
          /\ winIssued * OneRequest + tokensMicro =<
                Capacity + RatePerSecond * (Larger(lastRefillUs, winStart) - winStart)
      BY <1>1 DEF WindowBalance
    <2>2. lastRefillUs' = now /\ gain = now - lastRefillUs
      BY <1>2, <1>3, <2>1 DEF Larger
    <2>3. CASE lastRefillUs < winStart
      <3>1. winIssued * OneRequest = 0
        BY <2>1, <2>3
      <3>2. RatePerSecond * (now - winStart) >= 0
        BY <1>2, <2>1
      <3>3. Larger(now, winStart) - winStart = now - winStart
        BY <1>2, <2>1 DEF Larger
      <3>4. RatePerSecond * (now - winStart) \in Int
        BY <1>2, ProductSum
      <3>5. QED
        BY <1>2, <1>4, <1>5, <2>1, <2>2, <3>1, <3>2, <3>3, <3>4
    <2>4. CASE lastRefillUs >= winStart
      <3>1. /\ Larger(lastRefillUs, winStart) = lastRefillUs
            /\ Larger(now, winStart) = now
        BY <1>2, <2>1, <2>4 DEF Larger
      <3>2. RatePerSecond * (now - winStart) =
                RatePerSecond * (lastRefillUs - winStart) + RatePerSecond * gain
        <4> DEFINE past == lastRefillUs - winStart
        <4>1. past \in Int /\ now - winStart = past + gain
          BY <1>2, <2>2
        <4>2. RatePerSecond * (past + gain) = RatePerSecond * past + RatePerSecond * gain
          <5> HIDE DEF past, gain
          <5>1. QED
            BY <1>3, <4>1, ProductSum
        <4>3. QED
          BY <4>1, <4>2
      <3>3. /\ RatePerSecond * (lastRefillUs - winStart) \in Int
            /\ RatePerSecond * gain \in Int
        BY <1>2, <1>3, ProductSum
      <3>4. QED
        BY <1>2, <1>4, <1>5, <2>1, <2>2, <2>4, <3>1, <3>2, <3>3
    <2>5. QED
      BY <1>2, <2>3, <2>4
  <1>9. QED
    BY <1>5, <1>6, <1>7, <1>8

\* A check and a move of the clock, forward or back, keep the bucket's account.
LEMMA NextIInv == IInv /\ [Next]_vars => IInv'
  <1> SUFFICES ASSUME IInv, [Next]_vars PROVE IInv'
    OBVIOUS
  <1> USE FullRefillBound, LimiterAssumption
  <1>1. TypeOK /\ SetBackNeverMints /\ WindowBalance /\ winRefill =< lastRefillUs
    BY DEF IInv
  <1>2. /\ now \in 0..Horizon /\ lastRefillUs \in 0..Horizon
        /\ winIssued \in Nat /\ issued \in 0..MaxRequests
        /\ Refilled \in 0..Capacity
    BY <1>1, RefillBound DEF TypeOK
  <1>3. ASSUME RateLimited PROVE IInv'
    <2>1. Refill(0 * OneRequest) /\ 0 * OneRequest =< Refilled /\ winIssued' = winIssued + 0
      BY <1>2, <1>3 DEF RateLimited, winVars
    <2>2. RetryUs(Refilled) \in Nat
      BY <1>2, <1>3 DEF RateLimited, RetryUs
    <2>3. answer' \in [kind : Decision, at : 0..Horizon, retry : Nat]
      BY <1>2, <1>3, <2>2 DEF RateLimited, Answer, Decision
    <2>4. /\ tokensMicro' \in 0..Capacity /\ lastRefillUs' \in 0..Horizon
          /\ winRefill' =< lastRefillUs' /\ SetBackNeverMints' /\ WindowBalance'
      BY <1>3, <2>1, CheckBalance DEF RateLimited, winVars
    <2>5. QED
      BY <1>1, <1>3, <2>3, <2>4 DEF RateLimited, winVars, IInv, TypeOK
  <1>4. ASSUME BudgetExhausted PROVE IInv'
    <2>1. Refill(0 * OneRequest) /\ 0 * OneRequest =< Refilled /\ winIssued' = winIssued + 0
      BY <1>2, <1>4 DEF BudgetExhausted, winVars
    <2>2. answer' \in [kind : Decision, at : 0..Horizon, retry : Nat]
      BY <1>2, <1>4 DEF BudgetExhausted, Answer, Decision
    <2>3. /\ tokensMicro' \in 0..Capacity /\ lastRefillUs' \in 0..Horizon
          /\ winRefill' =< lastRefillUs' /\ SetBackNeverMints' /\ WindowBalance'
      BY <1>4, <2>1, CheckBalance DEF BudgetExhausted, winVars
    <2>4. QED
      BY <1>1, <1>4, <2>2, <2>3 DEF BudgetExhausted, winVars, IInv, TypeOK
  <1>5. ASSUME Allow PROVE IInv'
    <2>1. Refill(1 * OneRequest) /\ 1 * OneRequest =< Refilled /\ winIssued' = winIssued + 1
      BY <1>2, <1>5 DEF Allow
    <2>2. answer' \in [kind : Decision, at : 0..Horizon, retry : Nat]
      BY <1>2, <1>5 DEF Allow, Answer, Decision
    <2>3. /\ tokensMicro' \in 0..Capacity /\ lastRefillUs' \in 0..Horizon
          /\ winRefill' =< lastRefillUs' /\ SetBackNeverMints' /\ WindowBalance'
      BY <1>5, <2>1, CheckBalance DEF Allow
    <2>4. issued' \in 0..MaxRequests /\ winIssued' \in Nat
      BY <1>2, <1>5 DEF Allow
    <2>5. QED
      BY <1>1, <1>5, <2>2, <2>3, <2>4 DEF Allow, IInv, TypeOK
  <1>6. ASSUME ClockAdvance PROVE IInv'
    <2>1. TypeOK'
      BY <1>1, <1>2, <1>6 DEF ClockAdvance, bucketVars, winVars, TypeOK
    <2>2. WindowBalance'
      BY <1>1, <1>2, <1>6 DEF ClockAdvance, bucketVars, winVars, TypeOK, WindowBalance
    <2>3. QED
      BY <1>1, <1>6, <2>1, <2>2 DEF ClockAdvance, bucketVars, winVars, IInv, SetBackNeverMints
  <1>7. ASSUME ClockSetBack PROVE IInv'
    <2>1. TypeOK' /\ WindowBalance'
      BY <1>1, <1>2, <1>7 DEF ClockSetBack, bucketVars, TypeOK, WindowBalance
    <2>2. QED
      BY <1>1, <1>7, <2>1 DEF ClockSetBack, bucketVars, IInv, SetBackNeverMints
  <1>8. ASSUME Observe PROVE IInv'
    <2>1. TypeOK'
      BY <1>1, <1>2, <1>8 DEF Observe, bucketVars, TypeOK
    <2>2. /\ winIssued' * OneRequest = 0
          /\ RatePerSecond * (lastRefillUs' - winRefill') = 0
          /\ tokensMicro' =< Capacity
      BY <1>1, <1>2, <1>8 DEF Observe, bucketVars, TypeOK
    <2>3. tokensMicro' \in Nat
      BY <2>1 DEF TypeOK
    <2>4. SetBackNeverMints'
      BY <2>2, <2>3 DEF SetBackNeverMints
    <2>5. WindowBalance'
      <3> SUFFICES ASSUME ~winSetBack'
                   PROVE  /\ now' >= winStart' /\ now' >= lastRefillUs'
                          /\ winIssued' = 0
                          /\ RatePerSecond * (Larger(lastRefillUs', winStart') - winStart') = 0
        BY <2>2, <2>3 DEF WindowBalance
      <3>1. /\ now' = now /\ winStart' = now /\ winIssued' = 0
            /\ lastRefillUs' = lastRefillUs /\ ~(now < lastRefillUs)
        BY <1>8 DEF Observe, bucketVars
      <3>2. Larger(lastRefillUs', winStart') - winStart' = 0
        BY <1>2, <3>1 DEF Larger
      <3>3. QED
        BY <1>2, <3>1, <3>2
    <2>6. QED
      BY <1>2, <1>8, <2>1, <2>4, <2>5 DEF Observe, bucketVars, IInv
  <1>9. CASE UNCHANGED vars
    BY <1>1, <1>9 DEF vars, bucketVars, winVars, IInv, TypeOK, SetBackNeverMints, WindowBalance
  <1>10. QED
    BY <1>3, <1>4, <1>5, <1>6, <1>7, <1>8, <1>9 DEF Next, Check

----------------------------------------------------------------------------
\* The balances give the guarantees in the words of Limiter.java.
LEMMA IInvImplies == IInv => PeakPerSecond /\ SustainedRate /\ SumFits
  <1> SUFFICES ASSUME IInv PROVE PeakPerSecond /\ SustainedRate /\ SumFits
    OBVIOUS
  <1> USE FullRefillBound, LimiterAssumption
  <1>1. TypeOK /\ WindowBalance
    BY DEF IInv
  <1> DEFINE span == Larger(lastRefillUs, winStart) - winStart
  <1>2. /\ now \in Int /\ span \in Nat /\ RatePerSecond * span \in Nat
        /\ winStart \in Int /\ lastRefillUs \in Int
        /\ winIssued * OneRequest \in Nat /\ tokensMicro \in Nat
    BY <1>1 DEF TypeOK, Larger
  <1>3. SustainedRate
    BY <1>1, <1>2 DEF SustainedRate, WindowBalance
  <1>4. PeakPerSecond
    <2> SUFFICES ASSUME ~winSetBack, now - winStart =< OneRequest
                 PROVE  winIssued =< Larger(Burst, 1) + RatePerSecond
      BY DEF PeakPerSecond
    <2>1. span =< OneRequest
      BY <1>1, <1>2 DEF WindowBalance, Larger
    <2>2. RatePerSecond * span =< RatePerSecond * OneRequest
      BY <1>2, <2>1, ProductMonotone
    <2>3. winIssued * OneRequest =< Capacity + RatePerSecond * OneRequest
      BY <1>2, <1>3, <2>2 DEF SustainedRate
    <2> DEFINE peak == Larger(Burst, 1) + RatePerSecond
    <2>4. /\ peak \in Nat
          /\ peak * OneRequest = Capacity + RatePerSecond * OneRequest
      BY DEF Capacity, Larger
    <2>5. SUFFICES ASSUME winIssued >= peak + 1 PROVE FALSE
      BY <1>1, <2>4 DEF TypeOK
    <2>6. OneRequest * (peak + 1) =< OneRequest * winIssued
      BY <1>1, <2>4, <2>5, ProductMonotone DEF TypeOK
    <2>7. /\ OneRequest * (peak + 1) = peak * OneRequest + OneRequest
          /\ OneRequest * winIssued = winIssued * OneRequest
      <3> HIDE DEF peak
      <3>1. QED
        BY <1>1, <2>4 DEF TypeOK
    <2>8. peak * OneRequest \in Int
      BY <2>4
    <2>9. QED
      BY <1>2, <2>3, <2>4, <2>6, <2>7, <2>8
  <1>5. QED
    BY <1>1, <1>3, <1>4, RefillBound DEF SumFits

\* The bucket's account stands in every reachable state.
LEMMA IInvAlways == Spec => []IInv
  BY InitIInv, NextIInv, PTL DEF Spec

\* The bucket's types: in particular 0 <= tokensMicro <= capacity and
\* 0 <= issued <= maxRequests, whatever order checks and clock moves come in.
THEOREM TypeCorrect == Spec => []TypeOK
  BY IInvAlways, PTL DEF IInv

\* In any one second at most burst + ratePerSecond requests are allowed.
THEOREM PeakHolds == Spec => []PeakPerSecond
  BY IInvAlways, IInvImplies, PTL

\* Over any window, one bucketful and the refill of the time it spans.
THEOREM SustainedHolds == Spec => []SustainedRate
  BY IInvAlways, IInvImplies, PTL

\* Setting the clock back, however often, never credits an instant twice.
THEOREM SetBackHolds == Spec => []SetBackNeverMints
  BY IInvAlways, PTL DEF IInv

\* The refill arithmetic stays within two bucketfuls and one second's rate.
THEOREM SumHolds == Spec => []SumFits
  BY IInvAlways, IInvImplies, PTL
----------------------------------------------------------------------------
\* A refused check spends nothing, so the shortfall it measured still stands.
RetryStands ==
    answer.kind = "rate_limited" =>
        /\ tokensMicro < OneRequest
        /\ answer.retry = RetryUs(tokensMicro)

\* RetryUs rounds up: it is the least number of ticks that refills the
\* shortfall, and no more than a full refill.
LEMMA RetryRoundsUp ==
    ASSUME NEW t \in Nat, t < OneRequest
    PROVE  /\ RetryUs(t) \in Nat \ {0}
           /\ RatePerSecond * RetryUs(t) >= OneRequest - t
           /\ RatePerSecond * (RetryUs(t) - 1) < OneRequest - t
           /\ RetryUs(t) =< FullRefill
  <1> USE FullRefillBound, LimiterAssumption
  <1> DEFINE short == OneRequest - t
             q == (short + RatePerSecond - 1) \div RatePerSecond
  <1>1. short \in Nat \ {0} /\ short =< Capacity
    OBVIOUS
  <1>2. /\ q \in Nat
        /\ RatePerSecond * q =< short + RatePerSecond - 1
        /\ short + RatePerSecond - 1 < RatePerSecond * q + RatePerSecond
    BY <1>1
  <1>3. RatePerSecond * (q - 1) = RatePerSecond * q - RatePerSecond
    BY <1>2
  <1>4. RatePerSecond * q >= short /\ RatePerSecond * (q - 1) < short
    BY <1>1, <1>2, <1>3
  <1>5. q # 0
    BY <1>1, <1>4
  <1>6. q =< FullRefill
    <2>1. SUFFICES ASSUME FullRefill =< q - 1 PROVE FALSE
      BY <1>2
    <2>2. RatePerSecond * FullRefill =< RatePerSecond * (q - 1)
      BY <1>2, <2>1, ProductMonotone
    <2>3. RatePerSecond * FullRefill \in Int /\ RatePerSecond * (q - 1) \in Int
      BY <1>2
    <2>4. QED
      BY <1>1, <1>4, <2>2, <2>3
  <1>7. RetryUs(t) = q
    BY DEF RetryUs
  <1>8. QED
    BY <1>2, <1>4, <1>5, <1>6, <1>7

\* What the last refusal promised stands until the next check.
LEMMA RetryStandsAlways == Spec => []RetryStands
  <1>1. Init => RetryStands
    BY DEF Init, RetryStands
  <1>2. TypeOK /\ RetryStands /\ [Next]_vars => RetryStands'
    <2> SUFFICES ASSUME TypeOK, RetryStands, [Next]_vars PROVE RetryStands'
      OBVIOUS
    <2>1. ASSUME RateLimited PROVE RetryStands'
      <3>1. tokensMicro' = Refilled /\ Refilled < OneRequest
        BY <2>1, RefillBound DEF RateLimited, Refill
      <3>2. answer' = [kind |-> "rate_limited", at |-> now, retry |-> RetryUs(Refilled)]
        BY <2>1 DEF RateLimited, Answer
      <3>3. QED
        BY <3>1, <3>2 DEF RetryStands
    <2>2. ASSUME BudgetExhausted \/ Allow PROVE RetryStands'
      BY <2>2 DEF BudgetExhausted, Allow, Answer, RetryStands
    <2>3. ASSUME ClockAdvance \/ ClockSetBack \/ Observe \/ UNCHANGED vars PROVE RetryStands'
      BY <2>3 DEF ClockAdvance, ClockSetBack, Observe, vars, bucketVars, RetryStands
    <2>4. QED
      BY <2>1, <2>2, <2>3 DEF Next, Check
  <1>3. QED
    BY <1>1, <1>2, TypeCorrect, PTL DEF Spec

\* One check after a refusal: refused again exactly when it came early.
LEMMA RetryStep ==
    ASSUME TypeOK, RetryStands,
           answer.kind = "rate_limited", answer.at = lastRefillUs
    PROVE  Refilled < OneRequest <=> now < answer.at + answer.retry
  <1> USE FullRefillBound, LimiterAssumption
  <1> DEFINE r == answer.retry
  <1>1. /\ now \in Int /\ lastRefillUs \in Int
        /\ tokensMicro \in Nat /\ tokensMicro < OneRequest
    BY DEF TypeOK, RetryStands
  <1>2. /\ r \in Nat \ {0}
        /\ RatePerSecond * r >= OneRequest - tokensMicro
        /\ RatePerSecond * (r - 1) < OneRequest - tokensMicro
        /\ r =< FullRefill
    BY <1>1, RetryRoundsUp DEF RetryStands
  <1>3. /\ Elapsed \in Nat
        /\ RatePerSecond * Elapsed \in Nat
        /\ Sum = tokensMicro + RatePerSecond * Elapsed
    BY <1>1, RefillBound DEF Sum
  <1>4. /\ RatePerSecond * r \in Int
        /\ RatePerSecond * (r - 1) \in Int
    BY <1>2
  <1>5. CASE now < lastRefillUs + r
    <2>1. Elapsed =< r - 1
      BY <1>1, <1>2, <1>5 DEF Elapsed, Smaller, Larger
    <2>2. RatePerSecond * Elapsed =< RatePerSecond * (r - 1)
      BY <1>2, <1>3, <2>1, ProductMonotone
    <2>3. Sum < OneRequest
      BY <1>1, <1>2, <1>3, <1>4, <2>2
    <2>4. QED
      BY <1>1, <1>3, <1>5, <2>3 DEF Refilled, Smaller
  <1>6. CASE now >= lastRefillUs + r
    <2>1. Elapsed >= r
      BY <1>1, <1>2, <1>6 DEF Elapsed, Smaller, Larger
    <2>2. RatePerSecond * r =< RatePerSecond * Elapsed
      BY <1>2, <1>3, <2>1, ProductMonotone
    <2>3. Sum >= OneRequest
      BY <1>1, <1>2, <1>3, <1>4, <2>2
    <2>4. QED
      BY <1>1, <1>2, <1>3, <1>6, <2>3 DEF Refilled, Smaller
  <1>7. QED
    BY <1>1, <1>2, <1>5, <1>6

\* The retry-after is exact, for every rate and bucket: see RetryIsExact.
THEOREM RetryHolds == Spec => RetryIsExact
  <1>1. TypeOK /\ RetryStands /\ [Next]_vars =>
          [ answer.kind = "rate_limited" /\ answer.at = lastRefillUs /\ Check =>
              (answer'.kind = "rate_limited" <=> now < answer.at + answer.retry) ]_vars
    <2> SUFFICES ASSUME TypeOK, RetryStands,
                        answer.kind = "rate_limited", answer.at = lastRefillUs, Check
                 PROVE  answer'.kind = "rate_limited" <=> now < answer.at + answer.retry
      OBVIOUS
    <2>1. answer'.kind = "rate_limited" <=> Refilled < OneRequest
      <3>1. Refilled \in Int /\ OneRequest \in Int
        BY RefillBound, FullRefillBound, LimiterAssumption
      <3>2. QED
        BY <3>1 DEF Check, RateLimited, BudgetExhausted, Allow, Answer
    <2>2. QED
      BY <2>1, RetryStep
  <1>2. QED
    BY <1>1, TypeCorrect, RetryStandsAlways, PTL DEF Spec, RetryIsExact

-----------------------------------------------------------------------------
(* The monitor.                                                             *)

\* What is kept of a host, against its history.

\* The window's samples are reports of the host in their order, none of them
\* expired: all the recent ones, and with one every later one not expired.
KeptFrom(window, seq, f) ==
    /\ f \in [DOMAIN window -> DOMAIN seq]
    /\ \A k, l \in DOMAIN window : k < l => f[k] < f[l]
    /\ \A k \in DOMAIN window : window[k] = seq[f[k]] /\ f[k] \in Unexpired(seq)
    /\ \A i \in Recent(seq) : \E k \in DOMAIN window : f[k] = i
    /\ \A k \in DOMAIN window, j \in Unexpired(seq) :
          f[k] < j => \E l \in DOMAIN window : f[l] = j

\* The window has its bound, and is what some choice of reports keeps.
WindowInv(window, seq) ==
    Len(window) =< Window /\ \E f : KeptFrom(window, seq, f)

\* Distinct places between two indices are no more than the indices.
LEMMA Crowd ==
    ASSUME NEW k \in Int, NEW l \in Int, NEW i \in Int, NEW n \in Int,
           NEW f \in [k..l -> i..n], \A a, b \in k..l : a < b => f[a] # f[b], k =< l
    PROVE  l - k =< n - i
  <1>1. f \in Injection(k..l, i..n)
    <2>1. \A a, b \in k..l : f[a] = f[b] => a = b
      <3> SUFFICES ASSUME NEW a \in k..l, NEW b \in k..l, f[a] = f[b], a # b PROVE FALSE
        OBVIOUS
      <3>1. a < b \/ b < a
        OBVIOUS
      <3>2. QED
        BY <3>1
    <2>2. QED
      BY <2>1 DEF Injection, IsInjective
  <1>2. /\ IsFiniteSet(i..n)
        /\ Cardinality(i..n) = IF i > n THEN 0 ELSE n - i + 1
        /\ Cardinality(k..l) = l - k + 1
    BY FS_Interval
  <1>3. Cardinality(k..l) =< Cardinality(i..n)
    BY <1>1, <1>2, FS_Injection
  <1>4. QED
    BY <1>2, <1>3

\* The window stays so when a report is added and the old ones evicted.
LEMMA WindowStep ==
    ASSUME NEW window \in Seq(Sample), NEW seq \in Seq(Sample), NEW s \in Sample,
           WindowInv(window, seq)
    PROVE  LET kept == Evict(Append(window, s), s.at)
           IN  kept \in Seq(Sample) /\ WindowInv(kept, Append(seq, s))
  <1> USE DistressAssumption
  <1> DEFINE n == Len(seq)
             L == Len(window)
             w == Append(window, s)
             more == Append(seq, s)
             Y == Young(w, s.at)
             kept == Picked(w, Y)
  <1>0. /\ L \in Nat /\ n \in Nat /\ L =< Window /\ Window \in Nat
        /\ DOMAIN window = 1..L /\ DOMAIN seq = 1..n
    BY DEF WindowInv
  <1>1. PICK f : KeptFrom(window, seq, f)
    BY DEF WindowInv
  <1>2. /\ f \in [1..L -> 1..n]
        /\ \A k, l \in 1..L : k < l => f[k] < f[l]
        /\ \A k \in 1..L : window[k] = seq[f[k]] /\ f[k] \in Unexpired(seq)
        /\ \A i \in Recent(seq) : \E k \in 1..L : f[k] = i
        /\ \A k \in 1..L, j \in Unexpired(seq) :
              f[k] < j => \E l \in 1..L : f[l] = j
    BY <1>0, <1>1 DEF KeptFrom
  <1>3. /\ w \in Seq(Sample) /\ Len(w) = L + 1 /\ DOMAIN w = 1..(L + 1)
        /\ \A k \in 1..L : w[k] = window[k]
        /\ w[L + 1] = s
    OBVIOUS
  <1>4. /\ more \in Seq(Sample) /\ Len(more) = n + 1 /\ DOMAIN more = 1..(n + 1)
        /\ \A i \in 1..n : more[i] = seq[i]
        /\ more[n + 1] = s
    OBVIOUS
  <1>5. /\ Y \subseteq 1..(L + 1)
        /\ \A k \in 1..(L + 1) : k \in Y <=> k > L + 1 - Window /\ w[k].at >= s.at - WindowTicks
    BY <1>3 DEF Young
  <1>6. /\ kept \in Seq(Sample) /\ Len(kept) = Cardinality(Y) /\ Cardinality(Y) \in Nat
        /\ DOMAIN kept = 1..Cardinality(Y)
        /\ \A k \in 1..Cardinality(Y) : kept[k] = w[Nth(Y, k)]
        /\ \A k \in 1..Cardinality(Y) : Nth(Y, k) \in Y
        /\ \A k, l \in 1..Cardinality(Y) : k < l => Nth(Y, k) < Nth(Y, l)
        /\ \A i \in Y : \E k \in 1..Cardinality(Y) : Nth(Y, k) = i
    <2> HIDE DEF w, Y
    <2>1. Y \subseteq DOMAIN w
      BY <1>3, <1>5
    <2>2. QED
      BY <1>3, <2>1, PickedSeq
  <1>7. \A i \in 1..n : i \in Unexpired(seq) =>
              (i \in Unexpired(more) <=> s.at - more[i].at =< WindowTicks)
    <2> SUFFICES ASSUME NEW i \in 1..n, i \in Unexpired(seq)
                 PROVE  i \in Unexpired(more) <=> s.at - more[i].at =< WindowTicks
      OBVIOUS
    <2>1. \A j \in i..n : seq[j].at - seq[i].at =< WindowTicks /\ more[j] = seq[j]
      BY <1>4 DEF Unexpired
    <2>2. i..Len(more) = (i..n) \cup {n + 1} /\ i \in DOMAIN more /\ more[i] = seq[i]
      BY <1>4, <1>0
    <2> HIDE DEF more
    <2>3. QED
      BY <2>1, <2>2, <1>4 DEF Unexpired
  <1>8. \A i \in 1..n : i \in Unexpired(more) =>
              i \in Unexpired(seq) /\ s.at - more[i].at =< WindowTicks
    <2> SUFFICES ASSUME NEW i \in 1..n, i \in Unexpired(more)
                 PROVE  i \in Unexpired(seq) /\ s.at - more[i].at =< WindowTicks
      OBVIOUS
    <2>1. \A j \in i..(n + 1) : more[j].at - more[i].at =< WindowTicks
      BY <1>4 DEF Unexpired
    <2>2. \A j \in i..n : j \in i..(n + 1) /\ j \in 1..n
      BY <1>0
    <2>3. n + 1 \in i..(n + 1)
      BY <1>0
    <2> HIDE DEF more
    <2>4. s.at - more[i].at =< WindowTicks
      BY <2>1, <2>3, <1>4
    <2>5. \A j \in i..n : seq[j].at - seq[i].at =< WindowTicks
      BY <2>1, <2>2, <1>4
    <2>6. QED
      BY <2>4, <2>5, <1>0 DEF Unexpired
  <1>9. n + 1 \in Unexpired(more)
    <2>1. s.at \in Nat
      BY DEF Sample
    <2> HIDE DEF more
    <2>2. \A j \in (n + 1)..Len(more) : j = n + 1
      BY <1>4, <1>0
    <2>3. s.at - s.at =< WindowTicks
      BY <2>1
    <2>4. QED
      BY <1>4, <1>0, <2>2, <2>3 DEF Unexpired
  <1>n. s.at \in Nat /\ (\A i \in 1..(n + 1) : more[i].at \in Nat) /\ \A k \in 1..(L + 1) : w[k].at \in Nat
    <2>1. \A x \in Sample : x.at \in Nat
      BY DEF Sample
    <2> HIDE DEF w, more
    <2>2. QED
      BY <2>1, <1>3, <1>4
  <1> DEFINE F == [k \in 1..(L + 1) |-> IF k =< L THEN f[k] ELSE n + 1]
  <1>10. /\ F \in [1..(L + 1) -> 1..(n + 1)]
         /\ \A k, l \in 1..(L + 1) : k < l => F[k] < F[l]
         /\ \A k \in 1..(L + 1) : w[k] = more[F[k]]
         /\ \A k \in 1..L : F[k] = f[k] /\ F[k] \in 1..n
         /\ F[L + 1] = n + 1
    <2>1. /\ \A k \in 1..L : F[k] = f[k] /\ F[k] \in 1..n /\ k \in 1..(L + 1)
          /\ F[L + 1] = n + 1
      <3>1. L + 1 \in 1..(L + 1) /\ ~(L + 1 =< L)
        BY <1>0
      <3>2. \A k \in 1..L : k \in 1..(L + 1) /\ k =< L /\ f[k] \in 1..n
        BY <1>0, <1>2
      <3>3. QED
        BY <3>1, <3>2
    <2>2. \A k \in 1..(L + 1) : k \in 1..L \/ k = L + 1
      BY <1>0
    <2>3. F \in [1..(L + 1) -> 1..(n + 1)]
      BY <1>0, <1>2
    <2> HIDE DEF F, w, more
    <2>4. ASSUME NEW k \in 1..(L + 1), NEW l \in 1..(L + 1), k < l PROVE F[k] < F[l]
      <3>1. k \in 1..L
        BY <2>4, <1>0
      <3>2. CASE l \in 1..L
        BY <3>1, <3>2, <2>1, <2>4, <1>2
      <3>3. CASE l = L + 1
        <4>1. F[k] \in 1..n /\ F[l] = n + 1
          BY <3>1, <3>3, <2>1
        <4>2. QED
          BY <4>1, <1>0
      <3>4. QED
        BY <3>2, <3>3, <2>2
    <2>5. \A k \in 1..(L + 1) : w[k] = more[F[k]]
      BY <2>1, <2>2, <1>2, <1>3, <1>4
    <2>6. QED
      BY <2>1, <2>3, <2>4, <2>5
  <1> DEFINE g == [k \in 1..Cardinality(Y) |-> F[Nth(Y, k)]]
  <1> HIDE DEF Y, F, w, more, kept
  <1>11. \A k \in Y : F[k] \in Unexpired(more)
    <2> SUFFICES ASSUME NEW k \in Y PROVE F[k] \in Unexpired(more)
      OBVIOUS
    <2>1. k \in 1..(L + 1) /\ w[k].at >= s.at - WindowTicks
      BY <1>5
    <2>2. CASE k = L + 1
      BY <2>2, <1>9, <1>10
    <2>3. CASE k # L + 1
      <3>1. k \in 1..L
        BY <2>1, <2>3, <1>0
      <3>2. F[k] \in 1..n /\ F[k] \in Unexpired(seq) /\ more[F[k]] = w[k]
        BY <3>1, <2>1, <1>2, <1>10
      <3>3. s.at - more[F[k]].at =< WindowTicks
        BY <3>2, <2>1, <1>n
      <3>4. QED
        BY <3>2, <3>3, <1>7
    <2>4. QED
      BY <2>2, <2>3
  <1>12. L + 1 \in Y
    <2>1. L + 1 > L + 1 - Window /\ s.at >= s.at - WindowTicks /\ L + 1 \in 1..(L + 1)
      BY <1>0, <1>n
    <2>2. QED
      BY <2>1, <1>3, <1>5
  <1>13. ASSUME NEW i \in Recent(more) PROVE \E k \in Y : F[k] = i
    <2>1. i \in Unexpired(more) /\ i \in 1..(n + 1) /\ i > n + 1 - Window
      BY <1>4 DEF Recent, Unexpired
    <2>2. CASE i = n + 1
      BY <2>2, <1>10, <1>12
    <2>3. CASE i # n + 1
      <3>1. i \in 1..n
        BY <2>1, <2>3, <1>0
      <3>2. i \in Unexpired(seq) /\ s.at - more[i].at =< WindowTicks
        BY <3>1, <2>1, <1>8
      <3>3. i \in Recent(seq)
        BY <3>1, <3>2, <2>1, <1>0 DEF Recent
      <3>4. PICK k \in 1..L : f[k] = i
        BY <3>3, <1>2
      <3>5. k \in 1..(L + 1) /\ F[k] = i /\ w[k] = more[i]
        BY <3>4, <1>10, <1>0
      <3>6. w[k].at >= s.at - WindowTicks
        BY SMTT(30), <3>5, <3>2, <1>n, <2>1
      <3>7. k > L + 1 - Window
        <4> SUFFICES ASSUME k =< L + 1 - Window PROVE FALSE
          BY <1>0
        <4> DEFINE e == [m \in k..L |-> f[m]]
        <4>1. \A m \in k..L : m \in 1..L /\ (m = k \/ k < m)
          BY <1>0
        <4>2. \A m \in k..L : f[m] \in i..n
          BY SMTT(30), <4>1, <1>2, <3>4, <1>0
        <4>3. e \in [k..L -> i..n]
          BY <4>2
        <4>4. \A a, b \in k..L : a < b => e[a] # e[b]
          <5> SUFFICES ASSUME NEW a \in k..L, NEW b \in k..L, a < b PROVE e[a] # e[b]
            OBVIOUS
          <5>1. a \in 1..L /\ b \in 1..L
            BY <4>1
          <5>2. f[a] < f[b] /\ f[a] \in 1..n /\ f[b] \in 1..n
            BY <5>1, <1>2
          <5>3. f[a] # f[b]
            BY <5>2, <1>0
          <5>4. QED
            BY <5>3
        <4>5. k =< L
          BY <3>4, <1>0
        <4> HIDE DEF e
        <4>6. L - k =< n - i
          <5>1. k \in Int /\ L \in Int /\ i \in Int /\ n \in Int
            BY <1>0, <3>1, <3>4
          <5>2. QED
            BY <5>1, <4>3, <4>4, <4>5, Crowd
        <4>7. QED
          BY <4>6, <2>1, <3>1, <1>0
      <3>8. k \in Y
        BY <3>5, <3>6, <3>7, <1>5
      <3>9. QED
        BY <3>5, <3>8
    <2>4. QED
      BY <2>2, <2>3
  <1>14. ASSUME NEW k \in Y, NEW j \in Unexpired(more), F[k] < j
         PROVE  \E l \in Y : F[l] = j
    <2>1. j \in 1..(n + 1) /\ k \in 1..(L + 1)
      BY <1>4, <1>5 DEF Unexpired
    <2>2. CASE j = n + 1
      BY <2>2, <1>10, <1>12
    <2>3. CASE j # n + 1
      <3>1. j \in 1..n
        BY <2>1, <2>3, <1>0
      <3>2. k \in 1..L
        <4>1. k # L + 1
          BY <3>1, <1>10, <1>14, <1>0
        <4>2. QED
          BY <4>1, <2>1, <1>0
      <3>3. j \in Unexpired(seq) /\ s.at - more[j].at =< WindowTicks
        BY <3>1, <1>8
      <3>4. PICK l \in 1..L : f[l] = j
        BY <3>2, <3>3, <1>2, <1>10, <1>14
      <3>5. l \in 1..(L + 1) /\ F[l] = j /\ w[l] = more[j]
        BY <3>4, <1>10, <1>0
      <3>6. k < l
        <4>1. ~(l < k) /\ l # k
          BY <3>5, <2>1, <1>10, <1>14
        <4>2. QED
          BY <4>1, <2>1, <3>4, <1>0
      <3>7. l > L + 1 - Window
        BY <3>6, <2>1, <3>4, <1>0, <1>5
      <3>8. w[l].at >= s.at - WindowTicks
        BY <3>3, <3>5, <1>n, <2>1
      <3>9. QED
        BY <3>5, <3>7, <3>8, <1>5
    <2>4. QED
      BY <2>2, <2>3
  <1>15. Len(kept) =< Window
    <2>1. Y \subseteq (L + 1 - Window + 1)..(L + 1)
      <3> SUFFICES ASSUME NEW k \in Y PROVE k \in (L + 1 - Window + 1)..(L + 1)
        OBVIOUS
      <3>1. k \in 1..(L + 1) /\ k > L + 1 - Window
        BY <1>5
      <3>2. QED
        BY <3>1, <1>0
    <2>2. /\ IsFiniteSet((L + 1 - Window + 1)..(L + 1))
          /\ Cardinality((L + 1 - Window + 1)..(L + 1)) =< Window
      <3>1. L + 1 - Window + 1 \in Int /\ L + 1 \in Int /\ ~(L + 1 - Window + 1 > L + 1)
        BY <1>0
      <3>2. /\ IsFiniteSet((L + 1 - Window + 1)..(L + 1))
            /\ Cardinality((L + 1 - Window + 1)..(L + 1))
                 = (L + 1) - (L + 1 - Window + 1) + 1
        BY <3>1, FS_Interval
      <3>3. QED
        BY <3>2, <1>0
    <2>3. Cardinality(Y) =< Cardinality((L + 1 - Window + 1)..(L + 1))
      BY <2>1, <2>2, FS_Subset
    <2>4. Cardinality((L + 1 - Window + 1)..(L + 1)) \in Nat
      BY <2>2, FS_CardinalityType
    <2>5. QED
      BY <2>2, <2>3, <2>4, <1>0, <1>6
  <1>16. KeptFrom(kept, more, g)
    <2>1. \A k \in DOMAIN kept : g[k] = F[Nth(Y, k)] /\ Nth(Y, k) \in Y /\ Nth(Y, k) \in 1..(L + 1)
      BY <1>5, <1>6
    <2>2. \A y \in Y : \E k \in DOMAIN kept : g[k] = F[y]
      BY <1>6, <2>1
    <2>3. g \in [DOMAIN kept -> DOMAIN more]
      BY <1>4, <1>6, <1>10, <2>1
    <2> HIDE DEF g
    <2>4. \A k, l \in DOMAIN kept : k < l => g[k] < g[l]
      BY SMTT(30), <2>1, <1>6, <1>10
    <2>5. ASSUME NEW k \in DOMAIN kept
          PROVE  kept[k] = more[g[k]] /\ g[k] \in Unexpired(more)
      <3>1. kept[k] = w[Nth(Y, k)] /\ Nth(Y, k) \in Y /\ g[k] = F[Nth(Y, k)]
        BY <2>1, <1>6
      <3>2. w[Nth(Y, k)] = more[F[Nth(Y, k)]]
        BY <2>1, <1>10
      <3>3. QED
        BY <3>1, <3>2, <1>11
    <2>6. \A i \in Recent(more) : \E k \in DOMAIN kept : g[k] = i
      BY <1>13, <2>2
    <2>7. ASSUME NEW k \in DOMAIN kept, NEW j \in Unexpired(more), g[k] < j
          PROVE  \E l \in DOMAIN kept : g[l] = j
      BY <1>14, <2>1, <2>2, <2>7
    <2>8. QED
      BY <2>3, <2>4, <2>5, <2>6, <2>7 DEF KeptFrom
  <1>17. WindowInv(kept, more)
    BY <1>15, <1>16 DEF WindowInv
  <1>18. Evict(w, s.at) = kept
    BY DEF Evict, kept, Y
  <1>19. QED
    BY <1>6, <1>17, <1>18 DEF w, more

\* A one-to-one image has as many elements.
LEMMA SameCount ==
    ASSUME NEW A, NEW B, IsFiniteSet(A), NEW f \in [A -> B],
           \A a, b \in A : f[a] = f[b] => a = b,
           \A b \in B : \E a \in A : f[a] = b
    PROVE  IsFiniteSet(B) /\ Cardinality(B) = Cardinality(A)
  <1>1. f \in Bijection(A, B)
    BY DEF Bijection, Injection, Surjection, IsInjective
  <1>2. ExistsBijection(A, B)
    BY <1>1 DEF ExistsBijection
  <1>3. QED
    BY <1>2, FS_Bijection

\* The reports of the history that stand in the window.
Held(window, f) == {f[k] : k \in DOMAIN window}

\* What is held is recent, or the clock had run ahead when it was stamped.
LEMMA HeldIsJudged ==
    ASSUME NEW window \in Seq(Sample), NEW seq \in Seq(Sample), NEW f,
           KeptFrom(window, seq, f), Len(window) =< Window
    PROVE  /\ Recent(seq) \subseteq Held(window, f)
           /\ Held(window, f) \subseteq Recent(seq) \cup Ahead(seq)
           /\ Held(window, f) \subseteq DOMAIN seq
           /\ IsFiniteSet(Held(window, f)) /\ Cardinality(Held(window, f)) = Len(window)
  <1> DEFINE n == Len(seq)
             L == Len(window)
             H == Held(window, f)
  <1>0. /\ L \in Nat /\ n \in Nat /\ L =< Window /\ Window \in Nat
        /\ DOMAIN window = 1..L /\ DOMAIN seq = 1..n
    BY DistressAssumption
  <1>2. /\ f \in [1..L -> 1..n]
        /\ \A k, l \in 1..L : k < l => f[k] < f[l]
        /\ \A k \in 1..L : window[k] = seq[f[k]] /\ f[k] \in Unexpired(seq)
        /\ \A i \in Recent(seq) : \E k \in 1..L : f[k] = i
        /\ \A k \in 1..L, j \in Unexpired(seq) :
              f[k] < j => \E l \in 1..L : f[l] = j
    BY <1>0 DEF KeptFrom
  <1>3. H = {f[k] : k \in 1..L}
    BY <1>0 DEF Held
  <1> HIDE DEF H
  <1>4. IsFiniteSet(H) /\ Cardinality(H) = L
    <2>1. \A a, b \in 1..L : f[a] = f[b] => a = b
      <3> SUFFICES ASSUME NEW a \in 1..L, NEW b \in 1..L, f[a] = f[b], a # b PROVE FALSE
        OBVIOUS
      <3>1. a < b \/ b < a
        BY <1>0
      <3>2. f[a] \in Int /\ f[b] \in Int
        BY <1>2, <1>0
      <3>3. QED
        BY <3>1, <3>2, <1>2
    <2>2. f \in [1..L -> H] /\ \A b \in H : \E a \in 1..L : f[a] = b
      BY <1>2, <1>3
    <2>3. IsFiniteSet(1..L) /\ Cardinality(1..L) = L
      <3>1. 1 \in Int /\ L \in Int
        BY <1>0
      <3>2. IsFiniteSet(1..L) /\ Cardinality(1..L) = IF 1 > L THEN 0 ELSE L - 1 + 1
        BY <3>1, FS_Interval
      <3>3. QED
        BY <3>2, <1>0
    <2>4. QED
      BY <2>1, <2>2, <2>3, SameCount
  <1>5. Recent(seq) \subseteq H /\ H \subseteq DOMAIN seq
    BY <1>0, <1>2, <1>3
  <1>6. ASSUME NEW i \in H, i \notin Recent(seq) PROVE i \in Ahead(seq)
    <2>1. PICK k \in 1..L : f[k] = i
      BY <1>3
    <2>2. i \in Unexpired(seq) /\ i \in 1..n
      BY <2>1, <1>2
    <2>3. i =< n - Window
      BY <2>2, <1>0, <1>6 DEF Recent
    <2>4. SUFFICES ASSUME \A j \in (i + 1)..n : ~(seq[j].at < seq[i].at) PROVE FALSE
      BY <2>2, <1>6 DEF Ahead
    <2>5. \A j \in 1..n : seq[j].at \in Nat
      <3>1. \A x \in Sample : x.at \in Nat
        BY DistressAssumption DEF Sample
      <3>2. QED
        BY <3>1, <1>0
    <2>6. ASSUME NEW j \in i..n PROVE j \in H
      <3>1. j \in 1..n /\ (j = i \/ (i < j /\ j \in (i + 1)..n))
        BY <2>2, <1>0
      <3>2. CASE j = i
        BY <3>2
      <3>3. CASE i < j /\ j \in (i + 1)..n
        <4>1. seq[j].at >= seq[i].at
          BY <3>1, <3>3, <2>2, <2>4, <2>5
        <4>2. \A m \in j..n : seq[m].at - seq[i].at =< WindowTicks /\ m \in 1..n
          <5>1. \A m \in j..n : m \in i..n /\ m \in 1..n
            BY <3>1, <3>3, <2>2, <1>0
          <5>2. QED
            BY <5>1, <2>2 DEF Unexpired
        <4>3. \A m \in j..n : seq[m].at - seq[j].at =< WindowTicks
          <5>1. WindowTicks \in Nat
            BY DistressAssumption
          <5>2. QED
            BY SMTT(30), <4>1, <4>2, <2>5, <2>2, <3>1, <5>1
        <4>4. j \in Unexpired(seq)
          BY <4>3, <3>1, <1>0 DEF Unexpired
        <4>5. PICK l \in 1..L : f[l] = j
          BY <4>4, <3>3, <2>1, <1>2
        <4>6. QED
          BY <4>5, <1>3
      <3>4. QED
        BY <3>1, <3>2, <3>3
    <2>7. i..n \in SUBSET H
      BY <2>6
    <2>8. Cardinality(i..n) =< L
      BY <2>7, <1>4, FS_Subset
    <2>9. Cardinality(i..n) = n - i + 1
      <3>1. i \in Int /\ n \in Int /\ ~(i > n)
        BY <2>2, <1>0
      <3>2. Cardinality(i..n) = IF i > n THEN 0 ELSE n - i + 1
        BY <3>1, FS_Interval
      <3>3. QED
        BY <3>1, <3>2
    <2>10. QED
      BY <2>3, <2>8, <2>9, <2>2, <1>0
  <1>7. QED
    BY <1>4, <1>5, <1>6 DEF H

\* The places of a window, and the reports held, that are of a kind.
Alike(window, P) == {k \in DOMAIN window : window[k] \in P}
HeldAlike(window, seq, f, P) == {i \in Held(window, f) : seq[i] \in P}

\* The window has of any kind of sample as many as are held of that kind.
LEMMA HeldCount ==
    ASSUME NEW window \in Seq(Sample), NEW seq \in Seq(Sample), NEW f,
           KeptFrom(window, seq, f), NEW P
    PROVE  /\ IsFiniteSet(Alike(window, P)) /\ Cardinality(Alike(window, P)) \in Nat
           /\ IsFiniteSet(HeldAlike(window, seq, f, P))
           /\ Cardinality(Alike(window, P)) = Cardinality(HeldAlike(window, seq, f, P))
  <1> DEFINE K == Alike(window, P)
             I == HeldAlike(window, seq, f, P)
             e == [k \in K |-> f[k]]
  <1>1. /\ f \in [DOMAIN window -> DOMAIN seq]
        /\ \A k, l \in DOMAIN window : k < l => f[k] < f[l]
        /\ \A k \in DOMAIN window : window[k] = seq[f[k]]
        /\ DOMAIN window = 1..Len(window) /\ Len(window) \in Nat
        /\ DOMAIN seq = 1..Len(seq) /\ Len(seq) \in Nat
    BY DEF KeptFrom
  <1>2. IsFiniteSet(DOMAIN window)
    BY <1>1, LengthFinite
  <1>3. IsFiniteSet(K) /\ Cardinality(K) \in Nat
    <2>1. K \in SUBSET DOMAIN window
      BY DEF Alike
    <2> HIDE DEF K
    <2>2. QED
      BY <1>2, <2>1, FS_Subset, FS_CardinalityType
  <1>4. e \in [K -> I]
    BY <1>1 DEF Held, Alike, HeldAlike
  <1>5. ASSUME NEW a \in K, NEW b \in K, e[a] = e[b] PROVE a = b
    <2>1. a \in Int /\ b \in Int /\ a \in DOMAIN window /\ b \in DOMAIN window
      BY <1>1 DEF Alike
    <2>2. f[a] = f[b] /\ f[a] \in Int
      BY <1>5, <2>1, <1>1
    <2>3. ~(a < b) /\ ~(b < a)
      BY <2>1, <2>2, <1>1
    <2>4. QED
      BY <2>1, <2>3
  <1>6. ASSUME NEW b \in I PROVE \E a \in K : e[a] = b
    <2>1. PICK k \in DOMAIN window : f[k] = b
      BY DEF Held, HeldAlike
    <2>2. window[k] \in P
      BY <2>1, <1>1 DEF HeldAlike
    <2>3. k \in K
      BY <2>2 DEF Alike
    <2>4. QED
      BY <2>1, <2>3
  <1> HIDE DEF e, K, I
  <1>7. IsFiniteSet(I) /\ Cardinality(I) = Cardinality(K)
    BY <1>3, <1>4, <1>5, <1>6, SameCount
  <1>8. QED
    BY <1>3, <1>7 DEF K, I

----------------------------------------------------------------------------
\* The median.

\* The naturals of a finite family have a greatest.
LEMMA Highest ==
    ASSUME NEW D, IsFiniteSet(D), D # {}, NEW xs \in [D -> Nat]
    PROVE  \E i \in D : \A j \in D : xs[j] =< xs[i]
  <1> DEFINE A(i) == {j \in D : xs[j] =< xs[i]}
             T == {Cardinality(A(i)) : i \in D}
  <1>1. \A i \in D : IsFiniteSet(A(i)) /\ Cardinality(A(i)) \in 0..Cardinality(D)
    <2> SUFFICES ASSUME NEW i \in D
                 PROVE  IsFiniteSet(A(i)) /\ Cardinality(A(i)) \in 0..Cardinality(D)
      OBVIOUS
    <2>1. A(i) \in SUBSET D
      OBVIOUS
    <2> HIDE DEF A
    <2>2. IsFiniteSet(A(i)) /\ Cardinality(A(i)) =< Cardinality(D) /\ Cardinality(D) \in Nat
      BY <2>1, FS_Subset, FS_CardinalityType
    <2>3. Cardinality(A(i)) \in Nat
      BY <2>2, FS_CardinalityType
    <2>4. QED
      BY <2>2, <2>3
  <1>2. Cardinality(D) \in Nat
    BY FS_CardinalityType
  <1>3. T \subseteq 0..Cardinality(D) /\ T # {}
    BY <1>1
  <1>4. PICK t \in T : \A u \in T : u =< t
    <2> HIDE DEF T
    <2> QED
      BY <1>2, <1>3, GreatestNat
  <1>5. PICK i \in D : t = Cardinality(A(i))
    OBVIOUS
  <1>6. ASSUME NEW j \in D, ~(xs[j] =< xs[i]) PROVE FALSE
    <2>1. A(i) \in SUBSET A(j) /\ j \in A(j) /\ j \notin A(i)
      BY <1>6
    <2>2. Cardinality(A(j)) =< Cardinality(A(i))
      BY <1>4, <1>5
    <2> HIDE DEF A
    <2>3. /\ Cardinality(A(i)) =< Cardinality(A(j))
          /\ Cardinality(A(i)) # Cardinality(A(j))
      <3>1. A(i) # A(j) /\ IsFiniteSet(A(j))
        BY <2>1, <1>1
      <3>2. QED
        BY <2>1, <3>1, FS_Subset
    <2>4. QED
      BY <2>2, <2>3, <1>1, <1>2
  <1>7. QED
    BY <1>6

\* It is one of the values, and no more than half of them are above it.
LEMMA P50Is ==
    ASSUME NEW D, IsFiniteSet(D), D # {}, NEW xs \in [D -> Nat]
    PROVE  /\ \E i \in D : P50(xs) = xs[i]
           /\ 2 * Cardinality({i \in D : xs[i] > P50(xs)}) =< Cardinality(D)
  <1> DEFINE AM(x) == {i \in D : xs[i] =< x}
             BL(x) == {i \in D : xs[i] < x}
             N == Cardinality(D)
             mid == (N - 1) \div 2
             V == {xs[i] : i \in D}
             T == {x \in V : mid < Cardinality(AM(x))}
  <1>1. N \in Nat /\ N # 0
    BY FS_CardinalityType, FS_EmptySet
  <1>2. mid \in Nat /\ mid < N /\ N =< 2 * mid + 2
    BY <1>1
  <1>3. \A x : IsFiniteSet(AM(x)) /\ Cardinality(AM(x)) \in Nat
    <2> TAKE x
    <2>1. AM(x) \in SUBSET D
      OBVIOUS
    <2> HIDE DEF AM
    <2>2. QED
      BY <2>1, FS_Subset, FS_CardinalityType
  <1>4. \A x : IsFiniteSet(BL(x)) /\ Cardinality(BL(x)) \in Nat
    <2> TAKE x
    <2>1. BL(x) \in SUBSET D
      OBVIOUS
    <2> HIDE DEF BL
    <2>2. QED
      BY <2>1, FS_Subset, FS_CardinalityType
  <1>5. \E x \in V : Cardinality(BL(x)) =< mid /\ mid < Cardinality(AM(x))
    <2>1. T # {}
      <3>1. PICK i \in D : \A j \in D : xs[j] =< xs[i]
        BY Highest
      <3>2. AM(xs[i]) = D
        BY <3>1
      <3>3. xs[i] \in T
        BY <3>2, <1>2
      <3>4. QED
        BY <3>3
    <2>2. T \subseteq Nat
      OBVIOUS
    <2>3. PICK x \in T : \A y \in T : x =< y
      <3> HIDE DEF T
      <3> QED
        BY <2>1, <2>2, LeastNat
    <2>4. ASSUME Cardinality(BL(x)) > mid PROVE FALSE
      <3>1. BL(x) # {}
        <4> HIDE DEF BL, mid
        <4>1. mid \in Nat /\ Cardinality({}) = 0
          BY <1>2, FS_EmptySet
        <4>2. QED
          BY <2>4, <4>1
      <3> DEFINE ys == [i \in BL(x) |-> xs[i]]
      <3>2. ys \in [BL(x) -> Nat]
        OBVIOUS
      <3>3. PICK i \in BL(x) : \A j \in BL(x) : ys[j] =< ys[i]
        <4> HIDE DEF BL, ys
        <4> QED
          BY <1>4, <3>1, <3>2, Highest
      <3>4. i \in D /\ xs[i] < x /\ \A j \in D : xs[j] < x => xs[j] =< xs[i]
        BY <3>3
      <3>5. x \in Nat
        BY <2>2
      <3>6. AM(xs[i]) = BL(x)
        <4>1. \A j \in D : xs[j] \in Nat /\ (xs[j] =< xs[i] <=> xs[j] < x)
          BY <3>4, <3>5
        <4>2. QED
          BY <4>1
      <3>7. xs[i] \in T
        BY <3>4, <3>6, <2>4
      <3>8. QED
        BY <3>7, <3>4, <3>5, <2>3
    <2>5. x \in V /\ mid < Cardinality(AM(x)) /\ Cardinality(BL(x)) =< mid
      <3>1. x \in V /\ mid < Cardinality(AM(x))
        OBVIOUS
      <3>2. Cardinality(BL(x)) \in Nat /\ mid \in Nat
        BY <1>2, <1>4
      <3> HIDE DEF BL, mid
      <3>3. QED
        BY <2>4, <3>1, <3>2
    <2>6. QED
      BY <2>5
  <1>6. P50(xs) = CHOOSE x \in V : Cardinality(BL(x)) =< mid /\ mid < Cardinality(AM(x))
    BY DEF P50
  <1> DEFINE p == P50(xs)
  <1>7. p \in V /\ mid < Cardinality(AM(p))
    <2> HIDE DEF V, BL, AM, mid
    <2> QED
      BY <1>5, <1>6
  <1>8. 2 * Cardinality({i \in D : xs[i] > p}) =< N
    <2> DEFINE U == {i \in D : xs[i] > p}
    <2>1. p \in Nat
      BY <1>7
    <2>2. U = D \ AM(p) /\ D \cap AM(p) = AM(p)
      BY <2>1
    <2>3. Cardinality(U) = N - Cardinality(AM(p))
      <3> HIDE DEF U, AM, p
      <3> QED
        BY ZenonT(60), <2>2, FS_Difference
    <2>4. Cardinality(AM(p)) \in Nat
      BY <1>3
    <2> HIDE DEF U, AM, p, mid
    <2>5. 2 * Cardinality(U) =< N
      BY <2>3, <2>4, <1>1, <1>2, <1>7
    <2>6. QED
      BY <2>5 DEF U
  <1>9. QED
    BY <1>7, <1>8

----------------------------------------------------------------------------
\* The streak and the baseline.

\* The count of the errors that the history ends with.
Streak(c, seq) ==
    /\ c \in 0..Len(seq)
    /\ \A i \in (Len(seq) - c + 1)..Len(seq) : ~Answered(seq[i])
    /\ c < Len(seq) => Answered(seq[Len(seq) - c])

\* The answers of a host, from its first report on.
AllAnswers(seq) == Answers(seq, DOMAIN seq)

\* The latencies a baseline is taken from are those of first answers, and as
\* many as there are, up to Baseline.
Learned(latencies, seq) ==
    /\ Len(latencies) =< Baseline
    /\ Len(latencies) =< Cardinality(AllAnswers(seq))
    /\ Len(latencies) < Baseline => Len(latencies) = Cardinality(AllAnswers(seq))
    /\ \A k \in DOMAIN latencies : \E i \in First(seq) : latencies[k] = seq[i].ms

\* What is kept of a host, against its history.
HostInv(h, seq) ==
    /\ h \in [window : Seq(Sample), firstLatencies : Seq(Nat), consecutiveErrors : Nat]
    /\ seq \in Seq(Sample)
    /\ WindowInv(h.window, seq)
    /\ Streak(h.consecutiveErrors, seq)
    /\ Learned(h.firstLatencies, seq)

\* No streak has been as long as the limit.
NoLongStreak(seq) ==
    \A e \in MaxErrors..Len(seq) : \E i \in (e - MaxErrors + 1)..e : Answered(seq[i])

\* What is in a sequence with one more at its end.
LEMMA AppendIs ==
    ASSUME NEW S, NEW seq \in Seq(S), NEW s \in S
    PROVE  /\ Len(seq) \in Nat /\ DOMAIN seq = 1..Len(seq)
           /\ Append(seq, s) \in Seq(S) /\ Len(Append(seq, s)) = Len(seq) + 1
           /\ DOMAIN Append(seq, s) = 1..(Len(seq) + 1)
           /\ DOMAIN Append(seq, s) = (DOMAIN seq) \cup {Len(seq) + 1}
           /\ \A i \in 1..Len(seq) : Append(seq, s)[i] = seq[i]
           /\ Append(seq, s)[Len(seq) + 1] = s
  OBVIOUS

\* An error adds to the streak, an answer ends it.
LEMMA StreakStep ==
    ASSUME NEW seq \in Seq(Sample), NEW s \in Sample, NEW c, Streak(c, seq)
    PROVE  Streak(IF Answered(s) THEN 0 ELSE c + 1, Append(seq, s))
  <1> DEFINE n == Len(seq)
             more == Append(seq, s)
  <1>1. /\ n \in Nat /\ Len(more) = n + 1
        /\ \A i \in 1..n : more[i] = seq[i]
        /\ more[n + 1] = s
    BY AppendIs
  <1>2. c \in 0..n
    BY DEF Streak
  <1> HIDE DEF more, n
  <1>3. CASE Answered(s)
    <2>1. Streak(0, more)
      <3>1. (n + 1 - 0 + 1)..(n + 1) = {} /\ n + 1 - 0 = n + 1
        BY <1>1
      <3>2. QED
        BY <3>1, <1>1, <1>3 DEF Streak
    <2>2. QED
      BY <2>1, <1>3 DEF more
  <1>4. CASE ~Answered(s)
    <2>1. \A i \in (n + 1 - (c + 1) + 1)..(n + 1) : i = n + 1 \/ (i \in (n - c + 1)..n /\ i \in 1..n)
      BY <1>1, <1>2
    <2>2. \A i \in (n + 1 - (c + 1) + 1)..(n + 1) : ~Answered(more[i])
      BY <2>1, <1>1, <1>4 DEF Streak, n
    <2>3. ASSUME c + 1 < n + 1 PROVE Answered(more[n + 1 - (c + 1)])
      <3>1. c < n /\ n + 1 - (c + 1) = n - c /\ n - c \in 1..n
        BY <2>3, <1>1, <1>2
      <3>2. QED
        BY <3>1, <1>1 DEF Streak, n
    <2>4. Streak(c + 1, more)
      BY <2>2, <2>3, <1>1, <1>2 DEF Streak
    <2>5. QED
      BY <2>4, <1>4 DEF more
  <1>5. QED
    BY <1>3, <1>4

\* While no streak reaches the limit, none has.
LEMMA LongStep ==
    ASSUME NEW seq \in Seq(Sample), NEW s \in Sample, NEW c, Streak(c, Append(seq, s)),
           c < MaxErrors, NoLongStreak(seq)
    PROVE  NoLongStreak(Append(seq, s))
  <1> DEFINE n == Len(seq)
             more == Append(seq, s)
  <1>1. /\ n \in Nat /\ Len(more) = n + 1 /\ MaxErrors \in Nat /\ MaxErrors # 0
        /\ \A i \in 1..n : more[i] = seq[i]
    BY AppendIs, DistressAssumption
  <1>2. c \in 0..(n + 1)
    BY <1>1 DEF Streak
  <1> HIDE DEF more, n
  <1>3. SUFFICES ASSUME NEW e \in MaxErrors..(n + 1)
                 PROVE  \E i \in (e - MaxErrors + 1)..e : Answered(more[i])
    BY <1>1 DEF NoLongStreak, more
  <1>4. CASE e = n + 1
    <2>1. c < n + 1 /\ n + 1 - c \in (e - MaxErrors + 1)..e
      BY <1>1, <1>2, <1>4
    <2>2. Answered(more[n + 1 - c])
      BY <2>1, <1>1 DEF Streak, more
    <2>3. QED
      BY <2>1, <2>2
  <1>5. CASE e # n + 1
    <2>1. e \in MaxErrors..n
      BY <1>1, <1>5
    <2>2. PICK i \in (e - MaxErrors + 1)..e : Answered(seq[i])
      BY <2>1 DEF NoLongStreak, n
    <2>3. i \in 1..n
      BY <2>1, <1>1
    <2>4. QED
      BY <2>2, <2>3, <1>1
  <1>6. QED
    BY <1>4, <1>5

\* The answers among some reports can be counted.
LEMMA AnswersFinite ==
    ASSUME NEW seq, NEW a \in Int, NEW b \in Int
    PROVE  IsFiniteSet(Answers(seq, a..b)) /\ Cardinality(Answers(seq, a..b)) \in Nat
  <1>1. IsFiniteSet(a..b)
    BY FS_Interval
  <1>2. Answers(seq, a..b) \in SUBSET (a..b)
    BY DEF Answers
  <1>3. QED
    BY <1>1, <1>2, FS_Subset, FS_CardinalityType

\* One more answer is a first one as long as there are fewer than Baseline.
LEMMA FirstStep ==
    ASSUME NEW seq \in Seq(Sample), NEW s \in Sample
    PROVE  LET n == Len(seq)
               more == Append(seq, s)
               count == Cardinality(AllAnswers(seq))
           IN  /\ count \in Nat
               /\ Cardinality(AllAnswers(more)) = IF Answered(s) THEN count + 1 ELSE count
               /\ First(seq) \subseteq First(more)
               /\ Answered(s) /\ count < Baseline => n + 1 \in First(more)
               /\ BaselineBefore(more) <=> count >= Baseline
  <1> DEFINE n == Len(seq)
             more == Append(seq, s)
             count == Cardinality(AllAnswers(seq))
  <1>1. /\ n \in Nat /\ Len(more) = n + 1 /\ DOMAIN seq = 1..n
        /\ DOMAIN more = (1..n) \cup {n + 1} /\ DOMAIN more = 1..(n + 1)
        /\ \A i \in 1..n : more[i] = seq[i]
        /\ more[n + 1] = s
    BY AppendIs
  <1> HIDE DEF more, n
  <1>2. IsFiniteSet(AllAnswers(seq)) /\ count \in Nat
    BY <1>1, AnswersFinite DEF AllAnswers
  <1>3. \A m \in 1..n : Answers(more, 1..m) = Answers(seq, 1..m)
    <2> SUFFICES ASSUME NEW m \in 1..n PROVE Answers(more, 1..m) = Answers(seq, 1..m)
      OBVIOUS
    <2>1. \A i \in 1..m : i \in 1..n
      BY <1>1
    <2>2. QED
      BY <2>1, <1>1 DEF Answers
  <1>4. Answers(more, 1..n) = AllAnswers(seq)
    BY <1>1 DEF Answers, AllAnswers
  <1>5. AllAnswers(more) = IF Answered(s) THEN AllAnswers(seq) \cup {n + 1} ELSE AllAnswers(seq)
    BY <1>1 DEF AllAnswers, Answers
  <1>6. n + 1 \notin AllAnswers(seq)
    BY <1>1 DEF AllAnswers, Answers
  <1>7. Cardinality(AllAnswers(more)) = IF Answered(s) THEN count + 1 ELSE count
    <2>1. Cardinality(AllAnswers(seq) \cup {n + 1}) = count + 1
      BY <1>2, <1>6, FS_AddElement
    <2>2. QED
      BY <2>1, <1>5
  <1>8. First(seq) \subseteq First(more)
    <2>1. \A i \in First(seq) : i \in 1..n /\ Answered(seq[i])
                                 /\ Cardinality(Answers(seq, 1..i)) =< Baseline
      BY <1>1 DEF First, Answers
    <2>2. QED
      BY <2>1, <1>1, <1>3 DEF First, Answers
  <1>9. ASSUME Answered(s), count < Baseline PROVE n + 1 \in First(more)
    <2>1. Answers(more, 1..(n + 1)) = AllAnswers(more)
      BY <1>1 DEF AllAnswers
    <2>2. Cardinality(Answers(more, 1..(n + 1))) =< Baseline
      BY <2>1, <1>7, <1>9, <1>2, DistressAssumption
    <2>3. n + 1 \in Answers(more, DOMAIN more)
      BY <1>1, <1>9 DEF Answers
    <2>4. QED
      BY <2>2, <2>3 DEF First
  <1>10. BaselineBefore(more) <=> count >= Baseline
    <2>1. Len(more) - 1 = n
      BY <1>1
    <2>2. QED
      BY <2>1, <1>4 DEF BaselineBefore
  <1>11. QED
    BY <1>2, <1>7, <1>8, <1>9, <1>10 DEF n, more

\* A first answer is learned, and the baseline is ready once it could be.
LEMMA LearnedStep ==
    ASSUME NEW seq \in Seq(Sample), NEW s \in Sample, NEW h,
           h.firstLatencies \in Seq(Nat), Learned(h.firstLatencies, seq)
    PROVE  LET latencies == IF Answered(s) /\ ~BaselineReady(h)
                              THEN Append(h.firstLatencies, s.ms) ELSE h.firstLatencies
           IN  /\ latencies \in Seq(Nat) /\ Learned(latencies, Append(seq, s))
               /\ BaselineReady(h) <=> BaselineBefore(Append(seq, s))
  <1> DEFINE n == Len(seq)
             more == Append(seq, s)
             count == Cardinality(AllAnswers(seq))
             fl == h.firstLatencies
  <1>1. /\ count \in Nat
        /\ Cardinality(AllAnswers(more)) = IF Answered(s) THEN count + 1 ELSE count
        /\ First(seq) \subseteq First(more)
        /\ Answered(s) /\ count < Baseline => n + 1 \in First(more)
        /\ BaselineBefore(more) <=> count >= Baseline
    BY FirstStep
  <1>2. /\ n \in Nat /\ DOMAIN seq = 1..n
        /\ \A i \in 1..n : more[i] = seq[i]
        /\ more[n + 1] = s
    BY AppendIs
  <1>3. /\ Len(fl) \in Nat /\ Baseline \in Nat /\ s.ms \in Nat
    BY DistressAssumption DEF Sample
  <1>4. \A k \in DOMAIN fl : \E i \in First(more) : fl[k] = more[i].ms
    <2> SUFFICES ASSUME NEW k \in DOMAIN fl PROVE \E i \in First(more) : fl[k] = more[i].ms
      OBVIOUS
    <2>1. PICK i \in First(seq) : fl[k] = seq[i].ms
      BY DEF Learned
    <2>2. i \in 1..n
      BY <1>2 DEF First, Answers
    <2> HIDE DEF more
    <2>3. QED
      BY <2>1, <2>2, <1>1, <1>2
  <1> HIDE DEF more, n
  <1>5. BaselineReady(h) <=> BaselineBefore(more)
    BY <1>1, <1>3 DEF BaselineReady, Learned
  <1>6. CASE Answered(s) /\ ~BaselineReady(h)
    <2>1. Len(fl) < Baseline /\ Len(fl) = count
      BY <1>6, <1>3 DEF BaselineReady, Learned
    <2>2. /\ Append(fl, s.ms) \in Seq(Nat) /\ Len(Append(fl, s.ms)) = Len(fl) + 1
          /\ DOMAIN Append(fl, s.ms) = DOMAIN fl \cup {Len(fl) + 1}
          /\ \A k \in DOMAIN fl : Append(fl, s.ms)[k] = fl[k]
          /\ Append(fl, s.ms)[Len(fl) + 1] = s.ms
      BY SMTT(30), <1>3, AppendIs
    <2>3. n + 1 \in First(more) /\ more[n + 1].ms = s.ms
      BY <2>1, <1>1, <1>2, <1>3, <1>6
    <2>4. Learned(Append(fl, s.ms), more)
      <3>1. \A k \in DOMAIN Append(fl, s.ms) :
               \E i \in First(more) : Append(fl, s.ms)[k] = more[i].ms
        BY <2>2, <2>3, <1>4
      <3>2. Len(Append(fl, s.ms)) =< Baseline
            /\ Len(Append(fl, s.ms)) = Cardinality(AllAnswers(more))
        BY <2>1, <2>2, <1>1, <1>3, <1>6
      <3>3. QED
        BY <3>1, <3>2, <1>1 DEF Learned
    <2>5. QED
      BY <2>2, <2>4, <1>5, <1>6 DEF more
  <1>7. CASE ~(Answered(s) /\ ~BaselineReady(h))
    <2>1. Learned(fl, more)
      <3>1. Len(fl) =< Baseline /\ Len(fl) =< count /\ (Len(fl) < Baseline => Len(fl) = count)
        BY DEF Learned
      <3>2. Len(fl) < Baseline => ~Answered(s)
        BY <1>7 DEF BaselineReady
      <3>3. QED
        BY <3>1, <3>2, <1>1, <1>3, <1>4 DEF Learned
    <2>2. QED
      BY <2>1, <1>5, <1>7 DEF more
  <1>8. QED
    BY <1>6, <1>7

\* What one report makes of what is kept is true of the history it extends.
LEMMA NotedStep ==
    ASSUME NEW h, NEW seq, NEW s \in Sample, HostInv(h, seq)
    PROVE  /\ HostInv(Noted(h, s), Append(seq, s))
           /\ BaselineReady(h) <=> BaselineBefore(Append(seq, s))
  <1> DEFINE more == Append(seq, s)
             after == Noted(h, s)
  <1>1. /\ h.window \in Seq(Sample) /\ h.firstLatencies \in Seq(Nat)
        /\ h.consecutiveErrors \in Nat /\ seq \in Seq(Sample)
        /\ WindowInv(h.window, seq) /\ Streak(h.consecutiveErrors, seq)
        /\ Learned(h.firstLatencies, seq)
    BY DEF HostInv
  <1>2. after = [window |-> after.window, firstLatencies |-> after.firstLatencies,
                 consecutiveErrors |-> after.consecutiveErrors]
    BY DEF Noted
  <1>3. after.window \in Seq(Sample) /\ WindowInv(after.window, more)
    <2>1. after.window = Evict(Append(h.window, s), s.at)
      BY DEF Noted
    <2> HIDE DEF after
    <2>2. QED
      BY <2>1, <1>1, WindowStep
  <1>4. after.consecutiveErrors \in Nat /\ Streak(after.consecutiveErrors, more)
    <2>1. after.consecutiveErrors = IF Answered(s) THEN 0 ELSE h.consecutiveErrors + 1
      BY DEF Noted
    <2> HIDE DEF after
    <2>2. QED
      BY <2>1, <1>1, StreakStep
  <1>5. /\ after.firstLatencies \in Seq(Nat) /\ Learned(after.firstLatencies, more)
        /\ BaselineReady(h) <=> BaselineBefore(more)
    <2>1. after.firstLatencies = IF Answered(s) /\ ~BaselineReady(h)
                              THEN Append(h.firstLatencies, s.ms) ELSE h.firstLatencies
      BY DEF Noted
    <2> HIDE DEF after
    <2>2. QED
      BY <2>1, <1>1, LearnedStep
  <1>6. more \in Seq(Sample)
    BY <1>1, AppendIs
  <1> HIDE DEF after
  <1>7. HostInv(after, more)
    BY <1>2, <1>3, <1>4, <1>5, <1>6 DEF HostInv
  <1>8. QED
    BY <1>5, <1>7 DEF after

----------------------------------------------------------------------------
\* What the rules decide from is what the history shows.

\* What of a window are answers, and their latencies (rules 2 and 3).
AnswersIn(window) == {k \in DOMAIN window : Answered(window[k])}
LatenciesIn(window) == [k \in AnswersIn(window) |-> window[k].ms]

\* A set of reports that the rules judge a host by.
Judges(H, h, seq) ==
    /\ Recent(seq) \subseteq H /\ H \subseteq Recent(seq) \cup Ahead(seq)
    /\ H \subseteq DOMAIN seq /\ IsFiniteSet(H) /\ Cardinality(H) =< Window
    /\ Cardinality(AnswersIn(h.window)) = Cardinality(Answers(seq, H))
    /\ Cardinality({k \in DOMAIN h.window : h.window[k].outcome = "5xx"})
         = Cardinality({i \in H : seq[i].outcome = "5xx"})
    /\ AnswersIn(h.window) # {} =>
          /\ \E i \in Answers(seq, H) : P50(LatenciesIn(h.window)) = seq[i].ms
          /\ 2 * Cardinality({i \in Answers(seq, H) : seq[i].ms > P50(LatenciesIn(h.window))})
               =< Cardinality(Answers(seq, H))

\* Those held by the window judge its host.
LEMMA JudgesExist ==
    ASSUME NEW h, NEW seq, HostInv(h, seq)
    PROVE  \E H : Judges(H, h, seq)
  <1> DEFINE w == h.window
  <1>1. /\ w \in Seq(Sample) /\ seq \in Seq(Sample) /\ Len(w) =< Window
        /\ \A k \in DOMAIN w : w[k] \in Sample
        /\ \A i \in DOMAIN seq : seq[i] \in Sample
    BY DEF HostInv, WindowInv
  <1>2. PICK f : KeptFrom(w, seq, f)
    BY DEF HostInv, WindowInv
  <1> DEFINE H == Held(w, f)
             K(P) == Alike(w, P)
             I(P) == HeldAlike(w, seq, f, P)
  <1> HIDE DEF w
  <1>3. /\ Recent(seq) \subseteq H /\ H \subseteq Recent(seq) \cup Ahead(seq)
        /\ H \subseteq DOMAIN seq /\ IsFiniteSet(H) /\ Cardinality(H) = Len(w)
    BY <1>1, <1>2, HeldIsJudged
  <1>4. \A P : IsFiniteSet(K(P)) /\ IsFiniteSet(I(P)) /\ Cardinality(K(P)) = Cardinality(I(P))
    BY <1>1, <1>2, HeldCount
  <1> DEFINE A == {x \in Sample : Answered(x)}
             B == {x \in Sample : x.outcome = "5xx"}
             p == P50(LatenciesIn(w))
             C == {x \in Sample : Answered(x) /\ x.ms > p}
  <1>5. K(A) = AnswersIn(w) /\ I(A) = Answers(seq, H)
    BY <1>1, <1>3 DEF AnswersIn, Answers, Alike, HeldAlike
  <1>6. /\ K(B) = {k \in DOMAIN w : w[k].outcome = "5xx"}
        /\ I(B) = {i \in H : seq[i].outcome = "5xx"}
    BY <1>1, <1>3 DEF Alike, HeldAlike
  <1>7. /\ K(C) = {k \in AnswersIn(w) : w[k].ms > p}
        /\ I(C) = {i \in Answers(seq, H) : seq[i].ms > p}
    BY <1>1, <1>3 DEF AnswersIn, Answers, Alike, HeldAlike
  <1> HIDE DEF K, I, A, B, C, p, H
  <1>8. /\ Cardinality(AnswersIn(w)) = Cardinality(Answers(seq, H))
        /\ IsFiniteSet(AnswersIn(w))
        /\ Cardinality({k \in DOMAIN w : w[k].outcome = "5xx"})
             = Cardinality({i \in H : seq[i].outcome = "5xx"})
        /\ Cardinality({k \in AnswersIn(w) : w[k].ms > p})
             = Cardinality({i \in Answers(seq, H) : seq[i].ms > p})
    BY <1>4, <1>5, <1>6, <1>7
  <1>9. ASSUME AnswersIn(w) # {}
        PROVE  /\ \E i \in Answers(seq, H) : p = seq[i].ms
               /\ 2 * Cardinality({i \in Answers(seq, H) : seq[i].ms > p})
                    =< Cardinality(Answers(seq, H))
    <2> DEFINE D == AnswersIn(w)
               xs == LatenciesIn(w)
    <2>1. xs \in [D -> Nat] /\ \A k \in D : xs[k] = w[k].ms
      <3>1. \A x \in Sample : x.ms \in Nat
        BY DEF Sample
      <3>2. QED
        BY <3>1, <1>1 DEF LatenciesIn, AnswersIn
    <2> HIDE DEF D, xs
    <2>2. /\ \E k \in D : P50(xs) = xs[k]
          /\ 2 * Cardinality({k \in D : xs[k] > P50(xs)}) =< Cardinality(D)
      BY <2>1, <1>8, <1>9, P50Is DEF D
    <2>3. PICK k \in D : p = w[k].ms
      BY <2>1, <2>2 DEF p, xs
    <2>4. f[k] \in Answers(seq, H) /\ seq[f[k]].ms = p
      BY <1>2, <2>3 DEF D, AnswersIn, KeptFrom, Held, H, Answers
    <2>5. {k2 \in D : xs[k2] > P50(xs)} = {k2 \in AnswersIn(w) : w[k2].ms > p}
      BY <2>1 DEF D, xs, p
    <2>6. QED
      BY <2>2, <2>4, <2>5, <1>8 DEF D
  <1>10. Judges(H, h, seq)
    BY <1>1, <1>3, <1>8, <1>9 DEF Judges, w, p
  <1>11. QED
    BY <1>10

\* There is a baseline, and it is the latency of a first answer.
LEMMA BaselineIs ==
    ASSUME NEW h, NEW seq, HostInv(h, seq), BaselineBefore(seq)
    PROVE  \E k \in First(seq) : P50(h.firstLatencies) = seq[k].ms /\ seq[k].ms \in Nat
  <1> DEFINE fl == h.firstLatencies
             n == Len(seq)
  <1>1. /\ fl \in Seq(Nat) /\ Learned(fl, seq) /\ seq \in Seq(Sample)
        /\ n \in Nat /\ DOMAIN seq = 1..n /\ Len(fl) \in Nat /\ DOMAIN fl = 1..Len(fl)
    BY DEF HostInv
  <1>2. Cardinality(Answers(seq, 1..(n - 1))) =< Cardinality(AllAnswers(seq))
    <2>1. Answers(seq, 1..(n - 1)) \in SUBSET AllAnswers(seq)
      BY <1>1 DEF AllAnswers, Answers
    <2>2. IsFiniteSet(AllAnswers(seq))
      BY <1>1, AnswersFinite DEF AllAnswers
    <2>3. QED
      BY <2>1, <2>2, FS_Subset
  <1>3. Cardinality(Answers(seq, 1..(n - 1))) \in Nat /\ Cardinality(AllAnswers(seq)) \in Nat
    BY <1>1, AnswersFinite DEF AllAnswers
  <1>4. Len(fl) = Baseline /\ Baseline \in Nat /\ Baseline # 0
    BY <1>1, <1>2, <1>3, DistressAssumption DEF BaselineBefore, Learned
  <1>5. IsFiniteSet(DOMAIN fl) /\ DOMAIN fl # {} /\ fl \in [DOMAIN fl -> Nat]
    <2>1. IsFiniteSet(1..Len(fl))
      BY <1>1, LengthFinite
    <2>2. DOMAIN fl # {}
      <3> HIDE DEF fl
      <3>1. 1 \in 1..Len(fl)
        BY <1>4
      <3>2. QED
        BY <1>1, <3>1
    <2>3. fl \in [DOMAIN fl -> Nat]
      BY <1>1
    <2>4. QED
      BY <2>1, <2>2, <2>3, <1>1
  <1> HIDE DEF fl
  <1>6. PICK k \in DOMAIN fl : P50(fl) = fl[k]
    BY <1>5, P50Is
  <1>7. PICK i \in First(seq) : fl[k] = seq[i].ms
    BY <1>1 DEF Learned
  <1>8. QED
    BY <1>5, <1>6, <1>7 DEF fl

\* The reports a property judges a host by.
Judged(seq) == Answers(seq, Recent(seq)) \cup Answers(seq, Ahead(seq))

\* They can be counted.
LEMMA JudgedFinite ==
    ASSUME NEW seq \in Seq(Sample)
    PROVE  /\ IsFiniteSet(Judged(seq)) /\ Cardinality(Judged(seq)) \in Nat
           /\ \A U \in SUBSET Judged(seq) :
                 IsFiniteSet(U) /\ Cardinality(U) \in Nat /\ Cardinality(U) =< Cardinality(Judged(seq))
  <1>1. IsFiniteSet(1..Len(seq))
    BY FS_Interval
  <1>2. Judged(seq) \in SUBSET (1..Len(seq))
    BY DEF Judged, Answers, Recent, Ahead, Unexpired
  <1>3. IsFiniteSet(Judged(seq)) /\ Cardinality(Judged(seq)) \in Nat
    BY <1>1, <1>2, FS_Subset, FS_CardinalityType
  <1>4. QED
    BY <1>3, FS_Subset, FS_CardinalityType

\* Rule 2 names a host of which it is so.
LEMMA RateEarned ==
    ASSUME NEW h, NEW seq, HostInv(h, seq), RateTrips(h)
    PROVE  /\ Cardinality(Judged(seq)) >= Baseline
           /\ RateDen * Cardinality({i \in Judged(seq) : seq[i].outcome = "5xx"})
                > RateNum * Cardinality(Answers(seq, Recent(seq)))
  <1>1. PICK H : Judges(H, h, seq)
    BY JudgesExist
  <1> DEFINE a == Cardinality(Answers(seq, H))
             b == Cardinality({i \in H : seq[i].outcome = "5xx"})
             J == Judged(seq)
             c == Cardinality({i \in J : seq[i].outcome = "5xx"})
             r == Cardinality(Answers(seq, Recent(seq)))
  <1>2. a >= Baseline /\ b * RateDen > RateNum * a
    BY <1>1 DEF RateTrips, Judges, AnswersIn
  <1>3. seq \in Seq(Sample)
    BY DEF HostInv
  <1>4. /\ Answers(seq, H) \in SUBSET J
        /\ {i \in H : seq[i].outcome = "5xx"} \in SUBSET J
        /\ {i \in H : seq[i].outcome = "5xx"} \subseteq {i \in J : seq[i].outcome = "5xx"}
        /\ {i \in J : seq[i].outcome = "5xx"} \in SUBSET J
        /\ Answers(seq, Recent(seq)) \in SUBSET J
        /\ Answers(seq, Recent(seq)) \subseteq Answers(seq, H)
    BY <1>1 DEF Judges, Judged, Answers, Answered
  <1>5. a \in Nat /\ b \in Nat /\ c \in Nat /\ r \in Nat /\ Cardinality(J) \in Nat
        /\ a =< Cardinality(J)
    BY <1>3, <1>4, JudgedFinite
  <1>6. b =< c
    BY <1>3, <1>4, JudgedFinite, FS_Subset
  <1>7. r =< a
    BY <1>3, <1>4, JudgedFinite, FS_Subset
  <1> HIDE DEF a, b, c, r, J
  <1>8. RateNum \in Nat /\ RateDen \in Nat /\ Baseline \in Nat
    BY DistressAssumption
  <1>9. RateDen * b =< RateDen * c /\ RateNum * r =< RateNum * a
    BY <1>5, <1>6, <1>7, <1>8, ProductMonotone
  <1>10. b * RateDen = RateDen * b
    BY <1>5, <1>8
  <1>11. RateDen * b \in Int /\ RateDen * c \in Int /\ RateNum * r \in Int /\ RateNum * a \in Int
    BY <1>5, <1>8
  <1>12. RateDen * c > RateNum * r
    BY <1>2, <1>9, <1>10, <1>11
  <1>13. QED
    BY <1>2, <1>5, <1>8, <1>12 DEF c, r, J

\* So does rule 3.
LEMMA LatencyEarned ==
    ASSUME NEW h, NEW seq, HostInv(h, seq), BaselineBefore(seq), LatencyTrips(h)
    PROVE  \E i \in Judged(seq), k \in First(seq) : SlowAgainst(seq[i].ms, seq[k].ms)
  <1>1. PICK H : Judges(H, h, seq)
    BY JudgesExist
  <1>2. PICK k \in First(seq) : P50(h.firstLatencies) = seq[k].ms /\ seq[k].ms \in Nat
    BY BaselineIs
  <1>3. /\ AnswersIn(h.window) # {}
        /\ P50(LatenciesIn(h.window)) > Raised(seq[k].ms, 1) * Multiple
        /\ P50(LatenciesIn(h.window)) >= Floor
    BY <1>2 DEF LatencyTrips, AnswersIn, LatenciesIn
  <1>4. PICK i \in Answers(seq, H) : P50(LatenciesIn(h.window)) = seq[i].ms
    BY <1>1, <1>3 DEF Judges
  <1>5. i \in Judged(seq)
    BY <1>1 DEF Judges, Judged, Answers
  <1>6. Raised(seq[k].ms, 1) * Multiple = Multiple * Raised(seq[k].ms, 1)
    <2>1. Raised(seq[k].ms, 1) \in Nat /\ Multiple \in Nat
      BY <1>2, DistressAssumption DEF Raised
    <2>2. QED
      BY <2>1
  <1>7. SlowAgainst(seq[i].ms, seq[k].ms)
    BY <1>3, <1>4, <1>6 DEF SlowAgainst
  <1>8. QED
    BY <1>5, <1>7

\* The recent answers that are slow even against the slowest of the first.
Slow(seq) ==
    {i \in Answers(seq, Recent(seq)) : \A k \in First(seq) : SlowAgainst(seq[i].ms, seq[k].ms)}

\* Where rule 3 does not fire, not most of the answers are slow.
LEMMA SlowFires ==
    ASSUME NEW h, NEW seq, HostInv(h, seq), BaselineBefore(seq), ~LatencyTrips(h)
    PROVE  2 * Cardinality(Slow(seq)) =< Cardinality(Judged(seq))
  <1>1. PICK H : Judges(H, h, seq)
    BY JudgesExist
  <1>2. PICK k \in First(seq) : P50(h.firstLatencies) = seq[k].ms /\ seq[k].ms \in Nat
    BY BaselineIs
  <1>3. seq \in Seq(Sample) /\ \A i \in DOMAIN seq : seq[i].ms \in Nat
    <2>1. \A x \in Sample : x.ms \in Nat
      BY DEF Sample
    <2>2. QED
      BY <2>1 DEF HostInv
  <1>4. Slow(seq) \in SUBSET Judged(seq) /\ Slow(seq) \subseteq Answers(seq, H)
        /\ Answers(seq, H) \in SUBSET Judged(seq)
    BY <1>1 DEF Slow, Judged, Judges, Answers
  <1>5. Cardinality(Slow(seq)) \in Nat /\ Cardinality(Judged(seq)) \in Nat
    BY <1>3, <1>4, JudgedFinite
  <1>6. CASE Slow(seq) = {}
    BY <1>5, <1>6, FS_EmptySet
  <1>7. CASE Slow(seq) # {}
    <2> DEFINE p == P50(LatenciesIn(h.window))
               above == {i \in Answers(seq, H) : seq[i].ms > p}
    <2>0. IsFiniteSet(Answers(seq, H)) /\ Cardinality(Answers(seq, H)) \in Nat
          /\ Cardinality(Answers(seq, H)) =< Cardinality(Judged(seq))
      BY <1>3, <1>4, JudgedFinite
    <2>1. AnswersIn(h.window) # {}
      <3>1. SUFFICES ASSUME AnswersIn(h.window) = {} PROVE FALSE
        OBVIOUS
      <3>2. Cardinality(Answers(seq, H)) = 0
        BY <1>1, <3>1, FS_EmptySet DEF Judges
      <3>3. Answers(seq, H) = {}
        BY <2>0, <3>2, FS_EmptySet
      <3>4. QED
        BY <3>3, <1>4, <1>7
    <2>2. /\ \E i \in Answers(seq, H) : p = seq[i].ms
          /\ 2 * Cardinality(above) =< Cardinality(Answers(seq, H))
      BY <1>1, <2>1 DEF Judges
    <2>3. p \in Nat
      BY <1>1, <1>3, <2>2 DEF Judges, Answers
    <2>4. ~(p > Raised(seq[k].ms, 1) * Multiple /\ p >= Floor)
      BY <1>2, <2>1 DEF LatencyTrips, AnswersIn, LatenciesIn
    <2> HIDE DEF p
    <2>5. ASSUME NEW i \in Slow(seq) PROVE seq[i].ms > p
      <3>1. SlowAgainst(seq[i].ms, seq[k].ms) /\ seq[i].ms \in Nat
        BY <1>1, <1>3, <1>4 DEF Slow, Judges, Answers
      <3>2. Raised(seq[k].ms, 1) \in Nat /\ Multiple \in Nat /\ Floor \in Nat
        BY <1>2, DistressAssumption DEF Raised
      <3>3. PICK t : t = Raised(seq[k].ms, 1) * Multiple
        OBVIOUS
      <3>4. t \in Nat /\ t = Multiple * Raised(seq[k].ms, 1)
        BY <3>2, <3>3
      <3>5. seq[i].ms >= Floor /\ seq[i].ms > t
        BY <3>1, <3>4 DEF SlowAgainst
      <3>6. ~(p > t /\ p >= Floor)
        BY <2>4, <3>3
      <3>7. QED
        BY <3>1, <3>2, <3>4, <3>5, <3>6, <2>3
    <2>6. Slow(seq) \in SUBSET above /\ above \in SUBSET Judged(seq)
      BY <2>5, <1>4
    <2> HIDE DEF above
    <2>7. Cardinality(above) \in Nat /\ Cardinality(Slow(seq)) =< Cardinality(above)
      BY <2>6, <1>3, JudgedFinite, FS_Subset
    <2>8. QED
      BY <2>0, <2>2, <2>7, <1>5
  <1>8. QED
    BY <1>6, <1>7

----------------------------------------------------------------------------
\* A host that never answers well.

\* With room for Baseline streaks one short, the last Window reports have at
\* least Baseline answers.
LEMMA Blocks ==
    ASSUME NEW seq \in Seq(Sample), NoLongStreak(seq),
           Window >= Baseline * MaxErrors, Len(seq) >= Window
    PROVE  Cardinality(Answers(seq, (Len(seq) - Window + 1)..Len(seq))) >= Baseline
  <1> DEFINE n == Len(seq)
             M == MaxErrors
             A == Answers(seq, (n - Window + 1)..n)
             Block(b) == (n - b * M + 1)..(n - b * M + M)
             pick == [b \in 1..Baseline |-> CHOOSE i \in Block(b) : Answered(seq[i])]
  <1>1. n \in Nat /\ M \in Nat /\ M # 0 /\ Baseline \in Nat /\ Window \in Nat
    BY DistressAssumption
  <1>2. \A b \in 1..Baseline : b * M \in Nat /\ M =< b * M /\ b * M =< Window
    <2> SUFFICES ASSUME NEW b \in 1..Baseline
                 PROVE  b * M \in Nat /\ M =< b * M /\ b * M =< Window
      OBVIOUS
    <2>1. b \in Nat /\ 1 =< b /\ b =< Baseline
      BY <1>1
    <2>2. M * 1 =< M * b /\ M * b =< M * Baseline
      BY <2>1, <1>1, ProductMonotone
    <2>3. M * b = b * M /\ M * Baseline = Baseline * M /\ M * 1 = M /\ b * M \in Nat
      BY <2>1, <1>1
    <2>4. Baseline * M \in Nat
      BY <1>1
    <2>5. QED
      BY <2>2, <2>3, <2>4, <1>1
  <1>3. \A b, c \in 1..Baseline : b < c => b * M + M =< c * M
    <2> SUFFICES ASSUME NEW b \in 1..Baseline, NEW c \in 1..Baseline, b < c
                 PROVE  b * M + M =< c * M
      OBVIOUS
    <2>1. b \in Nat /\ c \in Nat /\ b + 1 =< c
      BY <1>1
    <2>2. M * (b + 1) =< M * c
      BY <2>1, <1>1, ProductMonotone
    <2>3. M * (b + 1) = M * b + M * 1 /\ M * b = b * M /\ M * c = c * M /\ M * 1 = M
      BY <2>1, <1>1
    <2>4. b * M \in Nat /\ c * M \in Nat
      BY <2>1, <1>1
    <2>5. QED
      BY <2>2, <2>3, <2>4, <1>1
  <1>4. \A b \in 1..Baseline : pick[b] \in Block(b) /\ Answered(seq[pick[b]])
    <2> SUFFICES ASSUME NEW b \in 1..Baseline
                 PROVE  pick[b] \in Block(b) /\ Answered(seq[pick[b]])
      OBVIOUS
    <2>1. PICK e : e = n - b * M + M
      OBVIOUS
    <2>2. e \in MaxErrors..n /\ e - MaxErrors + 1 = n - b * M + 1
      BY <2>1, <1>1, <1>2
    <2>3. \E i \in Block(b) : Answered(seq[i])
      BY <2>1, <2>2 DEF NoLongStreak
    <2>4. QED
      BY <2>3
  <1> HIDE DEF pick
  <1>5. \A b \in 1..Baseline :
            /\ pick[b] \in Int /\ n - b * M + 1 =< pick[b] /\ pick[b] =< n - b * M + M
    BY <1>1, <1>2, <1>4
  <1>6. pick \in [1..Baseline -> A]
    <2>1. ASSUME NEW b \in 1..Baseline PROVE pick[b] \in A
      <3>1. PICK x : x = b * M
        OBVIOUS
      <3>2. /\ x \in Nat /\ M =< x /\ x =< Window
            /\ pick[b] \in Int /\ n - x + 1 =< pick[b] /\ pick[b] =< n - x + M
        BY <3>1, <1>2, <1>5
      <3>3. pick[b] \in (n - Window + 1)..n
        BY <3>2, <1>1
      <3>4. QED
        BY <3>3, <1>4 DEF Answers
    <2>2. QED
      BY <2>1 DEF pick
  <1>7. ASSUME NEW b \in 1..Baseline, NEW c \in 1..Baseline, pick[b] = pick[c] PROVE b = c
    <2>1. b \in Int /\ c \in Int
      BY <1>1
    <2>2. PICK x, y : x = b * M /\ y = c * M
      OBVIOUS
    <2>3. /\ x \in Nat /\ n - x + 1 =< pick[b] /\ pick[b] =< n - x + M
          /\ y \in Nat /\ n - y + 1 =< pick[c] /\ pick[c] =< n - y + M
          /\ pick[b] \in Int
      BY <2>2, <1>2, <1>5
    <2>4. (b < c => x + M =< y) /\ (c < b => y + M =< x)
      BY <2>2, <1>3
    <2>5. ~(x + M =< y) /\ ~(y + M =< x)
      BY <2>3, <1>1, <1>7
    <2>6. QED
      BY <2>1, <2>4, <2>5
  <1>8. pick \in Injection(1..Baseline, A)
    BY <1>6, <1>7 DEF Injection, IsInjective
  <1>9. IsFiniteSet(A) /\ Cardinality(A) \in Nat
    BY <1>1, AnswersFinite
  <1>10. Cardinality(1..Baseline) =< Cardinality(A)
    <2> HIDE DEF A
    <2> QED
      BY <1>8, <1>9, FS_Injection
  <1>11. Cardinality(1..Baseline) = Baseline
    <2>1. Cardinality(1..Baseline) = IF 1 > Baseline THEN 0 ELSE Baseline - 1 + 1
      BY <1>1, FS_Interval
    <2>2. QED
      BY <2>1, <1>1
  <1>12. QED
    BY <1>9, <1>10, <1>11, <1>1

\* Where no rule fires, a window of recent reports has one that is well.
LEMMA FailingFires ==
    ASSUME NEW h, NEW seq, HostInv(h, seq), NoLongStreak(seq), ~RateTrips(h),
           Window >= Baseline * MaxErrors, Cardinality(Recent(seq)) = Window
    PROVE  \E i \in Recent(seq) : seq[i].outcome = "ok"
  <1> DEFINE n == Len(seq)
             R == (n - Window + 1)..n
  <1>1. /\ seq \in Seq(Sample) /\ n \in Nat /\ DOMAIN seq = 1..n
        /\ \A i \in DOMAIN seq : seq[i].outcome \in {"ok", "5xx", "error"}
    <2>1. seq \in Seq(Sample)
      BY DEF HostInv
    <2>2. \A x \in Sample : x.outcome \in {"ok", "5xx", "error"}
      BY DEF Sample
    <2>3. QED
      BY <2>1, <2>2
  <1>2. Window \in Nat /\ Window # 0 /\ Baseline \in Nat /\ Baseline # 0
    BY DistressAssumption
  <1>3. IsFiniteSet(R) /\ Cardinality(R) = Window
    <2>1. n - Window + 1 \in Int /\ n \in Int /\ ~(n - Window + 1 > n)
      BY <1>1, <1>2
    <2>2. IsFiniteSet(R) /\ Cardinality(R) = n - (n - Window + 1) + 1
      BY <2>1, FS_Interval
    <2>3. QED
      BY <2>2, <1>1, <1>2
  <1>4. Recent(seq) \in SUBSET R
    BY <1>1, <1>2 DEF Recent, Unexpired
  <1> HIDE DEF R
  <1>5. Recent(seq) = R
    BY <1>3, <1>4, FS_Subset
  <1>6. n >= Window
    <2>1. n - Window + 1 \in R
      BY <1>1, <1>2 DEF R
    <2>2. n - Window + 1 \in DOMAIN seq
      BY <2>1, <1>5 DEF Recent, Unexpired
    <2>3. QED
      BY <2>2, <1>1, <1>2
  <1>7. PICK H : Judges(H, h, seq)
    BY JudgesExist
  <1>8. H = R
    <2>1. R \in SUBSET H /\ IsFiniteSet(H) /\ Cardinality(H) =< Window
      BY <1>5, <1>7 DEF Judges
    <2>2. Cardinality(R) =< Cardinality(H) /\ Cardinality(H) \in Nat
      BY <2>1, FS_Subset, FS_CardinalityType
    <2>3. Cardinality(R) = Cardinality(H)
      BY <2>1, <2>2, <1>2, <1>3
    <2>4. QED
      BY <2>1, <2>3, FS_Subset
  <1>9. SUFFICES ASSUME \A i \in R : seq[i].outcome # "ok" PROVE FALSE
    BY <1>5
  <1>10. {i \in R : seq[i].outcome = "5xx"} = Answers(seq, R)
    BY <1>1, <1>5, <1>9 DEF Answers, Answered, Recent, Unexpired
  <1> DEFINE a == Cardinality(Answers(seq, R))
  <1>11. a \in Nat /\ a >= Baseline
    <2>1. Cardinality(Answers(seq, (n - Window + 1)..n)) >= Baseline
      BY <1>1, <1>6, Blocks
    <2>2. Cardinality(Answers(seq, (n - Window + 1)..n)) \in Nat
      BY <1>1, <1>2, AnswersFinite
    <2>3. QED
      BY <2>1, <2>2 DEF R
  <1>12. ~(a * RateDen > RateNum * a)
    BY <1>7, <1>8, <1>10, <1>11 DEF RateTrips, Judges, AnswersIn
  <1> HIDE DEF a
  <1>13. RateNum \in Nat /\ RateDen \in Nat /\ RateNum + 1 =< RateDen
    BY DistressAssumption
  <1>14. a * (RateNum + 1) =< a * RateDen
    BY <1>11, <1>13, ProductMonotone
  <1>15. a * (RateNum + 1) = a * RateNum + a /\ a * RateNum = RateNum * a
         /\ a * RateDen \in Nat /\ a * RateNum \in Nat
    BY <1>11, <1>13
  <1>16. QED
    BY <1>2, <1>11, <1>12, <1>14, <1>15

----------------------------------------------------------------------------
\* The monitor.

\* As long as the run is not stopped, no rule has fired on any host's last
\* report; once it is, the one that did has cause.
DistressInv ==
    /\ DOMAIN hosts = Hosts /\ DOMAIN log = Hosts
    /\ log = [h \in Hosts |-> log[h]] /\ hosts = [h \in Hosts |-> hosts[h]]
    /\ \A h \in Hosts : HostInv(hosts[h], log[h])
    /\ stop = Running \/ stop \in [reason: {"errors", "rate", "latency"}, host: Hosts]
    /\ \A h \in Hosts : hosts[h].consecutiveErrors =< MaxErrors
    /\ stop = Running =>
          \A h \in Hosts :
             /\ NoLongStreak(log[h])
             /\ hosts[h].consecutiveErrors < MaxErrors
             /\ ~RateTrips(hosts[h])
             /\ BaselineBefore(log[h]) => ~LatencyTrips(hosts[h])
    /\ BlameIsEarned

\* Nothing has been reported of any host.
LEMMA DistressInitInv == DistressInit => DistressInv
  <1> SUFFICES ASSUME DistressInit PROVE DistressInv
    OBVIOUS
  <1> USE DistressAssumption
  <1>1. /\ hosts = [h \in Hosts |-> NewHost] /\ log = [h \in Hosts |-> <<>>] /\ stop = Running
    BY DEF DistressInit
  <1>2. HostInv(NewHost, <<>>)
    <2>1. /\ <<>> \in Seq(Sample) /\ <<>> \in Seq(Nat) /\ Len(<<>>) = 0 /\ DOMAIN <<>> = {}
      OBVIOUS
    <2>2. WindowInv(<<>>, <<>>)
      <3>1. Recent(<<>>) = {} /\ Unexpired(<<>>) = {}
        BY <2>1 DEF Recent, Unexpired
      <3>2. KeptFrom(<<>>, <<>>, [k \in {} |-> k])
        BY <2>1, <3>1 DEF KeptFrom
      <3>3. QED
        BY <2>1, <3>2 DEF WindowInv
    <2>3. Streak(0, <<>>)
      BY <2>1 DEF Streak
    <2>4. Learned(<<>>, <<>>)
      <3>1. AllAnswers(<<>>) = {}
        BY <2>1 DEF AllAnswers, Answers
      <3>2. Cardinality(AllAnswers(<<>>)) = 0
        BY <3>1, FS_EmptySet
      <3>3. QED
        BY <2>1, <3>2 DEF Learned
    <2>5. QED
      BY <2>1, <2>2, <2>3, <2>4 DEF HostInv, NewHost
  <1>3. NoLongStreak(<<>>)
    BY DEF NoLongStreak
  <1>4. ~RateTrips(NewHost)
    <2>1. {i \in DOMAIN NewHost.window : Answered(NewHost.window[i])} = {}
      BY DEF NewHost
    <2>2. Cardinality({i \in DOMAIN NewHost.window : Answered(NewHost.window[i])}) = 0
      BY <2>1, FS_EmptySet
    <2>3. QED
      BY <2>2 DEF RateTrips
  <1>5. ~BaselineBefore(<<>>)
    <2>1. Answers(<<>>, 1..(Len(<<>>) - 1)) = {}
      BY DEF Answers
    <2>2. Cardinality({}) = 0 /\ ~(0 >= Baseline)
      BY FS_EmptySet
    <2>3. QED
      BY <2>1, <2>2 DEF BaselineBefore
  <1>6. BlameIsEarned
    BY <1>1 DEF BlameIsEarned, Running
  <1>7. \A h \in Hosts : hosts[h] = NewHost /\ log[h] = <<>>
    BY <1>1
  <1>8. NewHost.consecutiveErrors = 0 /\ 0 < MaxErrors
    BY DEF NewHost
  <1>9. QED
    BY <1>1, <1>2, <1>3, <1>4, <1>5, <1>6, <1>7, <1>8 DEF DistressInv

\* A report is noted, and stops the run by the first rule that fires (record).
LEMMA RecordStep ==
    ASSUME DistressInv, NEW host \in Hosts, NEW at \in Readings,
           NEW outcome \in {"ok", "5xx", "error"}, NEW ms \in Measured(outcome),
           Record(host, at, outcome, ms)
    PROVE  DistressInv'
  <1> DEFINE s == [at |-> at, outcome |-> outcome, ms |-> Raised(ms, 0)]
             h == hosts[host]
             seq == log[host]
             after == Noted(h, s)
             more == Append(seq, s)
             why == Reason(h, after, s)
  <1>1. s \in Sample
    <2>1. ms \in Nat \/ ms = -1
      BY DistressAssumption DEF Measured
    <2>2. Raised(ms, 0) \in Nat
      BY <2>1 DEF Raised
    <2>3. QED
      BY <2>2 DEF Sample
  <1>2. /\ stop = Running
        /\ hosts' = [hosts EXCEPT ![host] = after]
        /\ stop' = IF why = "healthy" THEN stop ELSE [reason |-> why, host |-> host]
        /\ log' = [log EXCEPT ![host] = more]
    BY DEF Record
  <1> HIDE DEF s
  <1>3. HostInv(h, seq) /\ NoLongStreak(seq) /\ h.consecutiveErrors < MaxErrors
    BY <1>2 DEF DistressInv
  <1>4. HostInv(after, more) /\ (BaselineReady(h) <=> BaselineBefore(more))
    <2> HIDE DEF h, seq
    <2> QED
      BY <1>1, <1>3, NotedStep
  <1>5. after.consecutiveErrors = IF Answered(s) THEN 0 ELSE h.consecutiveErrors + 1
    BY DEF Noted
  <1>6. /\ seq \in Seq(Sample) /\ h.consecutiveErrors \in Nat /\ MaxErrors \in Nat /\ MaxErrors # 0
        /\ Streak(after.consecutiveErrors, more)
    BY <1>3, <1>4, DistressAssumption DEF HostInv
  <1>7. after.consecutiveErrors \in Nat /\ after.consecutiveErrors =< MaxErrors
    BY <1>3, <1>5, <1>6
  <1>8. /\ DOMAIN hosts' = Hosts /\ DOMAIN log' = Hosts
        /\ hosts'[host] = after /\ log'[host] = more
        /\ \A g \in Hosts : g # host => hosts'[g] = hosts[g] /\ log'[g] = log[g]
        /\ log' = [g \in Hosts |-> log'[g]] /\ hosts' = [g \in Hosts |-> hosts'[g]]
    <2> HIDE DEF after, more
    <2> QED
      BY <1>2 DEF DistressInv
  <1> HIDE DEF h, seq, after, more, why
  <1>9. \A g \in Hosts : HostInv(hosts'[g], log'[g]) /\ hosts'[g].consecutiveErrors =< MaxErrors
    BY <1>4, <1>7, <1>8 DEF DistressInv
  <1>10. why = IF ~Answered(s) /\ after.consecutiveErrors >= MaxErrors THEN "errors"
               ELSE IF RateTrips(after) THEN "rate"
               ELSE IF BaselineBefore(more) /\ LatencyTrips(after) THEN "latency"
               ELSE "healthy"
    BY <1>4 DEF why, Reason, ErrorsTrip
  <1>11. stop' = Running \/ stop' \in [reason: {"errors", "rate", "latency"}, host: Hosts]
    BY <1>2, <1>10
  <1>12. stop' = Running => why = "healthy"
    BY <1>2, <1>10 DEF Running
  <1>13. ASSUME why = "healthy"
         PROVE  /\ NoLongStreak(more) /\ after.consecutiveErrors < MaxErrors
                /\ ~RateTrips(after)
                /\ BaselineBefore(more) => ~LatencyTrips(after)
    <2>1. after.consecutiveErrors < MaxErrors
      BY <1>5, <1>6, <1>7, <1>10, <1>13
    <2>2. NoLongStreak(more)
      BY <2>1, <1>1, <1>3, <1>6, LongStep DEF more
    <2>3. QED
      BY <2>1, <2>2, <1>10, <1>13
  <1>14. BlameIsEarned'
    <2>1. CASE why = "healthy"
      BY <2>1, <1>2 DEF BlameIsEarned, Running
    <2>2. CASE why # "healthy"
      <3>1. stop'.host = host /\ stop'.reason = why /\ log'[stop'.host] = more
        BY <2>2, <1>2, <1>8
      <3>2. ASSUME why = "errors"
            PROVE  /\ Len(more) >= MaxErrors
                   /\ Answers(more, (Len(more) - MaxErrors + 1)..Len(more)) = {}
        <4>1. after.consecutiveErrors >= MaxErrors
          BY <3>2, <1>10
        <4>2. after.consecutiveErrors = MaxErrors
          BY <4>1, <1>6, <1>7
        <4>3. Len(more) \in Nat
          BY <1>4 DEF HostInv
        <4>4. QED
          BY <4>2, <4>3, <1>6 DEF Streak, Answers
      <3>3. ASSUME why = "rate"
            PROVE  /\ Cardinality(Judged(more)) >= Baseline
                   /\ RateDen * Cardinality({i \in Judged(more) : more[i].outcome = "5xx"})
                        > RateNum * Cardinality(Answers(more, Recent(more)))
        BY <3>3, <1>4, <1>10, RateEarned
      <3>4. ASSUME why = "latency"
            PROVE  /\ BaselineBefore(more)
                   /\ \E i \in Judged(more), k \in First(more) :
                          SlowAgainst(more[i].ms, more[k].ms)
        BY <3>4, <1>4, <1>10, LatencyEarned
      <3>5. QED
        BY <3>1, <3>2, <3>3, <3>4 DEF BlameIsEarned, Judged
    <2>3. QED
      BY <2>1, <2>2
  <1>15. stop' = Running =>
           \A g \in Hosts :
              /\ NoLongStreak(log'[g])
              /\ hosts'[g].consecutiveErrors < MaxErrors
              /\ ~RateTrips(hosts'[g])
              /\ BaselineBefore(log'[g]) => ~LatencyTrips(hosts'[g])
    BY <1>2, <1>8, <1>12, <1>13 DEF DistressInv
  <1>16. QED
    BY <1>8, <1>9, <1>11, <1>14, <1>15 DEF DistressInv

\* A report after a stop changes nothing (record returns).
LEMMA DistressStep == DistressInv /\ [DistressNext]_distressVars => DistressInv'
  <1> SUFFICES ASSUME DistressInv, [DistressNext]_distressVars PROVE DistressInv'
    OBVIOUS
  <1>1. CASE UNCHANGED distressVars
    BY <1>1 DEF distressVars, DistressInv, BlameIsEarned
  <1>2. CASE DistressNext
    <2>1. CASE RecordAfterStop
      BY <2>1, <1>1 DEF RecordAfterStop
    <2>2. ASSUME NEW host \in Hosts, NEW at \in Readings,
                 NEW outcome \in {"ok", "5xx", "error"}, NEW ms \in Measured(outcome),
                 Record(host, at, outcome, ms)
          PROVE  DistressInv'
      BY <2>2, RecordStep
    <2>3. QED
      BY <2>1, <2>2, <1>2 DEF DistressNext
  <1>3. QED
    BY <1>1, <1>2

\* So it holds always.
LEMMA DistressInvAlways == DistressSpec => []DistressInv
  BY DistressInitInv, DistressStep, PTL DEF DistressSpec

\* A host that only fails, through a window whole and recent, has stopped the
\* run: with room for Baseline answers between streaks each one short of the
\* limit, whichever way its failures are mixed (Distress.record's three rules).
THEOREM FailingStops == DistressSpec => []FailingIsSeen
  <1>1. DistressInv => FailingIsSeen
    BY FailingFires DEF DistressInv, FailingIsSeen
  <1>2. QED
    BY <1>1, DistressInvAlways, PTL

\* A host most of whose recent answers are slow even against the slowest of
\* its first has stopped the run (Distress.tripOnLatency, evict).
THEOREM SlowStops == DistressSpec => []SlowIsSeen
  <1>1. DistressInv => SlowIsSeen
    <2> SUFFICES ASSUME DistressInv, stop = Running, NEW h \in Hosts, BaselineBefore(log[h])
                 PROVE  2 * Cardinality(Slow(log[h])) =< Cardinality(Judged(log[h]))
      BY DEF SlowIsSeen, Slow, Judged
    <2>1. HostInv(hosts[h], log[h]) /\ ~LatencyTrips(hosts[h])
      BY DEF DistressInv
    <2>2. QED
      BY <2>1, SlowFires
  <1>2. QED
    BY <1>1, DistressInvAlways, PTL

\* A run is stopped with cause, and the host named is the one that gave it
\* (Distress.trip).
THEOREM BlameStands == DistressSpec => []BlameIsEarned
  <1>1. DistressInv => BlameIsEarned
    BY DEF DistressInv
  <1>2. QED
    BY <1>1, DistressInvAlways, PTL

\* What is kept of a host is bounded by the configuration: its window, the
\* latencies of its baseline, its streak (Distress.Host, evict).
THEOREM DistressBounded == DistressSpec => []DistressTypeOK
  <1>1. DistressInv => DistressTypeOK
    <2> SUFFICES ASSUME DistressInv PROVE DistressTypeOK
      OBVIOUS
    <2>1. ASSUME NEW h \in Hosts
          PROVE  /\ hosts[h].window \in Seq(Sample) /\ Len(hosts[h].window) =< Window
                 /\ hosts[h].firstLatencies \in Seq(Nat)
                 /\ Len(hosts[h].firstLatencies) =< Baseline
                 /\ hosts[h].consecutiveErrors \in 0..MaxErrors
                 /\ log[h] \in Seq(Sample)
      <3>1. HostInv(hosts[h], log[h]) /\ hosts[h].consecutiveErrors =< MaxErrors
        BY DEF DistressInv
      <3>2. MaxErrors \in Nat
        BY DistressAssumption
      <3>3. QED
        BY <3>1, <3>2 DEF HostInv, WindowInv, Learned
    <2>2. log \in [Hosts -> Seq(Sample)]
      BY <2>1 DEF DistressInv
    <2>3. QED
      BY <2>1, <2>2 DEF DistressInv, DistressTypeOK
  <1>2. QED
    BY <1>1, DistressInvAlways, PTL

-----------------------------------------------------------------------------
(* The crawl.                                                               *)

\* What a page's links add: not known, of a seeded origin, where first linked.
Fresh(known, hrefs) ==
    {n \in DOMAIN hrefs :
        /\ Normal[hrefs[n]] # None /\ Normal[hrefs[n]] \notin known
        /\ Origin[Normal[hrefs[n]]] \in Origins
        /\ \A m \in 1..(n - 1) : Normal[hrefs[m]] # Normal[hrefs[n]]}

\* Offering puts them behind what waits, in their order (Frontier.offer).
LEMMA OfferedIs ==
    ASSUME NEW q \in Seq(Urls), NEW known, NEW hrefs \in Seq(Hrefs)
    PROVE  LET F == Fresh(known, hrefs)
               N == Cardinality(F)
               o == Offered(q, known, hrefs)
           IN  /\ N \in Nat
               /\ o.known = known \cup {Normal[hrefs[n]] : n \in F}
               /\ o.queue \in Seq(Urls) /\ Len(o.queue) = Len(q) + N
               /\ \A k \in 1..Len(q) : o.queue[k] = q[k]
               /\ \A k \in 1..N : o.queue[Len(q) + k] = Normal[hrefs[Nth(F, k)]]
               /\ \A k \in 1..N : Nth(F, k) \in F
               /\ \A k, l \in 1..N : k < l => Nth(F, k) < Nth(F, l)
               /\ \A i \in F : \E k \in 1..N : Nth(F, k) = i
  <1> DEFINE F == Fresh(known, hrefs)
             N == Cardinality(F)
             P == Picked(hrefs, F)
             o == Offered(q, known, hrefs)
             new == [k \in DOMAIN P |-> Normal[P[k]]]
             L == Len(q)
  <1>1. F \subseteq DOMAIN hrefs
    BY DEF Fresh
  <1>2. /\ P \in Seq(Hrefs) /\ N \in Nat /\ DOMAIN P = 1..N
        /\ \A k \in 1..N : P[k] = hrefs[Nth(F, k)]
        /\ \A k \in 1..N : Nth(F, k) \in F
        /\ \A k, l \in 1..N : k < l => Nth(F, k) < Nth(F, l)
        /\ \A i \in F : \E k \in 1..N : Nth(F, k) = i
    <2> HIDE DEF F
    <2> QED
      BY <1>1, PickedSeq
  <1>3. o = [queue |-> q \o new, known |-> known \cup {Normal[hrefs[n]] : n \in F}]
    BY DEF Offered, Fresh
  <1>4. \A k \in 1..N : Normal[hrefs[Nth(F, k)]] \in Urls
    <2> SUFFICES ASSUME NEW k \in 1..N PROVE Normal[hrefs[Nth(F, k)]] \in Urls
      OBVIOUS
    <2>1. Nth(F, k) \in F
      BY <1>2
    <2>2. \A n \in F : n \in DOMAIN hrefs /\ Normal[hrefs[n]] # None
      BY DEF Fresh
    <2>3. \A n \in DOMAIN hrefs : hrefs[n] \in Hrefs
      OBVIOUS
    <2> HIDE DEF F
    <2>4. QED
      BY <2>1, <2>2, <2>3, CrawlAssumptions
  <1> HIDE DEF F, N, P, o
  <1>5. new \in Seq(Urls) /\ Len(new) = N /\ \A k \in 1..N : new[k] = Normal[hrefs[Nth(F, k)]]
    <2>1. \A k \in 1..N : new[k] = Normal[P[k]] /\ P[k] = hrefs[Nth(F, k)]
      BY <1>2
    <2>2. new \in [1..N -> Urls]
      BY <1>2, <1>4
    <2> HIDE DEF new
    <2>3. new \in Seq(Urls)
      BY SMTT(30), <2>2, <1>2
    <2>4. Len(new) = N
      BY <2>2, <1>2
    <2>5. QED
      BY <2>1, <2>3, <2>4
  <1> HIDE DEF new
  <1>6. /\ q \o new \in Seq(Urls) /\ Len(q \o new) = Len(q) + N
        /\ \A k \in 1..Len(q) : (q \o new)[k] = q[k]
        /\ \A k \in 1..N : (q \o new)[Len(q) + k] = new[k]
    <2>1. L \in Nat
      OBVIOUS
    <2>2. q \o new \in Seq(Urls) /\ Len(q \o new) = Len(q) + N
      BY <1>5
    <2>3. \A k \in 1..Len(q) : (q \o new)[k] = q[k]
      BY <1>5, <1>2
    <2>4. ASSUME NEW k \in 1..N PROVE (q \o new)[L + k] = new[k]
      <3>1. L + k \in 1..(L + N) /\ ~(L + k <= L) /\ (L + k) - L = k
        BY <2>1, <1>2
      <3>2. QED
        BY <1>5, <2>1, <3>1
    <2>5. QED
      BY <2>2, <2>3, <2>4
  <1>7. QED
    BY <1>2, <1>3, <1>5, <1>6 DEF F, N, o

\* What an offer makes of the frontier: what it had it keeps in its place, the
\* new pages come after it, each once and all of them known from now on.
Extended(q, known, hrefs, o) ==
    /\ o.queue \in Seq(Urls) /\ known \subseteq o.known
    /\ \A n \in DOMAIN hrefs :
          Normal[hrefs[n]] # None /\ Origin[Normal[hrefs[n]]] \in Origins
            => Normal[hrefs[n]] \in o.known
    /\ \A u \in o.known : u \in known \/ \E k \in DOMAIN o.queue : o.queue[k] = u
    /\ \A k \in DOMAIN q : k \in DOMAIN o.queue /\ o.queue[k] = q[k]
    /\ \A k \in DOMAIN o.queue :
          \/ k \in DOMAIN q
          \/ o.queue[k] \in o.known \ known /\ Origin[o.queue[k]] \in Origins
    /\ (/\ \A k \in DOMAIN q : q[k] \in known
        /\ \A k, l \in DOMAIN q : k # l => q[k] # q[l])
          => \A k, l \in DOMAIN o.queue : k # l => o.queue[k] # o.queue[l]

\* So what waits stays without repetition and within the origins.
LEMMA OfferedFacts ==
    ASSUME NEW q \in Seq(Urls), NEW known, NEW hrefs \in Seq(Hrefs)
    PROVE  Extended(q, known, hrefs, Offered(q, known, hrefs))
  <1> DEFINE F == Fresh(known, hrefs)
             N == Cardinality(F)
             o == Offered(q, known, hrefs)
             L == Len(q)
  <1>1. /\ N \in Nat
        /\ o.known = known \cup {Normal[hrefs[n]] : n \in F}
        /\ o.queue \in Seq(Urls) /\ Len(o.queue) = L + N
        /\ \A k \in 1..L : o.queue[k] = q[k]
        /\ \A k \in 1..N : o.queue[L + k] = Normal[hrefs[Nth(F, k)]]
        /\ \A k \in 1..N : Nth(F, k) \in F
        /\ \A k, l \in 1..N : k < l => Nth(F, k) < Nth(F, l)
        /\ \A i \in F : \E k \in 1..N : Nth(F, k) = i
    BY OfferedIs
  <1>f. \A n \in F : /\ n \in DOMAIN hrefs /\ n \in Nat
                     /\ Normal[hrefs[n]] # None /\ Normal[hrefs[n]] \notin known
                     /\ Origin[Normal[hrefs[n]]] \in Origins
                     /\ \A m \in 1..(n - 1) : Normal[hrefs[m]] # Normal[hrefs[n]]
    BY DEF Fresh
  <1> HIDE DEF o
  <1>L. L \in Nat /\ DOMAIN q = 1..L /\ DOMAIN o.queue = 1..(L + N)
    BY <1>1
  <1>2. ASSUME NEW n \in DOMAIN hrefs, Normal[hrefs[n]] # None,
               Origin[Normal[hrefs[n]]] \in Origins
        PROVE  Normal[hrefs[n]] \in o.known
    <2> DEFINE T == {m \in DOMAIN hrefs : Normal[hrefs[m]] = Normal[hrefs[n]]}
    <2>1. T \subseteq Nat /\ T # {}
      OBVIOUS
    <2>2. PICK m \in T : \A l \in T : m <= l
      <3> HIDE DEF T
      <3> QED
        BY <2>1, LeastNat
    <2>3. m \in DOMAIN hrefs /\ Normal[hrefs[m]] = Normal[hrefs[n]]
      BY <2>2
    <2>4. \A l \in 1..(m - 1) : Normal[hrefs[l]] # Normal[hrefs[m]]
      <3> SUFFICES ASSUME NEW l \in 1..(m - 1), Normal[hrefs[l]] = Normal[hrefs[m]]
                   PROVE  FALSE
        OBVIOUS
      <3>1. l \in DOMAIN hrefs /\ m \in Nat /\ l \in Nat /\ l < m
        BY <2>3
      <3>2. l \in T
        BY <3>1, <2>3
      <3>3. m <= l
        BY <3>2, <2>2
      <3>4. QED
        BY <3>1, <3>3
    <2>5. Normal[hrefs[m]] \in known \/ m \in F
      BY <1>2, <2>3, <2>4 DEF Fresh
    <2>6. QED
      BY <2>3, <2>5, <1>1
  <1> HIDE DEF F, N
  <1>3. ASSUME NEW u \in o.known, u \notin known
        PROVE  \E k \in DOMAIN o.queue : o.queue[k] = u
    <2>1. PICK n \in F : u = Normal[hrefs[n]]
      BY <1>1, <1>3
    <2>2. PICK k \in 1..N : Nth(F, k) = n
      BY <1>1
    <2>3. o.queue[L + k] = u
      BY <1>1, <2>1, <2>2
    <2>4. L + k \in DOMAIN o.queue
      BY <1>L, <1>1
    <2>5. QED
      BY <2>3, <2>4
  <1>4. ASSUME NEW k \in DOMAIN q PROVE k \in DOMAIN o.queue /\ o.queue[k] = q[k]
    BY <1>1, <1>L
  <1>5. ASSUME NEW k \in DOMAIN o.queue, k \notin DOMAIN q
        PROVE  /\ k - L \in 1..N /\ Nth(F, k - L) \in F
               /\ o.queue[k] = Normal[hrefs[Nth(F, k - L)]]
    <2>1. k - L \in 1..N /\ L + (k - L) = k
      BY <1>5, <1>L, <1>1
    <2>2. o.queue[L + (k - L)] = Normal[hrefs[Nth(F, k - L)]] /\ Nth(F, k - L) \in F
      BY <2>1, <1>1
    <2>3. QED
      BY <2>1, <2>2
  <1>6. ASSUME NEW k \in DOMAIN o.queue, k \notin DOMAIN q
        PROVE  o.queue[k] \in o.known \ known /\ Origin[o.queue[k]] \in Origins
    <2>1. PICK n \in F : o.queue[k] = Normal[hrefs[n]]
      BY <1>5, <1>6
    <2>2. o.queue[k] \in o.known
      BY <1>1, <2>1
    <2>3. o.queue[k] \notin known /\ Origin[o.queue[k]] \in Origins
      BY <1>f, <2>1
    <2>4. QED
      BY <2>2, <2>3
  <1>7. ASSUME \A k \in DOMAIN q : q[k] \in known,
               \A k, l \in DOMAIN q : k # l => q[k] # q[l],
               NEW k \in DOMAIN o.queue, NEW l \in DOMAIN o.queue, k < l
        PROVE  o.queue[k] # o.queue[l]
    <2>0. k \in Nat /\ l \in Nat /\ (l \in DOMAIN q => k \in DOMAIN q)
      BY <1>L, <1>1, <1>7
    <2>1. CASE l \in DOMAIN q
      BY <2>1, <2>0, <1>4, <1>7
    <2>2. CASE l \notin DOMAIN q /\ k \in DOMAIN q
      BY <2>2, <1>4, <1>6, <1>7
    <2>3. CASE l \notin DOMAIN q /\ k \notin DOMAIN q
      <3>1. /\ k - L \in 1..N /\ l - L \in 1..N /\ k - L < l - L
            /\ o.queue[k] = Normal[hrefs[Nth(F, k - L)]]
            /\ o.queue[l] = Normal[hrefs[Nth(F, l - L)]]
        BY <2>3, <1>5, <2>0, <1>L, <1>7
      <3>2. Nth(F, k - L) \in F /\ Nth(F, l - L) \in F /\ Nth(F, k - L) < Nth(F, l - L)
        BY <3>1, <1>1
      <3>3. Nth(F, k - L) \in 1..(Nth(F, l - L) - 1)
        BY <3>2, <1>f
      <3>4. QED
        BY <3>1, <3>2, <3>3, <1>f
    <2>4. QED
      BY <2>1, <2>2, <2>3
  <1>8. ASSUME \A k \in DOMAIN q : q[k] \in known,
               \A k, l \in DOMAIN q : k # l => q[k] # q[l],
               NEW k \in DOMAIN o.queue, NEW l \in DOMAIN o.queue, k # l
        PROVE  o.queue[k] # o.queue[l]
    <2>1. k \in Int /\ l \in Int
      BY <1>L, <1>1
    <2>2. CASE k < l
      BY <2>2, <1>7, <1>8
    <2>3. CASE l < k
      BY <2>3, <1>7, <1>8
    <2>4. QED
      BY <2>1, <2>2, <2>3, <1>8
  <1>9. QED
    BY <1>1, <1>2, <1>3, <1>4, <1>6, <1>8 DEF o, Extended

----------------------------------------------------------------------------
\* Where a page that is known may be, and what is sent of a visit.
Waiting == {queue[k] : k \in DOMAIN queue}
Visiting == IF pc = "visit" THEN {current} ELSE {}
PageVisit == [url : Urls, began : Nat, made : 0..PerPage, charged : 0..PerPage,
              links : Seq(Hrefs)]

\* The types that the steps below need.
CrawlTypes ==
    /\ pc \in {"launch", "next", "visit", "done"}
    /\ budget \in [pages : Nat, requests : Nat, seconds : Nat]
    /\ queue \in Seq(Urls) /\ sent \in Seq(PageVisit)
    /\ visited \in Nat /\ noted \in Nat /\ seconds \in Nat /\ since \in Nat
    /\ pc = "visit" => current \in Urls
    /\ pc # "done" => run.status = "running"

\* Every page is in one place: waiting, being visited, or visited once.
PagesInv ==
    /\ \A m, n \in DOMAIN queue : m # n => queue[m] # queue[n]
    /\ \A n \in DOMAIN sent : \A m \in 1..(n - 1) : sent[m].url # sent[n].url
    /\ Waiting \cap Visited = {} /\ Visiting \cap (Waiting \cup Visited) = {}
    /\ \A u \in Waiting \cup Visiting \cup Visited : u \in seen /\ Origin[u] \in Origins

\* What is left of the budgets, before a page and during one.
SpendingInv ==
    /\ noted = ChargedFor(sent)
    /\ Len(sent) <= visited /\ visited <= budget.pages
    /\ pc = "visit" => Len(sent) < visited /\ noted < budget.requests /\ since < budget.seconds
    /\ \A n \in DOMAIN sent : sent[n].began < budget.seconds
    /\ Len(sent) > 0 => ChargedFor(SubSeq(sent, 1, Len(sent) - 1)) < budget.requests

\* Nothing wanted is unknown to the frontier, nothing known lost by it.
ClosedInv ==
    /\ Wanted \subseteq seen
    /\ pc # "done" => seen \subseteq Waiting \cup Visiting \cup Visited
    /\ CompleteMeansClosed

\* The inductive invariant of the crawl.
CrawlInv == CrawlTypes /\ PagesInv /\ SpendingInv /\ ClosedInv

\* The charges of the pages and of one more.
LEMMA ChargesAdd ==
    ASSUME NEW pages \in Seq(PageVisit), NEW v \in PageVisit
    PROVE  /\ ChargedFor(pages) \in Nat
           /\ ChargedFor(Append(pages, v)) = ChargedFor(pages) + v.charged
           /\ SubSeq(Append(pages, v), 1, Len(Append(pages, v)) - 1) = pages
  <1> DEFINE L == Len(pages)
             more == Append(pages, v)
             A(s) == {w \in (DOMAIN s) \X (1..PerPage) : w[2] <= s[w[1]].charged}
             B == {w \in {L + 1} \X (1..PerPage) : w[2] <= v.charged}
  <1>1. L \in Nat /\ PerPage \in Nat /\ v.charged \in 0..PerPage
    BY CrawlAssumptions DEF PageVisit
  <1>2. IsFiniteSet(A(pages)) /\ Cardinality(A(pages)) \in Nat
    <2>1. IsFiniteSet(DOMAIN pages) /\ IsFiniteSet(1..PerPage)
      BY <1>1, FS_Interval
    <2>2. IsFiniteSet((DOMAIN pages) \X (1..PerPage))
      BY <2>1, FS_Product
    <2>3. A(pages) \in SUBSET ((DOMAIN pages) \X (1..PerPage))
      OBVIOUS
    <2> HIDE DEF A
    <2>4. QED
      BY <2>2, <2>3, FS_Subset, FS_CardinalityType
  <1>3. IsFiniteSet(B) /\ Cardinality(B) = v.charged
    <2> DEFINE f == [k \in 1..v.charged |-> <<L + 1, k>>]
    <2>1. f \in Bijection(1..v.charged, B)
      <3>1. \A k \in 1..v.charged : f[k] \in B
        BY <1>1
      <3>2. \A k, l \in 1..v.charged : f[k] = f[l] => k = l
        OBVIOUS
      <3>3. ASSUME NEW w \in B PROVE \E k \in 1..v.charged : f[k] = w
        <4>1. w[2] \in 1..v.charged /\ w = <<L + 1, w[2]>>
          BY <1>1
        <4>2. f[w[2]] = w
          BY <4>1
        <4>3. QED
          BY <4>1, <4>2
      <3> HIDE DEF B
      <3>4. f \in [1..v.charged -> B]
        BY <3>1
      <3> HIDE DEF f
      <3>5. QED
        BY <3>2, <3>3, <3>4 DEF Bijection, Injection, Surjection, IsInjective
    <2>2. ExistsBijection(1..v.charged, B)
      <3> HIDE DEF f, B
      <3> QED
        BY <2>1 DEF ExistsBijection
    <2>3. IsFiniteSet(1..v.charged) /\ Cardinality(1..v.charged) = v.charged
      <3>1. v.charged \in Nat /\ v.charged \in Int /\ 1 \in Int
        BY <1>1
      <3>2. /\ IsFiniteSet(1..v.charged)
            /\ Cardinality(1..v.charged)
                 = IF 1 > v.charged THEN 0 ELSE v.charged - 1 + 1
        BY <3>1, FS_Interval
      <3>3. QED
        BY <3>1, <3>2
    <2> HIDE DEF B
    <2>4. QED
      BY <2>2, <2>3, FS_Bijection
  <1>4. A(more) = A(pages) \cup B
    <2>1. DOMAIN more = (DOMAIN pages) \cup {L + 1} /\ more[L + 1] = v
          /\ \A n \in DOMAIN pages : more[n] = pages[n]
      OBVIOUS
    <2> HIDE DEF more
    <2>2. QED
      BY <2>1
  <1>5. A(pages) \cap B = {}
    BY <1>1
  <1>6. Cardinality(A(more)) = Cardinality(A(pages)) + v.charged
    <2> HIDE DEF A, B, more
    <2>1. /\ Cardinality(A(pages) \cup B)
             = Cardinality(A(pages)) + Cardinality(B) - Cardinality(A(pages) \cap B)
      BY <1>2, <1>3, FS_Union
    <2>2. Cardinality(A(pages) \cap B) = 0
      BY <1>5, FS_EmptySet
    <2>3. QED
      BY <2>1, <2>2, <1>2, <1>3, <1>4, <1>1
  <1>7. SubSeq(more, 1, Len(more) - 1) = pages
    OBVIOUS
  <1>8. QED
    BY <1>2, <1>6, <1>7 DEF ChargedFor

\* Only the seeds wait, and nothing has been spent.
LEMMA CrawlInitInv == CrawlInit => CrawlInv
  <1> SUFFICES ASSUME CrawlInit PROVE CrawlInv
    OBVIOUS
  <1> DEFINE o == Offered(<<>>, {}, Seeds)
  <1>1. queue = o.queue /\ seen = o.known /\ sent = <<>> /\ visited = 0 /\ noted = 0
        /\ seconds = 0 /\ since = 0
        /\ pc = "launch" /\ run = [status |-> "running", why |-> "none"]
        /\ budget \in [pages : 1..MostPages, requests : 1..MostRequests, seconds : {MostSeconds}]
    BY DEF CrawlInit
  <1>2. <<>> \in Seq(Urls) /\ DOMAIN <<>> = {} /\ Seeds \in Seq(Hrefs)
    BY CrawlAssumptions
  <1>3. /\ o.queue \in Seq(Urls)
        /\ \A n \in DOMAIN Seeds :
              Normal[Seeds[n]] # None /\ Origin[Normal[Seeds[n]]] \in Origins
                => Normal[Seeds[n]] \in o.known
        /\ \A u \in o.known : \E k \in DOMAIN o.queue : o.queue[k] = u
        /\ \A k \in DOMAIN o.queue : o.queue[k] \in o.known /\ Origin[o.queue[k]] \in Origins
        /\ \A k, l \in DOMAIN o.queue : k # l => o.queue[k] # o.queue[l]
    <2> HIDE DEF o
    <2>1. Extended(<<>>, {}, Seeds, o)
      BY <1>2, OfferedFacts DEF o
    <2>2. QED
      BY <2>1, <1>2 DEF Extended
  <1> HIDE DEF o
  <1>4. budget \in [pages : Nat, requests : Nat, seconds : Nat] /\ 0 <= budget.pages
    <2>1. MostPages \in Nat /\ MostRequests \in Nat /\ MostSeconds \in Nat
      BY CrawlAssumptions
    <2>2. QED
      BY <1>1, <2>1
  <1>5. CrawlTypes
    BY <1>1, <1>3, <1>4 DEF CrawlTypes
  <1>6. Visited = {} /\ Visiting = {} /\ Linked = {} /\ DOMAIN sent = {}
    BY <1>1 DEF Visited, Visiting, Linked
  <1>7. PagesInv
    BY <1>1, <1>3, <1>6 DEF PagesInv, Waiting
  <1>8. SpendingInv
    <2>1. {w \in (DOMAIN sent) \X (1..PerPage) : w[2] <= sent[w[1]].charged} = {}
      BY <1>6
    <2>2. ChargedFor(sent) = 0
      BY <2>1, FS_EmptySet DEF ChargedFor
    <2>3. QED
      BY <2>2, <1>1, <1>4 DEF SpendingInv
  <1>9. ClosedInv
    <2>1. Wanted \subseteq seen
      BY <1>1, <1>3, <1>6 DEF Wanted, Given
    <2>2. seen \subseteq Waiting
      BY <1>1, <1>3 DEF Waiting
    <2>3. QED
      BY <2>1, <2>2, <1>1 DEF ClosedInv, CompleteMeansClosed
  <1>10. QED
    BY <1>5, <1>7, <1>8, <1>9 DEF CrawlInv

\* Steps that move no page.
LEMMA StandStep ==
    ASSUME CrawlInv, Launch \/ LaunchFails \/ Stop \/ VisitRaises \/ TimePasses \/ UNCHANGED crawlVars
    PROVE  CrawlInv'
  <1> USE DEF frontierVars, visitVars, crawlVars
  <1>1. /\ UNCHANGED <<budget, queue, seen, visited, noted, sent, current, since>>
        /\ pc' = "visit" => pc = "visit"
        /\ pc' # "done" => run' = run
        /\ pc' \in {"launch", "next", "visit", "done"}
        /\ seconds' \in Nat
    BY DEF Launch, LaunchFails, Fail, Stop, VisitRaises, TimePasses, CrawlInv, CrawlTypes
  <1>2. /\ pc' # "done" => pc # "done" /\ (pc' = "visit" <=> pc = "visit")
    BY DEF Launch, LaunchFails, Fail, Stop, VisitRaises, TimePasses, CrawlInv, CrawlTypes
  <1>3. /\ Waiting' = Waiting /\ Visited' = Visited /\ Visiting' \subseteq Visiting
        /\ pc' # "done" => Visiting' = Visiting
    BY <1>1, <1>2 DEF Waiting, Visited, Visiting
  <1>4. Wanted' = Wanted /\ ChargedFor(sent)' = ChargedFor(sent)
    BY <1>1 DEF Wanted, Linked, ChargedFor
  <1>5. CrawlTypes'
    BY <1>1, <1>2 DEF CrawlInv, CrawlTypes
  <1>6. PagesInv'
    BY <1>1, <1>3 DEF CrawlInv, PagesInv
  <1>7. SpendingInv'
    BY <1>1, <1>4 DEF CrawlInv, SpendingInv
  <1>8. CompleteMeansClosed'
    <2>1. CASE Launch \/ TimePasses
      BY <2>1, <1>1, <1>2 DEF CrawlInv, CrawlTypes, Launch, TimePasses, CompleteMeansClosed
    <2>2. CASE LaunchFails \/ VisitRaises
      BY <2>2 DEF LaunchFails, VisitRaises, Fail, CompleteMeansClosed
    <2>3. CASE UNCHANGED crawlVars
      BY <2>3, <1>3, <1>4 DEF CrawlInv, ClosedInv, CompleteMeansClosed
    <2>4. CASE Stop
      <3>1. /\ pc = "next" /\ (Spent # "none" \/ queue = <<>>)
            /\ run' = [status |-> "completed", why |-> Spent]
        BY <2>4 DEF Stop
      <3>2. SUFFICES ASSUME Spent = "none" PROVE Wanted \subseteq Visited
        BY <3>1, <1>3, <1>4 DEF CompleteMeansClosed
      <3>3. Waiting = {} /\ Visiting = {}
        BY <3>1, <3>2 DEF Waiting, Visiting
      <3>4. QED
        BY <3>1, <3>3 DEF CrawlInv, ClosedInv
    <2>5. QED
      BY <2>1, <2>2, <2>3, <2>4
  <1>9. ClosedInv'
    BY <1>1, <1>2, <1>3, <1>4, <1>8 DEF CrawlInv, ClosedInv
  <1>10. QED
    BY <1>5, <1>6, <1>7, <1>9 DEF CrawlInv

\* What is taken leaves the queue for the visit.
LEMMA TakeStep ==
    ASSUME CrawlInv, Take
    PROVE  CrawlInv'
  <1>1. /\ pc = "next" /\ Spent = "none" /\ queue # <<>> /\ visited' = visited + 1
        /\ current' = Head(queue) /\ queue' = Tail(queue) /\ pc' = "visit"
        /\ since' = seconds
        /\ UNCHANGED <<budget, seen, noted, exhausted, seconds, counts, sent, run>>
    BY DEF Take
  <1>2. /\ queue \in Seq(Urls) /\ Len(queue) \in Nat /\ Len(queue) # 0
        /\ DOMAIN queue = 1..Len(queue) /\ visited \in Nat /\ noted \in Nat
        /\ seconds \in Nat
        /\ budget \in [pages : Nat, requests : Nat, seconds : Nat]
    BY <1>1 DEF CrawlInv, CrawlTypes
  <1>3. /\ queue' \in Seq(Urls) /\ DOMAIN queue' = 1..(Len(queue) - 1)
        /\ \A k \in DOMAIN queue' : queue'[k] = queue[k + 1] /\ k + 1 \in DOMAIN queue
        /\ current' = queue[1] /\ 1 \in DOMAIN queue
    BY <1>1, <1>2
  <1>4. Waiting = Waiting' \cup {current'}
    <2>1. \A k \in DOMAIN queue : k = 1 \/ (k - 1 \in DOMAIN queue' /\ queue'[k - 1] = queue[k])
      <3> SUFFICES ASSUME NEW k \in DOMAIN queue, k # 1
                   PROVE  k - 1 \in DOMAIN queue' /\ queue'[k - 1] = queue[k]
        OBVIOUS
      <3>1. k - 1 \in 1..(Len(queue) - 1) /\ (k - 1) + 1 = k
        BY <1>2
      <3>2. QED
        BY <3>1, <1>3
    <2>2. QED
      BY <2>1, <1>3 DEF Waiting
  <1>5. Visited' = Visited /\ Visiting' = {current'} /\ Visiting = {}
    BY <1>1 DEF Visited, Visiting
  <1>6. /\ \A m, n \in DOMAIN queue' : m # n => queue'[m] # queue'[n]
        /\ current' \notin Waiting'
    <2>1. \A m, n \in DOMAIN queue : m # n => queue[m] # queue[n]
      BY DEF CrawlInv, PagesInv
    <2>2. \A m \in DOMAIN queue' : m \in Nat /\ m + 1 # 1
      BY <1>3, <1>2
    <2>3. \A m, n \in DOMAIN queue' : m # n => m + 1 # n + 1
      BY <2>2
    <2>4. QED
      BY <2>1, <2>2, <2>3, <1>3 DEF Waiting
  <1>7. CrawlTypes'
    BY <1>1, <1>2, <1>3 DEF CrawlInv, CrawlTypes
  <1>8. PagesInv'
    <2>1. Visiting' \cap Visited' = {} /\ Waiting' \cap Visited' = {}
      BY <1>4, <1>5 DEF CrawlInv, PagesInv
    <2>2. \A u \in Waiting' \cup Visiting' \cup Visited' : u \in seen' /\ Origin[u] \in Origins
      BY <1>1, <1>4, <1>5 DEF CrawlInv, PagesInv
    <2>3. \A n \in DOMAIN sent' : \A m \in 1..(n - 1) : sent'[m].url # sent'[n].url
      BY <1>1 DEF CrawlInv, PagesInv
    <2>4. QED
      BY <2>1, <2>2, <2>3, <1>5, <1>6 DEF PagesInv
  <1>9. SpendingInv'
    <2>1. visited < budget.pages /\ noted < budget.requests /\ seconds < budget.seconds
      BY <1>1, <1>2 DEF Spent, SpentOf
    <2>2. ChargedFor(sent)' = ChargedFor(sent)
      BY <1>1 DEF ChargedFor
    <2>3. Len(sent) \in Nat
      BY DEF CrawlInv, CrawlTypes
    <2>4. QED
      BY <2>1, <2>2, <2>3, <1>1, <1>2 DEF CrawlInv, SpendingInv
  <1>10. ClosedInv'
    <2>1. Wanted' = Wanted
      BY <1>1 DEF Wanted, Linked
    <2>2. seen' \subseteq Waiting' \cup Visiting' \cup Visited'
      BY <1>1, <1>4, <1>5 DEF CrawlInv, ClosedInv
    <2>3. CompleteMeansClosed'
      BY <1>1 DEF CrawlInv, CrawlTypes, CompleteMeansClosed
    <2>4. QED
      BY <2>1, <2>2, <2>3, <1>1 DEF CrawlInv, ClosedInv
  <1>11. QED
    BY <1>7, <1>8, <1>9, <1>10 DEF CrawlInv

\* A page is done with, and what it links to is offered.
LEMMA VisitStep ==
    ASSUME CrawlInv, Visit
    PROVE  CrawlInv'
  <1>1. PICK e \in {e \in Events : Possible(e)} :
            /\ noted' = noted + e.requests
            /\ sent' = Append(sent, [url |-> current, began |-> since, made |-> e.made,
                                     charged |-> e.requests, links |-> e.links])
            /\ queue' = Offered(queue, seen, e.links).queue
            /\ seen' = Offered(queue, seen, e.links).known
    BY DEF Visit
  <1>2. pc = "visit" /\ pc' = "next" /\ UNCHANGED <<budget, visited, exhausted, seconds, since, run>>
    BY DEF Visit
  <1> DEFINE v == [url |-> current, began |-> since, made |-> e.made,
                   charged |-> e.requests, links |-> e.links]
             L == Len(sent)
  <1>3. /\ queue \in Seq(Urls) /\ sent \in Seq(PageVisit) /\ current \in Urls
        /\ visited \in Nat /\ noted \in Nat /\ seconds \in Nat /\ since \in Nat
        /\ budget \in [pages : Nat, requests : Nat, seconds : Nat]
    BY <1>2 DEF CrawlInv, CrawlTypes
  <1>4. /\ e.made \in 0..PerPage /\ e.requests \in 0..PerPage /\ e.requests \in Nat
        /\ e.links \in Seq(Hrefs)
    <2>1. e.made \in 0..PerPage /\ e.requests \in 0..PerPage /\ e.links \in {<<>>, LinksOn[current]}
      BY DEF Events
    <2>2. LinksOn[current] \in Seq(Hrefs) /\ PerPage \in Nat
      BY <1>3, CrawlAssumptions
    <2>3. e.requests \in Nat
      BY <2>1, <2>2
    <2>4. <<>> \in Seq(Hrefs)
      OBVIOUS
    <2>5. e.links \in Seq(Hrefs)
      BY <2>1, <2>2, <2>4
    <2>6. QED
      BY <2>1, <2>3, <2>5
  <1>5. v \in PageVisit
    BY <1>3, <1>4 DEF PageVisit
  <1>6. Extended(queue, seen, e.links, [queue |-> queue', known |-> seen'])
    <2> DEFINE o == Offered(queue, seen, e.links)
    <2>1. Extended(queue, seen, e.links, o)
      BY <1>3, <1>4, OfferedFacts
    <2>2. o.queue = queue' /\ o.known = seen'
      BY <1>1
    <2> HIDE DEF o
    <2>3. QED
      BY <2>1, <2>2 DEF Extended
  <1>7. /\ queue' \in Seq(Urls) /\ seen \subseteq seen'
        /\ \A n \in DOMAIN e.links :
              Normal[e.links[n]] # None /\ Origin[Normal[e.links[n]]] \in Origins
                => Normal[e.links[n]] \in seen'
        /\ \A u \in seen' : u \in seen \/ \E k \in DOMAIN queue' : queue'[k] = u
        /\ \A k \in DOMAIN queue : k \in DOMAIN queue' /\ queue'[k] = queue[k]
        /\ \A k \in DOMAIN queue' :
              \/ k \in DOMAIN queue
              \/ queue'[k] \in seen' \ seen /\ Origin[queue'[k]] \in Origins
        /\ (/\ \A k \in DOMAIN queue : queue[k] \in seen
            /\ \A k, l \in DOMAIN queue : k # l => queue[k] # queue[l])
              => \A k, l \in DOMAIN queue' : k # l => queue'[k] # queue'[l]
    BY <1>6 DEF Extended
  <1>8. /\ sent' \in Seq(PageVisit) /\ Len(sent') = L + 1 /\ L \in Nat
        /\ DOMAIN sent' = (DOMAIN sent) \cup {L + 1} /\ DOMAIN sent = 1..L
        /\ sent'[L + 1] = v /\ \A n \in DOMAIN sent : sent'[n] = sent[n]
    BY <1>1, <1>3, <1>5
  <1>9. /\ Visited' = Visited \cup {current} /\ Visiting = {current} /\ Visiting' = {}
    BY <1>2, <1>8 DEF Visited, Visiting
  <1>10. /\ Waiting \subseteq Waiting'
         /\ \A u \in Waiting' : u \in Waiting \/ (u \in seen' \ seen /\ Origin[u] \in Origins)
    BY <1>7 DEF Waiting
  <1>11. \A u \in Waiting \cup Visiting \cup Visited : u \in seen /\ Origin[u] \in Origins
    BY DEF CrawlInv, PagesInv
  <1>12. CrawlTypes'
    BY SMTT(30), <1>1, <1>2, <1>3, <1>4, <1>7, <1>8 DEF CrawlInv, CrawlTypes
  <1>13. PagesInv'
    <2>1. \A k, l \in DOMAIN queue' : k # l => queue'[k] # queue'[l]
      BY <1>7, <1>11 DEF CrawlInv, PagesInv, Waiting
    <2>2. ASSUME NEW n \in DOMAIN sent', NEW m \in 1..(n - 1)
          PROVE  sent'[m].url # sent'[n].url
      <3>1. CASE n \in DOMAIN sent
        <4>1. m \in DOMAIN sent
          BY <3>1, <1>8
        <4>2. QED
          BY <4>1, <3>1, <1>8 DEF CrawlInv, PagesInv
      <3>2. CASE n = L + 1
        <4>1. m \in DOMAIN sent
          BY <3>2, <1>8
        <4>2. sent[m].url \in Visited /\ current \notin Visited
          BY <4>1, <1>9 DEF CrawlInv, PagesInv, Visited
        <4>3. QED
          BY <4>1, <4>2, <3>2, <1>8
      <3>3. QED
        BY <3>1, <3>2, <1>8
    <2>3. Waiting' \cap Visited' = {}
      BY <1>9, <1>10, <1>11 DEF CrawlInv, PagesInv
    <2>4. \A u \in Waiting' \cup Visiting' \cup Visited' : u \in seen' /\ Origin[u] \in Origins
      BY <1>7, <1>9, <1>10, <1>11
    <2>5. QED
      BY <2>1, <2>2, <2>3, <2>4, <1>9 DEF PagesInv
  <1>14. SpendingInv'
    <2>1. /\ ChargedFor(sent) \in Nat /\ ChargedFor(sent') = ChargedFor(sent) + e.requests
          /\ SubSeq(sent', 1, Len(sent') - 1) = sent
      BY <1>1, <1>3, <1>5, ChargesAdd
    <2>2. noted' = ChargedFor(sent')
      BY <2>1, <1>1 DEF CrawlInv, SpendingInv
    <2>3. L + 1 <= visited' /\ visited' <= budget'.pages /\ noted < budget'.requests
      BY <1>2, <1>3, <1>8 DEF CrawlInv, SpendingInv
    <2>4. ChargedFor(SubSeq(sent', 1, Len(sent') - 1)) < budget'.requests
      BY <2>1, <2>3 DEF CrawlInv, SpendingInv
    <2>5. \A n \in DOMAIN sent' : sent'[n].began < budget'.seconds
      BY <1>2, <1>8 DEF CrawlInv, SpendingInv
    <2>6. QED
      BY <2>2, <2>3, <2>4, <2>5, <1>2, <1>8 DEF SpendingInv
  <1>15. ClosedInv'
    <2>1. Linked' = Linked \cup {Normal[e.links[k]] : k \in DOMAIN e.links}
      <3>1. \A n \in DOMAIN sent' : \/ n \in DOMAIN sent /\ sent'[n].links = sent[n].links
                                    \/ n = L + 1 /\ sent'[n].links = e.links
        BY <1>8
      <3>2. L + 1 \in DOMAIN sent' /\ sent'[L + 1].links = e.links
        BY <1>8
      <3>3. \A n \in DOMAIN sent : n \in DOMAIN sent' /\ sent'[n].links = sent[n].links
        BY <1>8
      <3>4. QED
        BY <3>1, <3>2, <3>3 DEF Linked
    <2>2. Wanted' \subseteq seen'
      BY <2>1, <1>7 DEF CrawlInv, ClosedInv, Wanted
    <2>3. seen' \subseteq Waiting' \cup Visiting' \cup Visited'
      <3>1. seen \subseteq Waiting \cup Visiting \cup Visited
        BY <1>2 DEF CrawlInv, ClosedInv
      <3>2. \A u \in seen' : u \in seen \/ u \in Waiting'
        BY <1>7 DEF Waiting
      <3>3. QED
        BY <3>1, <3>2, <1>9, <1>10
    <2>4. CompleteMeansClosed'
      BY <1>2 DEF CrawlInv, CrawlTypes, CompleteMeansClosed
    <2>5. QED
      BY <2>2, <2>3, <2>4 DEF ClosedInv
  <1>16. QED
    BY <1>12, <1>13, <1>14, <1>15 DEF CrawlInv

\* Every step of the crawl keeps it.
LEMMA CrawlStep == CrawlInv /\ [CrawlNext]_crawlVars => CrawlInv'
  BY StandStep, TakeStep, VisitStep DEF CrawlNext, TheCrawl

\* So it holds always, for every site.
LEMMA CrawlInvAlways == CrawlSpec => []CrawlInv
  BY CrawlInitInv, CrawlStep, PTL DEF CrawlSpec

\* As hx charges them, a crawl stays within its budgets of pages, of requests
\* and of time: no page is begun once one of them is spent, every page is of a
\* seeded origin and none is visited twice, whatever its pages link to, the
\* browser reports and its events are lost or late (Frontier.next, offer).
THEOREM BudgetStands == CrawlSpec => []BudgetHolds
  <1>1. CrawlInv => BudgetHolds
    <2> SUFFICES ASSUME CrawlInv PROVE BudgetHolds
      OBVIOUS
    <2>1. /\ Len(sent) <= budget.pages
          /\ pc = "visit" => Len(sent) < budget.pages
      <3>1. Len(sent) \in Nat /\ visited \in Nat /\ budget.pages \in Nat
        BY DEF CrawlInv, CrawlTypes
      <3>2. QED
        BY <3>1 DEF CrawlInv, SpendingInv
    <2>2. /\ pc = "visit" => since < budget.seconds /\ ChargedFor(sent) < budget.requests
          /\ Len(sent) > 0 => ChargedFor(SubSeq(sent, 1, Len(sent) - 1)) < budget.requests
      BY DEF CrawlInv, SpendingInv
    <2>3. \A n \in DOMAIN sent : sent[n].began < budget.seconds /\ Origin[sent[n].url] \in Origins
      BY DEF CrawlInv, SpendingInv, PagesInv, Visited
    <2>4. QED
      BY <2>1, <2>2, <2>3 DEF CrawlInv, PagesInv, BudgetHolds
  <1>2. QED
    BY <1>1, CrawlInvAlways, PTL

\* A crawl that completed and names no budget has visited every page of its
\* origins that it was given or that a visited page linked to (crawl.run.crawl,
\* Frontier.exhausted).
THEOREM ClosedStands == CrawlSpec => []CompleteMeansClosed
  <1>1. CrawlInv => CompleteMeansClosed
    BY DEF CrawlInv, ClosedInv
  <1>2. QED
    BY <1>1, CrawlInvAlways, PTL

(***************************************************************************)
(* That it ends.                                                            *)
(***************************************************************************)
Stage == CASE pc = "launch" -> 2
           [] pc = "visit"  -> 2
           [] pc = "next"   -> 1
           [] OTHER         -> 0

\* The most steps the crawl can still take, apart from time passing.
StepsLeft == 2 * (budget.pages - visited) + Stage

\* A step of the crawl uses one of them up; the clock's uses none.
Fewer == StepsLeft' < StepsLeft
NoFewer == StepsLeft' = StepsLeft
ComesNearer == Fewer \/ (TimePasses /\ NoFewer)

WithinBudget ==
    /\ visited \in Nat /\ budget.pages \in Nat /\ visited =< budget.pages
    /\ pc \in {"launch", "next", "visit", "done"}

LEMMA StepsAreCounted ==
    /\ WithinBudget => StepsLeft \in Nat
    /\ WithinBudget /\ [CrawlNext]_crawlVars =>
          /\ WithinBudget'
          /\ [ComesNearer]_crawlVars
  <1>1. pc \in {"launch", "next", "visit", "done"} => Stage \in 0..2
    BY DEF Stage
  <1>2. ASSUME WithinBudget PROVE StepsLeft \in Nat
    <2>1. Stage \in Nat
      BY <1>1, <1>2 DEF WithinBudget
    <2>2. QED
      BY <1>2, <2>1 DEF WithinBudget, StepsLeft
  <1>3. ASSUME WithinBudget, Launch \/ LaunchFails \/ Visit \/ VisitRaises \/ Stop
        PROVE  WithinBudget' /\ Fewer
    <2>1. /\ UNCHANGED <<budget, visited>>
          /\ pc' \in {"next", "done"} /\ Stage' < Stage
      BY <1>3 DEF Launch, LaunchFails, Visit, VisitRaises, Stop, Fail, frontierVars, Stage
    <2>2. Stage \in 0..2 /\ Stage' \in 0..2
      BY <1>1, <1>3, <2>1 DEF WithinBudget, Stage
    <2>3. QED
      BY <1>3, <2>1, <2>2 DEF WithinBudget, StepsLeft, Fewer
  <1>4. ASSUME WithinBudget, Take
        PROVE  WithinBudget' /\ Fewer
    <2>1. visited < budget.pages
      BY <1>4 DEF Take, Spent, SpentOf, WithinBudget
    <2>2. /\ UNCHANGED budget /\ visited' = visited + 1
          /\ pc' = "visit" /\ Stage = 1 /\ Stage' = 2
      BY <1>4 DEF Take, Stage
    <2>3. QED
      BY <1>4, <2>1, <2>2 DEF WithinBudget, StepsLeft, Fewer
  <1>5. ASSUME WithinBudget, TimePasses \/ UNCHANGED crawlVars
        PROVE  WithinBudget' /\ NoFewer
    <2>1. UNCHANGED <<pc, budget, visited>>
      BY <1>5 DEF TimePasses, crawlVars, frontierVars
    <2>2. QED
      BY <1>5, <2>1 DEF WithinBudget, StepsLeft, Stage, NoFewer
  <1>6. ASSUME WithinBudget, [CrawlNext]_crawlVars
        PROVE  WithinBudget' /\ [ComesNearer]_crawlVars
    <2>1. CASE TheCrawl
      <3>1. WithinBudget' /\ Fewer
        BY <1>3, <1>4, <1>6, <2>1 DEF TheCrawl
      <3>2. QED
        BY <3>1 DEF ComesNearer
    <2>2. CASE TimePasses
      BY <1>5, <1>6, <2>2 DEF ComesNearer
    <2>3. CASE UNCHANGED crawlVars
      BY <1>5, <1>6, <2>3
    <2>4. QED
      BY <1>6, <2>1, <2>2, <2>3 DEF CrawlNext
  <1>7. QED
    BY <1>2, <1>6

\* A crawl takes at most two steps for each page of its budget and two more,
\* whatever its pages link to, the browser reports or the time does (the loop
\* of crawl.run.crawl over Frontier.next): none is for nothing.
THEOREM CrawlNears ==
    CrawlSpec => [](StepsLeft \in Nat) /\ [][ComesNearer]_crawlVars
  <1>1. CrawlInit => WithinBudget
    <2> SUFFICES ASSUME CrawlInit PROVE WithinBudget
      OBVIOUS
    <2>1. budget.pages \in 1..MostPages /\ MostPages \in Nat
      BY CrawlAssumptions DEF CrawlInit
    <2>2. QED
      BY <2>1 DEF CrawlInit, WithinBudget
  <1>2. QED
    BY <1>1, StepsAreCounted, PTL DEF CrawlSpec
=============================================================================

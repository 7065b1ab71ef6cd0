------------------------- MODULE PingHistory_proofs -------------------------
(***************************************************************************)
(* For a history of any size and any set of latencies and connection       *)
(* types: the type invariant, that the success counter and the latency     *)
(* totals are those of what the array holds, that the statistics computed  *)
(* from them are in range, which connection type is reported, and that the *)
(* ring buffer implements the window of the last Size results.             *)
(***************************************************************************)
EXTENDS PingHistory, Sums, FiniteSetTheorems, TLAPS

(* Every result a ping can have has the fields AddResult reads.            *)
LEMMA SlotFields ==
    ASSUME NEW slot \in Results \cup {Empty}
    PROVE  /\ slot.success \in BOOLEAN
           /\ slot.latency \in Nat
<1>1. CASE slot \in Successful
  <2>1. slot.success = TRUE /\ slot.latency \in Latencies
    BY <1>1 DEF Successful
  <2>2. QED
    BY <2>1, LatencyAssumption
<1>2. CASE slot = Failure
  BY <1>2 DEF Failure
<1>3. CASE slot = Empty
  BY <1>3 DEF Empty
<1>4. QED
  BY <1>1, <1>2, <1>3 DEF Results

LEMMA AdvanceInRange == \A p \in Slots : Advance(p) \in Slots
  BY SizeAssumption DEF Slots, Advance

LEMMA ContributionTypes ==
    ASSUME NEW slot \in Results \cup {Empty}
    PROVE  /\ Count(slot) \in Int
           /\ Latency(slot) \in Int
           /\ LatencySquared(slot) \in Int
<1>1. slot.success \in BOOLEAN /\ slot.latency \in Nat
  BY SlotFields
<1>2. slot.latency * slot.latency \in Int
  BY <1>1
<1>3. QED
  BY <1>1, <1>2 DEF Count, Latency, LatencySquared

(* The state of a ping history always has its type (type PingHistory).     *)
THEOREM TypeCorrect == Spec => []TypeOK
<1>1. Init => TypeOK
  <2>1. 0 \in Slots
    BY SizeAssumption DEF Slots
  <2>2. Init => history \in [Slots -> Results \cup {Empty}]
    BY DEF Init
  <2>3. Init => everFailed \in BOOLEAN
    BY DEF Init
  <2>4. QED
    BY <2>1, <2>2, <2>3 DEF Init, TypeOK
<1>2. TypeOK /\ [Next]_vars => TypeOK'
  <2> SUFFICES ASSUME TypeOK, [Next]_vars
               PROVE  TypeOK'
    OBVIOUS
  <2>1. ASSUME NEW r \in Results, AddResult(r)
        PROVE  TypeOK'
    <3>1. Evicted \in Results \cup {Empty} /\ position \in Slots
      BY DEF TypeOK, Evicted
    <3>2. history' \in [Slots -> Results \cup {Empty}]
      BY <2>1 DEF AddResult, TypeOK
    <3>3. position' \in Slots
      BY <2>1, <3>1, AdvanceInRange DEF AddResult
    <3>4. /\ successCount' \in Int
          /\ totalLatency' \in Int
          /\ totalLatencySquared' \in Int
      <4>1. /\ Count(Evicted) \in Int /\ Count(r) \in Int
            /\ Latency(Evicted) \in Int /\ Latency(r) \in Int
            /\ LatencySquared(Evicted) \in Int /\ LatencySquared(r) \in Int
        BY <3>1, ContributionTypes
      <4>2. QED
        BY <2>1, <4>1 DEF AddResult, TypeOK
    <3>5. everFailed' \in BOOLEAN
      BY <2>1, SlotFields DEF AddResult, TypeOK
    <3>6. QED
      BY <3>2, <3>3, <3>4, <3>5 DEF TypeOK
  <2>2. CASE UNCHANGED vars
    BY <2>2 DEF vars, TypeOK
  <2>3. QED
    BY <2>1, <2>2 DEF Next
<1>3. QED
  BY <1>1, <1>2, PTL DEF Spec

(* Any set of slots is finite, so its members can be counted.              *)
LEMMA SlotsFinite == ASSUME NEW S \in SUBSET Slots
                     PROVE  IsFiniteSet(S) /\ Cardinality(S) \in Nat
<1>1. IsFiniteSet(Slots)
  BY SizeAssumption, FS_Interval DEF Slots
<1>2. IsFiniteSet(S)
  BY <1>1, FS_Subset
<1>3. QED
  BY <1>2, FS_CardinalityType

(* The success counter AddResult adjusts by one is the number of           *)
(* successful results in the array, at any time and for any array size.    *)
LEMMA SuccessCountCorrect == Spec => []SuccessCountMatches
<1>1. Init => SuccessCountMatches
  <2> SUFFICES ASSUME Init PROVE SuccessCountMatches
    OBVIOUS
  <2>1. SuccessSlots = {}
    BY DEF Init, SuccessSlots, Empty
  <2>2. QED
    BY <2>1, FS_EmptySet DEF Init, SuccessCountMatches
<1>2. TypeOK /\ SuccessCountMatches /\ [Next]_vars => SuccessCountMatches'
  <2> SUFFICES ASSUME TypeOK, SuccessCountMatches, [Next]_vars
               PROVE  SuccessCountMatches'
    OBVIOUS
  <2>1. ASSUME NEW r \in Results, AddResult(r)
        PROVE  SuccessCountMatches'
    <3> DEFINE Others == SuccessSlots \ {position}
    <3>1. /\ position \in Slots
          /\ Evicted = history[position]
          /\ Evicted.success \in BOOLEAN
          /\ r.success \in BOOLEAN
      BY SlotFields DEF TypeOK, Evicted
    <3>2. IsFiniteSet(Others) /\ Cardinality(Others) \in Nat
      BY SlotsFinite DEF SuccessSlots
    <3>3. Cardinality(SuccessSlots) = Cardinality(Others) + Count(Evicted)
      <4>1. CASE Evicted.success
        <5>1. SuccessSlots = Others \cup {position}
          BY <3>1, <4>1 DEF SuccessSlots
        <5>2. QED
          BY <3>2, <4>1, <5>1, FS_AddElement DEF Count
      <4>2. CASE ~Evicted.success
        <5>1. SuccessSlots = Others
          BY <3>1, <4>2 DEF SuccessSlots
        <5>2. QED
          BY <3>2, <4>2, <5>1 DEF Count
      <4>3. QED
        BY <3>1, <4>1, <4>2
    <3>4. Cardinality(SuccessSlots') = Cardinality(Others) + Count(r)
      <4>1. history' = [history EXCEPT ![position] = r]
        BY <2>1 DEF AddResult
      <4>2. SuccessSlots' = IF r.success THEN Others \cup {position} ELSE Others
        BY <3>1, <4>1 DEF SuccessSlots, TypeOK
      <4>3. CASE r.success
        BY <3>2, <4>2, <4>3, FS_AddElement DEF Count
      <4>4. CASE ~r.success
        BY <3>2, <4>2, <4>4 DEF Count
      <4>5. QED
        BY <3>1, <4>3, <4>4
    <3>5. successCount' = successCount - Count(Evicted) + Count(r)
      BY <2>1 DEF AddResult
    <3>6. Count(Evicted) \in Int /\ Count(r) \in Int
      BY <3>1 DEF Count
    <3>7. QED
      BY <3>2, <3>3, <3>4, <3>5, <3>6 DEF SuccessCountMatches
  <2>2. CASE UNCHANGED vars
    BY <2>2 DEF vars, SuccessCountMatches, SuccessSlots
  <2>3. QED
    BY <2>1, <2>2 DEF Next
<1>3. QED
  BY <1>1, <1>2, TypeCorrect, PTL DEF Spec

-----------------------------------------------------------------------------
(* The latency totals.                                                     *)

(* What each slot contributes, as functions on the slots.                  *)
SlotLatencies == [i \in Slots |-> Latency(history[i])]
SlotSquares == [i \in Slots |-> LatencySquared(history[i])]

(* A new result changes one slot's contributions.                          *)
LEMMA LatencyStep ==
    ASSUME TypeOK, LatencyTotalsMatch, NEW r \in Results, AddResult(r)
    PROVE  LatencyTotalsMatch'
<1>1. position \in Slots /\ IsFiniteSet(Slots)
  BY SlotsFinite DEF TypeOK
<1>2. \A i \in Slots : history[i] \in Results \cup {Empty} BY DEF TypeOK
<1>3. SlotLatencies \in [Slots -> Int] /\ SlotSquares \in [Slots -> Int]
  BY <1>2, ContributionTypes DEF SlotLatencies, SlotSquares
<1>4. Latency(r) \in Int /\ LatencySquared(r) \in Int BY ContributionTypes
<1>5. history' = [history EXCEPT ![position] = r] BY DEF AddResult
<1>6. \A i \in Slots : history'[i] = IF i = position THEN r ELSE history[i]
  BY <1>1, <1>5 DEF TypeOK
<1>7. /\ SlotLatencies' = [SlotLatencies EXCEPT ![position] = Latency(r)]
      /\ SlotSquares' = [SlotSquares EXCEPT ![position] = LatencySquared(r)]
  <2>1. \A i \in Slots : /\ Latency(history'[i]) = IF i = position THEN Latency(r) ELSE Latency(history[i])
                         /\ LatencySquared(history'[i]) = IF i = position THEN LatencySquared(r) ELSE LatencySquared(history[i])
    BY <1>6
  <2>2. SlotLatencies' = [i \in Slots |-> Latency(history'[i])] /\ SlotSquares' = [i \in Slots |-> LatencySquared(history'[i])]
    BY DEF SlotLatencies, SlotSquares, Latency, LatencySquared, Slots
  <2> QED BY <1>1, <2>1, <2>2 DEF SlotLatencies, SlotSquares
<1>8. SlotLatencies[position] = Latency(Evicted) /\ SlotSquares[position] = LatencySquared(Evicted)
  BY <1>1 DEF SlotLatencies, SlotSquares, Evicted
<1>9. PICK a, b : a = SlotLatencies' /\ b = SlotSquares' OBVIOUS
<1>11. /\ SumFunction(a) = SumFunction(SlotLatencies) - Latency(Evicted) + Latency(r)
       /\ SumFunction(b) = SumFunction(SlotSquares) - LatencySquared(Evicted) + LatencySquared(r)
  <2>1. Changes(a, SlotLatencies, position, Latency(r)) BY <1>7, <1>9 DEF Changes
  <2>2. Changes(b, SlotSquares, position, LatencySquared(r)) BY <1>7, <1>9 DEF Changes
  <2>3. SumFunction(a) = SumFunction(SlotLatencies) - SlotLatencies[position] + Latency(r)
    BY <1>1, <1>3, <1>4, <2>1, SumChanged
  <2>4. SumFunction(b) = SumFunction(SlotSquares) - SlotSquares[position] + LatencySquared(r)
    BY <1>1, <1>3, <1>4, <2>2, SumChanged
  <2> QED BY <1>8, <2>3, <2>4
<1>10. totalLatency = SumFunction(SlotLatencies) /\ totalLatencySquared = SumFunction(SlotSquares)
  BY DEF LatencyTotalsMatch, SlotLatencies, SlotSquares
<1>12. /\ totalLatency' = SumFunction(SlotLatencies) - Latency(Evicted) + Latency(r)
       /\ totalLatencySquared' = SumFunction(SlotSquares) - LatencySquared(Evicted) + LatencySquared(r)
  BY <1>10 DEF AddResult
<1>13. totalLatency' = SumFunction(a) /\ totalLatencySquared' = SumFunction(b)
  BY <1>11, <1>12
<1>14. totalLatency' = SumFunction(SlotLatencies)' /\ totalLatencySquared' = SumFunction(SlotSquares)'
  BY <1>9, <1>13
<1> QED BY <1>14 DEF LatencyTotalsMatch, SlotLatencies, SlotSquares

(* A history without results has totals of zero.                           *)
LEMMA InitLatency == Init => LatencyTotalsMatch
<1> SUFFICES ASSUME Init PROVE LatencyTotalsMatch OBVIOUS
<1>1. \A i \in Slots : history[i] = Empty BY DEF Init
<1>2. Empty.success = FALSE BY DEF Empty
<1>3. \A i \in Slots : Latency(history[i]) = 0 /\ LatencySquared(history[i]) = 0
  BY <1>1, <1>2 DEF Latency, LatencySquared
<1>4. IsFiniteSet(Slots) BY SlotsFinite
<1>5. SumFunction(SlotLatencies) = 0 /\ SumFunction(SlotSquares) = 0
  <2>1. \A i \in Slots : SlotLatencies[i] = 0 /\ SlotSquares[i] = 0
    BY <1>3 DEF SlotLatencies, SlotSquares
  <2>2. DOMAIN SlotLatencies = Slots /\ DOMAIN SlotSquares = Slots
    BY DEF SlotLatencies, SlotSquares
  <2> QED BY <1>4, <2>1, <2>2, SumZero
<1> QED BY <1>5 DEF Init, LatencyTotalsMatch, SlotLatencies, SlotSquares

(* The latency totals AddResult keeps by adding and taking out are the     *)
(* totals of the successful results in the array, at any time.             *)
LEMMA LatencyTotalsCorrect == Spec => []LatencyTotalsMatch
<1>1. TypeOK /\ LatencyTotalsMatch /\ [Next]_vars => LatencyTotalsMatch'
  <2> SUFFICES ASSUME TypeOK, LatencyTotalsMatch, [Next]_vars
               PROVE  LatencyTotalsMatch'
    OBVIOUS
  <2>1. ASSUME NEW r \in Results, AddResult(r)
        PROVE  LatencyTotalsMatch'
    BY <2>1, LatencyStep
  <2>2. CASE UNCHANGED vars
    BY <2>2 DEF vars, LatencyTotalsMatch
  <2>3. QED
    BY <2>1, <2>2 DEF Next
<1>2. QED
  BY <1>1, InitLatency, TypeCorrect, PTL DEF Spec

(* The totals AddResult adjusts by the new and the overwritten result are  *)
(* those of the results in the array, for any size and any latencies.      *)
THEOREM TotalsCorrect == Spec => []TotalsMatch
<1>1. SuccessCountMatches /\ LatencyTotalsMatch => TotalsMatch BY DEF TotalsMatch
<1> QED BY SuccessCountCorrect, LatencyTotalsCorrect, <1>1, PTL

(* Of finitely many slots, one has the greatest latency.                   *)
LEMMA GreatestOf ==
    ASSUME NEW U, IsFiniteSet(U), NEW l, NEW S \in SUBSET U, S # {},
           \A i \in S : l[i] \in Nat
    PROVE  \E i \in S : \A j \in S : l[j] <= l[i]
<1> DEFINE C == {s \in SUBSET S : s = {} \/ \E i \in s : \A j \in s : l[j] <= l[i]}
<1>0. IsFiniteSet(S) BY FS_Subset
<1>1. {} \in C OBVIOUS
<1>2. ASSUME NEW s \in SUBSET S, s # {}, s \ {First(s)} \in C PROVE s \in C
  <2> DEFINE r == s \ {First(s)}
  <2>1. First(s) \in s /\ l[First(s)] \in Nat BY <1>2 DEF First
  <2>2. CASE r = {}
    <3>1. \A j \in s : j = First(s) BY <2>2
    <3> QED BY <2>1, <3>1
  <2>3. CASE r # {}
    <3>1. PICK i \in r : \A j \in r : l[j] <= l[i] BY <1>2, <2>3
    <3>2. CASE l[First(s)] <= l[i]
      <4>1. \A j \in s : l[j] <= l[i] BY <3>1, <3>2
      <4> QED BY <4>1
    <3>3. CASE ~(l[First(s)] <= l[i])
      <4>1. ASSUME NEW j \in s PROVE l[j] <= l[First(s)]
        <5>1. l[i] \in Nat /\ l[j] \in Nat /\ (j # First(s) => l[j] <= l[i]) BY <3>1
        <5> QED BY <2>1, <3>3, <5>1
      <4> QED BY <2>1, <4>1
    <3> QED BY <3>2, <3>3
  <2> QED BY <2>2, <2>3
<1>3. C = SUBSET S
  <2> HIDE DEF C
  <2>1. C \in SUBSET (SUBSET S) BY DEF C
  <2> QED BY <1>0, <1>1, <1>2, <2>1, SubsetInduction
<1> QED BY <1>3

(* The quotient of a sum between bounds times n is between the bounds.     *)
LEMMA DivideBetween ==
    ASSUME NEW a \in Int, NEW n \in Nat, n > 0, NEW x \in Int, NEW y \in Int,
           x * n <= a, a <= y * n
    PROVE  x <= a \div n /\ a \div n <= y
<1>1. PICK d \in Int, e \in Int : d = a \div n /\ e = a % n OBVIOUS
<1>2. a = n * d + e /\ 0 <= e /\ e < n BY <1>1
<1>3. (d + 1) * n = n * d + n OBVIOUS
<1>4. x * n < (d + 1) * n BY <1>2, <1>3
<1>5. d * n <= y * n BY <1>2
<1>6. \A u \in Int, v \in Int : u >= v => u * n >= v * n OBVIOUS
<1>7. \A u \in Int, v \in Int : u >= v + 1 => u * n > v * n
  <2> SUFFICES ASSUME NEW u \in Int, NEW v \in Int, u >= v + 1 PROVE u * n > v * n
    OBVIOUS
  <2>1. u * n >= (v + 1) * n BY <1>6
  <2>2. (v + 1) * n = v * n + n OBVIOUS
  <2> QED BY <2>1, <2>2
<1>8. x < d + 1
  <2> SUFFICES ASSUME x >= d + 1 PROVE FALSE OBVIOUS
  <2>1. x * n >= (d + 1) * n BY <1>6
  <2> QED BY <1>4, <2>1
<1>9. d <= y
  <2> SUFFICES ASSUME d >= y + 1 PROVE FALSE OBVIOUS
  <2>1. d * n > y * n BY <1>7
  <2> QED BY <1>5, <2>1
<1> QED BY <1>1, <1>8, <1>9

(* Statistics computed from the totals of the array are in range.          *)
LEMMA StatsFromTotals ==
    ASSUME TypeOK, SuccessCountMatches, LatencyTotalsMatch
    PROVE  StatsInRange
<1> DEFINE l == [i \in Slots |-> history[i].latency]
           L == {history[i].latency : i \in SuccessSlots}
<1>1. SuccessSlots \in SUBSET Slots /\ IsFiniteSet(Slots)
  BY SlotsFinite DEF SuccessSlots
<1>2. \A i \in Slots : history[i] \in Results \cup {Empty} BY DEF TypeOK
<1>3. \A i \in Slots : l[i] \in Nat BY <1>2, SlotFields
<1>4. \A i \in Slots : i \in SuccessSlots <=> history[i].success BY DEF SuccessSlots
<1>5. /\ SlotLatencies = [i \in Slots |-> IF i \in SuccessSlots THEN l[i] ELSE 0]
      /\ SlotSquares = [i \in Slots |-> IF i \in SuccessSlots THEN l[i] * l[i] ELSE 0]
  <2>1. \A i \in Slots : /\ Latency(history[i]) = IF i \in SuccessSlots THEN l[i] ELSE 0
                         /\ LatencySquared(history[i]) = IF i \in SuccessSlots THEN l[i] * l[i] ELSE 0
    BY <1>4 DEF Latency, LatencySquared
  <2> QED BY <2>1 DEF SlotLatencies, SlotSquares
<1>6. PICK c, t, q : Totals(Slots, SuccessSlots, l, c, t, q)
  <2> DEFINE ones == [i \in Slots |-> IF i \in SuccessSlots THEN 1 ELSE 0]
  <2>1. PICK c, t, q : /\ IsSum(c, ones, Slots) /\ IsSum(t, SlotLatencies, Slots)
                       /\ IsSum(q, SlotSquares, Slots)
    <3> HIDE DEF ones
    <3> QED BY <1>1, SumExists
  <2>2. \A i \in SuccessSlots : l[i] \in Int BY <1>1, <1>3
  <2>3. Totals(Slots, SuccessSlots, l, c, t, q)
    <3> HIDE DEF l
    <3> QED BY <1>1, <1>5, <2>1, <2>2 DEF Totals
  <2> HIDE DEF l
  <2> QED BY <2>3
<1>7. c[Slots] = successCount /\ t[Slots] = totalLatency /\ q[Slots] = totalLatencySquared
  <2> DEFINE ones == [i \in Slots |-> IF i \in SuccessSlots THEN 1 ELSE 0]
  <2>1. /\ IsSum(c, ones, Slots) /\ IsSum(t, SlotLatencies, Slots)
        /\ IsSum(q, SlotSquares, Slots)
    <3> HIDE DEF l
    <3> QED BY <1>5, <1>6 DEF Totals
  <2>2. \A i \in Slots : ones[i] = IF i \in SuccessSlots THEN 1 ELSE 0 OBVIOUS
  <2>3. c[Slots] = Cardinality(SuccessSlots)
    <3> HIDE DEF ones
    <3> QED BY <1>1, <2>1, <2>2, SumCounts
  <2>4. DOMAIN SlotLatencies = Slots /\ DOMAIN SlotSquares = Slots
    BY DEF SlotLatencies, SlotSquares
  <2>5. t[Slots] = SumFunction(SlotLatencies) /\ q[Slots] = SumFunction(SlotSquares)
    BY <1>1, <2>1, <2>4, SumIs
  <2> QED BY <2>3, <2>5 DEF SuccessCountMatches, LatencyTotalsMatch, SlotLatencies, SlotSquares
<1>8. /\ successCount \in Nat /\ totalLatency \in Int /\ totalLatencySquared \in Int
      /\ successCount = 0 <=> SuccessSlots = {}
  <2>1. IsFiniteSet(SuccessSlots) /\ Cardinality(SuccessSlots) \in Nat BY <1>1, SlotsFinite
  <2>2. Cardinality(SuccessSlots) = 0 <=> SuccessSlots = {} BY <2>1, FS_EmptySet
  <2> QED BY <2>1, <2>2 DEF SuccessCountMatches, TypeOK
<1>9. \A i \in SuccessSlots : l[i] = history[i].latency /\ l[i] \in Nat BY <1>1, <1>3
<1> HIDE DEF l
<1>10. successCount <= Total
  <2>1. SuccessSlots \in SUBSET Written
    <3>1. Empty.success = FALSE BY DEF Empty
    <3> QED BY <3>1 DEF SuccessSlots, Written
  <2>2. IsFiniteSet(Written) BY SlotsFinite DEF Written
  <2>3. Cardinality(SuccessSlots) <= Cardinality(Written) BY <2>1, <2>2, FS_Subset
  <2> QED BY <2>3 DEF SuccessCountMatches, Total
<1>11. ASSUME L # {} PROVE Min(L) <= AvgLatency /\ AvgLatency <= Max(L)
  <2>1. SuccessSlots # {} /\ successCount > 0 BY <1>8, <1>11
  <2>2. L \in SUBSET Nat BY <1>9
  <2>3. Min(L) \in L /\ \A x \in L : Min(L) =< x
    <3> HIDE DEF L
    <3>1. \E x \in L : \A y \in L : x =< y BY <1>11, <2>2, Least
    <3> QED BY <3>1 DEF Min
  <2>4. Max(L) \in L /\ \A x \in L : Max(L) >= x
    <3>1. PICK i \in SuccessSlots : \A j \in SuccessSlots : l[j] <= l[i]
      BY <1>1, <1>9, <2>1, GreatestOf
    <3>2. l[i] \in L /\ \A x \in L : l[i] >= x
      <4>1. \A j \in SuccessSlots : l[i] >= history[j].latency BY <1>9, <3>1
      <4> QED BY <1>9, <4>1
    <3> HIDE DEF L
    <3> QED BY <3>2 DEF Max
  <2>5. \A i \in SuccessSlots : Min(L) <= l[i] /\ l[i] <= Max(L)
    <3>1. \A i \in SuccessSlots : l[i] \in L BY <1>9
    <3> HIDE DEF L
    <3>2. \A x \in L : x \in Nat BY <2>2
    <3> QED BY <2>3, <2>4, <3>1, <3>2
  <2> HIDE DEF L
  <2>6. PICK x \in Nat, y \in Nat : x = Min(L) /\ y = Max(L) BY <2>2, <2>3, <2>4
  <2>7. x * c[Slots] <= t[Slots] /\ t[Slots] <= y * c[Slots]
    BY <1>1, <1>6, <2>5, <2>6, SumBetween
  <2>8. x <= totalLatency \div successCount /\ totalLatency \div successCount <= y
    BY <1>7, <1>8, <2>1, <2>7, DivideBetween
  <2> QED BY <2>1, <2>6, <2>8 DEF AvgLatency
<1>12. ScaledVariance >= 0
  <2> DEFINE n == successCount
             T == totalLatency
             Q == totalLatencySquared
  <2>1. n \in Nat /\ T \in Int /\ Q \in Int BY <1>8
  <2>2. n * n * Q - 2 * n * T * T + T * T * n >= 0
    <3> HIDE DEF n, T, Q
    <3>1. NoLess(n, T, q[Slots], t[Slots], c[Slots])
      BY <1>1, <1>6, <2>1, SquaresSum
    <3>2. q[Slots] = Q /\ t[Slots] = T /\ c[Slots] = n BY <1>7 DEF n, T, Q
    <3> QED BY <3>1, <3>2 DEF NoLess
  <2>3. n = 0 => T = 0
    <3> SUFFICES ASSUME n = 0 PROVE T = 0 OBVIOUS
    <3>1. \A i \in SuccessSlots : l[i] = 0 BY <1>8
    <3>2. t[Slots] = 0 * c[Slots] BY <1>1, <1>6, <3>1, SumOfSame
    <3> QED BY <1>7, <1>8, <3>2
  <2> HIDE DEF n, T, Q
  <2>4. n * Q - T * T >= 0
    <3>1. CASE n = 0 BY <2>1, <2>3, <3>1
    <3>2. CASE n > 0
      <4>1. n * n * Q - 2 * n * T * T + T * T * n = n * (n * Q - T * T) BY <2>1
      <4>2. n * Q - T * T \in Int BY <2>1
      <4>3. \A z \in Int : n * z >= 0 => z >= 0 BY <2>1, <3>2
      <4> QED BY <2>2, <4>1, <4>2, <4>3
    <3> QED BY <2>1, <3>1, <3>2
  <2> QED BY <2>4 DEF ScaledVariance, n, T, Q
<1>13. ASSUME Cardinality(L) = 1 PROVE ScaledVariance = 0
  <2>1. PICK v : L = {v}
    <3> HIDE DEF L
    <3>1. IsFiniteSet(L)
      <4>1. IsFiniteSet(SuccessSlots) BY <1>1, SlotsFinite
      <4>2. [i \in SuccessSlots |-> history[i].latency] \in Surjection(SuccessSlots, L)
        BY DEF L, Surjection
      <4> QED BY <4>1, <4>2, FS_Surjection
    <3> QED BY <1>13, <3>1, FS_Singleton
  <2>2. \A i \in SuccessSlots : l[i] = v
    BY <1>9, <2>1
  <2>3. v \in Int BY <1>9, <2>1
  <2>4. t[Slots] = v * c[Slots] /\ q[Slots] = v * v * c[Slots]
    BY <1>1, <1>6, <2>2, <2>3, SumOfSame
  <2>5. /\ totalLatency = v * successCount
        /\ totalLatencySquared = v * v * successCount
    BY <1>7, <2>4
  <2> HIDE DEF L
  <2>6. successCount * (v * v * successCount) = (v * successCount) * (v * successCount)
    BY <1>8, <2>3
  <2> QED BY <1>8, <2>3, <2>5, <2>6 DEF ScaledVariance
<1> QED BY <1>10, <1>11, <1>12, <1>13 DEF StatsInRange

(* What GetStats divides, and what it takes a root of, is in range at any  *)
(* time, for any size and any latencies.                                   *)
THEOREM StatsCorrect == Spec => []StatsInRange
<1>1. TypeOK /\ SuccessCountMatches /\ LatencyTotalsMatch => StatsInRange
  BY StatsFromTotals
<1>2. QED
  BY <1>1, TypeCorrect, SuccessCountCorrect, LatencyTotalsCorrect, PTL

-----------------------------------------------------------------------------
(* The slots in use.                                                       *)

(* A slot that was never written lies at or after the write position, and  *)
(* there is one exactly as long as the slot at the write position is such  *)
(* a slot: position tells how far the first round has come.                *)
Filled ==
    \A i \in Slots :
        history[i] = Empty <=> (history[position] = Empty /\ position <= i)

(* A slot number one round ahead.                                          *)
LEMMA Wrap ==
    ASSUME NEW x \in Nat, x < 2 * Size
    PROVE  x % Size = IF x < Size THEN x ELSE x - Size
<1>1. Size \in Nat /\ Size > 0 BY SizeAssumption
<1>2. CASE x < Size BY <1>1, <1>2
<1>3. CASE x >= Size
  <2>1. x - Size \in 0 .. Size - 1 BY <1>1, <1>3
  <2>2. x = 1 * Size + (x - Size) BY <1>1
  <2> QED BY <1>1, <1>3, <2>1, <2>2
<1>4. QED BY <1>1, <1>2, <1>3

(* A result is never mistaken for a slot that was not written.             *)
LEMMA ResultsAreNotEmpty == Empty \notin Results
<1>1. Empty \notin Successful BY DEF Empty, Successful
<1>2. Empty # Failure
  <2>1. Empty.conn = "never written" /\ Failure.conn = NoConn BY DEF Empty, Failure
  <2> QED BY <2>1, ConnAssumption
<1> QED BY <1>1, <1>2 DEF Results

(* What a step does to the array and the write position.                   *)
Writes(r) ==
    /\ position \in Slots /\ r \in Results
    /\ history \in [Slots -> Results \cup {Empty}]
    /\ history' = [history EXCEPT ![position] = r]
    /\ position' = IF position + 1 < Size THEN position + 1 ELSE 0

(* AddResult does that.                                                    *)
LEMMA AddWrites ==
    ASSUME TypeOK, NEW r \in Results, AddResult(r) PROVE Writes(r)
<1>1. position + 1 \in Nat /\ position + 1 < 2 * Size /\ position + 1 <= Size
  BY SizeAssumption DEF TypeOK, Slots
<1>2. (position + 1) % Size = IF position + 1 < Size THEN position + 1 ELSE 0
  BY <1>1, Wrap, SizeAssumption
<1> QED BY <1>2 DEF TypeOK, AddResult, Advance, Writes

(* A write keeps Filled.                                                   *)
LEMMA FilledStep ==
    ASSUME NEW r, Writes(r), Filled PROVE Filled'
<1>1. r # Empty BY ResultsAreNotEmpty DEF Writes
<1>2. /\ position \in Slots /\ position' \in Slots
      /\ \A i \in Slots : history'[i] = IF i = position THEN r ELSE history[i]
  BY SizeAssumption DEF Writes, Slots
<1>3. \A i \in Slots : i \in Nat /\ i < Size BY SizeAssumption DEF Slots
<1> SUFFICES ASSUME NEW i \in Slots
             PROVE  history'[i] = Empty <=> (history'[position'] = Empty /\ position' <= i)
  BY DEF Filled
<1>4. CASE history[position] = Empty
  <2>1. CASE position + 1 < Size
    <3>1. position' = position + 1 BY <2>1 DEF Writes
    <3>2. history[position'] = Empty BY <1>2, <1>3, <1>4, <3>1 DEF Filled
    <3>3. history'[position'] = Empty BY <1>2, <1>3, <3>1, <3>2
    <3>4. history[i] = Empty <=> position <= i BY <1>4 DEF Filled
    <3> QED BY <1>1, <1>2, <1>3, <3>1, <3>3, <3>4
  <2>2. CASE ~(position + 1 < Size)
    <3>1. \A j \in Slots : history'[j] # Empty
      BY <1>1, <1>2, <1>3, <2>2, SizeAssumption DEF Filled
    <3> QED BY <1>2, <3>1
  <2> QED BY <2>1, <2>2
<1>5. CASE history[position] # Empty
  <2>1. \A j \in Slots : history'[j] # Empty BY <1>1, <1>2, <1>5 DEF Filled
  <2> QED BY <1>2, <2>1
<1> QED BY <1>4, <1>5

(* A write records the result in the window.                               *)
LEMMA RecordStep ==
    ASSUME NEW r, Writes(r), Filled, Filled' PROVE Window!Record(r)
<1>1. r # Empty BY ResultsAreNotEmpty DEF Writes
<1>2. /\ position \in Slots /\ position' \in Slots
      /\ \A i \in Slots : history'[i] = IF i = position THEN r ELSE history[i]
  BY SizeAssumption DEF Writes, Slots
<1>3. Size \in Nat /\ Size > 0 BY SizeAssumption
<1>4. \A i \in Slots : i \in Nat /\ i < Size /\ history[i] \in Results \cup {Empty}
  BY SizeAssumption DEF Slots, Writes
<1>w. \A x \in Nat : x < 2 * Size => x % Size = IF x < Size THEN x ELSE x - Size
  BY Wrap
<1>5. \A k \in 1 .. Size : (position + k - 1) % Size \in Slots
                           /\ (position' + k - 1) % Size \in Slots
  <2>1. ASSUME NEW x \in Int PROVE x % Size \in Slots
    BY <1>3 DEF Slots
  <2>2. \A k \in 1 .. Size : position + k - 1 \in Int /\ position' + k - 1 \in Int
    BY <1>2, <1>3, <1>4
  <2> QED BY <2>1, <2>2
<1>6. CASE history[position] = Empty
  <2> DEFINE W == [k \in 1 .. position |-> history[k - 1]]
             V == [k \in 1 .. position + 1 |-> IF k = position + 1 THEN r ELSE history[k - 1]]
  <2>1. W \in Seq(Results \cup {Empty}) /\ Len(W) = position /\ position \in Nat /\ position < Size
    BY <1>2, <1>3, <1>4 DEF Slots
  <2>2. Append(W, r) = V BY <2>1
  <2>3. Chronological = W BY <1>6 DEF Chronological
  <2>4. Chronological' = V
    <3>1. CASE position + 1 < Size
      <4>1. position' = position + 1 BY <3>1 DEF Writes
      <4>2. history[position'] = Empty BY <1>2, <1>4, <1>6, <4>1 DEF Filled
      <4>3. history'[position'] = Empty BY <1>2, <1>4, <4>1, <4>2
      <4>4. Chronological' = [k \in 1 .. position' |-> history'[k - 1]]
        BY <4>3 DEF Chronological, Empty
      <4>5. \A k \in 1 .. position + 1 : history'[k - 1] = IF k = position + 1 THEN r ELSE history[k - 1]
        BY <1>2, <1>3, <2>1, <3>1 DEF Slots
      <4> QED BY <4>1, <4>4, <4>5
    <3>2. CASE ~(position + 1 < Size)
      <4>1. position' = 0 /\ position + 1 = Size BY <1>2, <1>3, <1>4, <3>2 DEF Writes
      <4>2. history'[position'] # Empty BY <1>1, <1>2, <1>4, <1>6, <4>1 DEF Filled
      <4>4. Chronological' = [k \in 1 .. Size |-> history'[(position' + k - 1) % Size]]
        BY <4>2 DEF Chronological, Empty
      <4>5. \A k \in 1 .. Size : (position' + k - 1) % Size = k - 1
        BY <1>3, <1>w, <4>1
      <4>6. \A k \in 1 .. Size : history'[k - 1] = IF k = position + 1 THEN r ELSE history[k - 1]
        BY <1>2, <1>3, <2>1, <4>1 DEF Slots
      <4> QED BY <4>1, <4>4, <4>5, <4>6
    <3> QED BY <3>1, <3>2
  <2> HIDE DEF W, V
  <2> QED BY <2>1, <2>2, <2>3, <2>4 DEF Window!Record
<1>7. CASE history[position] # Empty
  <2> DEFINE W == [k \in 1 .. Size |-> history[(position + k - 1) % Size]]
             X == [k \in 1 .. Size - 1 |-> history[(position + k) % Size]]
             V == [k \in 1 .. Size |-> IF k = Size THEN r ELSE history[(position + k) % Size]]
  <2>1. W \in Seq(Results \cup {Empty}) /\ Len(W) = Size
    BY <1>3, <1>4, <1>5
  <2>2. Tail(W) = X
    <3>1. \A k \in 1 .. Size - 1 : W[k + 1] = history[(position + k) % Size]
      <4>1. \A k \in 1 .. Size - 1 : k + 1 \in 1 .. Size /\ position + (k + 1) - 1 = position + k
        BY <1>2, <1>3, <1>4
      <4> QED BY <4>1
    <3>2. W # <<>> BY <1>3, <2>1
    <3>3. Tail(W) = [k \in 1 .. Size - 1 |-> W[k + 1]] BY <1>3, <2>1, <3>2
    <3> QED BY <3>1, <3>3
  <2>3. Append(X, r) = V
    <3>1. \A k \in 1 .. Size - 1 : (position + k) % Size \in Slots
      BY <1>2, <1>3 DEF Slots
    <3>2. X \in Seq(Results \cup {Empty}) /\ Len(X) = Size - 1 BY <1>3, <1>4, <3>1
    <3> QED BY <1>3, <3>2
  <2>4. Chronological = W BY <1>7 DEF Chronological
  <2>5. Chronological' = V
    <3>1. \A j \in Slots : history'[j] # Empty BY <1>1, <1>2, <1>7 DEF Filled
    <3>2. Chronological' = [k \in 1 .. Size |-> history'[(position' + k - 1) % Size]]
      BY <1>2, <3>1 DEF Chronological, Empty
    <3>3. ASSUME NEW k \in 1 .. Size
          PROVE  history'[(position' + k - 1) % Size]
                   = IF k = Size THEN r ELSE history[(position + k) % Size]
      <4>1. position \in Nat /\ position < Size BY <1>2, <1>4
      <4>2. position' = IF position + 1 < Size THEN position + 1 ELSE 0 BY DEF Writes
      <4>3. /\ (position' + k - 1) % Size = IF position' + k <= Size THEN position' + k - 1
                                                                   ELSE (position' + k) - (1 + Size)
            /\ (position + k) % Size = IF position + k < Size THEN position + k
                                                                ELSE (position + k) - Size
        <5>1. PICK x \in Nat, y \in Nat : x = position' + k - 1 /\ y = position + k
          BY <1>3, <4>1, <4>2
        <5>2. x < 2 * Size /\ y < 2 * Size BY <1>3, <4>1, <4>2, <5>1
        <5>3. /\ x % Size = IF x < Size THEN x ELSE x - Size
              /\ y % Size = IF y < Size THEN y ELSE y - Size
          BY <1>w, <5>2
        <5>4. /\ x < Size <=> position' + k <= Size
              /\ x - Size = (position' + k) - (1 + Size)
          BY <1>3, <4>1, <4>2, <5>1
        <5>5. (position' + k - 1) % Size = x % Size BY <5>1
        <5>6. (position + k) % Size = y % Size BY <5>1
        <5> QED BY <5>1, <5>3, <5>4, <5>5, <5>6, Zenon
      <4>4. CASE k = Size
        <5>1. (position' + k - 1) % Size = position BY <1>3, <4>1, <4>2, <4>3, <4>4
        <5> QED BY <1>2, <4>4, <5>1
      <4>5. CASE k # Size
        <5>2. (position' + k - 1) % Size = (position + k) % Size /\ (position + k) % Size # position
          BY <1>3, <4>1, <4>2, <4>3, <4>5
        <5>3. (position + k) % Size \in Slots BY <1>3, <4>1, <4>3, <4>5 DEF Slots
        <5> QED BY <1>2, <4>5, <5>2, <5>3
      <4> QED BY <4>4, <4>5
    <3> QED BY <3>2, <3>3
  <2> HIDE DEF W, V, X
  <2> QED BY <2>1, <2>2, <2>3, <2>4, <2>5 DEF Window!Record
<1> QED BY <1>6, <1>7

(* The first states.                                                       *)
LEMMA InitFilled == Init => Filled
<1> SUFFICES ASSUME Init PROVE Filled OBVIOUS
<1>1. 0 \in Slots BY SizeAssumption DEF Slots
<1>2. \A i \in Slots : history[i] = Empty /\ 0 <= i BY DEF Init, Slots
<1> QED BY <1>1, <1>2 DEF Init, Filled

LEMMA InitWindow == Init => Window!WindowInit
<1> SUFFICES ASSUME Init PROVE Chronological = <<>>
  BY DEF Window!WindowInit
<1>1. 0 \in Slots BY SizeAssumption DEF Slots
<1>2. position = 0 /\ history[position] = Empty BY <1>1 DEF Init
<1>3. Chronological = [k \in 1 .. 0 |-> history[k - 1]] BY <1>2 DEF Chronological
<1> QED BY <1>3

(* Of offsets below a bound, one is the greatest.                          *)
LEMMA Greatest ==
    ASSUME NEW T, NEW n \in Nat, T \in SUBSET (0 .. n - 1), T # {}
    PROVE  \E x \in T : \A y \in T : x >= y
<1> DEFINE D == {n - x : x \in T}
<1>1. D \in SUBSET Nat /\ D # {} OBVIOUS
<1>2. PICK d \in D : \A e \in D : d <= e
  <2> HIDE DEF D
  <2> QED BY <1>1, Least
<1>3. PICK x \in T : d = n - x BY <1>2
<1>4. ASSUME NEW y \in T PROVE x >= y
  <2>1. n - y \in D OBVIOUS
  <2>2. n - x <= n - y BY <1>2, <1>3, <2>1
  <2>3. x \in Nat /\ y \in Nat OBVIOUS
  <2> QED BY <2>2, <2>3
<1> QED BY <1>4

(* The last offset of the search is the first of the remembered results.   *)
LEMMA FarthestIsOldest ==
    ASSUME NEW T, NEW n \in Nat, T \in SUBSET (0 .. n - 1), T # {}
    PROVE  Max(T) \in T /\ Min({n - x : x \in T}) = n - Max(T)
<1> DEFINE D == {n - x : x \in T}
<1>1. PICK m \in T : \A y \in T : m >= y BY Greatest
<1>2. Max(T) \in T /\ \A y \in T : Max(T) >= y BY <1>1 DEF Max
<1>3. n - Max(T) \in D /\ \A d \in D : n - Max(T) =< d
  <2>1. PICK x \in T : x = Max(T) /\ \A y \in T : x >= y BY <1>2
  <2>2. ASSUME NEW y \in T PROVE n - x =< n - y
    <3>1. x \in Int /\ y \in Int /\ x >= y BY <2>1
    <3> QED BY <3>1
  <2>3. n - x \in D OBVIOUS
  <2>4. \A d \in D : n - x =< d BY <2>2
  <2> HIDE DEF D
  <2> QED BY <2>1, <2>3, <2>4
<1>4. Min(D) \in D /\ \A d \in D : Min(D) =< d
  <2> HIDE DEF D
  <2> QED BY <1>3 DEF Min
<1>5. Min(D) =< n - Max(T) /\ n - Max(T) =< Min(D) BY <1>3, <1>4
<1>6. Min(D) \in Int /\ Max(T) \in Int BY <1>2, <1>4
<1> QED BY <1>2, <1>5, <1>6

(* The search looks at the results in the order they were written.         *)
LEMMA OldestMet ==
    ASSUME TypeOK, Filled PROVE ConnectionOfOldest
<1> DEFINE Hits == {i \in Slots : LookedAt(i).success}
           Good == {k \in DOMAIN Chronological : Chronological[k].success}
<1>1. Size \in Nat /\ Size > 0 BY SizeAssumption
<1>2. position \in Slots /\ position \in Nat /\ position < Size
  BY <1>1 DEF TypeOK, Slots
<1>3. \A i \in Slots : i \in Nat /\ i < Size BY <1>1 DEF Slots
<1>w. \A x \in Nat : x < 2 * Size => x % Size = IF x < Size THEN x ELSE x - Size
  BY Wrap
<1> SUFFICES ASSUME NEW n \in Nat, Hits \in SUBSET (0 .. n - 1),
                    Good = {n - i : i \in Hits},
                    \A i \in Hits : Chronological[n - i] = LookedAt(i)
             PROVE  ConnectionOfOldest
  <2> DEFINE Goal(n) == /\ n \in Nat /\ Hits \in SUBSET (0 .. n - 1)
                        /\ Good = {n - i : i \in Hits}
                        /\ \A i \in Hits : Chronological[n - i] = LookedAt(i)
  <2>1. CASE history[position] = Empty
    <3>1. Chronological = [k \in 1 .. position |-> history[k - 1]] BY <2>1 DEF Chronological
    <3>2. ASSUME NEW i \in Slots
          PROVE  LookedAt(i) = IF i < position THEN history[position - (1 + i)]
                               ELSE history[((position + Size) - 1) - i]
      <4>1. PICK x \in Nat : x = position - 1 - i + Size /\ x = ((position + Size) - 1) - i
        BY <1>1, <1>2, <1>3
      <4>2. x < 2 * Size BY <1>1, <1>2, <1>3, <4>1
      <4>3. x % Size = IF x < Size THEN x ELSE x - Size BY <1>w, <4>2
      <4>4. /\ x < Size <=> ~(i < position)
            /\ x - Size = position - (1 + i)
        BY <1>1, <1>2, <1>3, <4>1
      <4>5. LookedAt(i) = history[x % Size] BY <4>1 DEF LookedAt
      <4> QED BY <4>1, <4>3, <4>4, <4>5, Zenon
    <3>3. ASSUME NEW i \in Slots, ~(i < position) PROVE ~LookedAt(i).success
      <4>1. ((position + Size) - 1) - i \in Slots /\ position <= ((position + Size) - 1) - i
        BY <1>1, <1>2, <1>3, <3>3 DEF Slots
      <4>2. history[((position + Size) - 1) - i] = Empty BY <2>1, <4>1 DEF Filled
      <4>3. LookedAt(i) = Empty BY <3>2, <3>3, <4>2
      <4>4. Empty.success = FALSE BY DEF Empty
      <4> QED BY <4>3, <4>4
    <3>4. Hits \in SUBSET (0 .. position - 1)
      <4>1. ASSUME NEW i \in Slots, LookedAt(i).success PROVE i \in 0 .. position - 1
        <5>1. i < position BY <3>3, <4>1
        <5> QED BY <1>2, <1>3, <5>1
      <4> QED BY <4>1
    <3>5. \A i \in 0 .. position - 1 : /\ i \in Slots
                                       /\ position - i \in 1 .. position
                                       /\ LookedAt(i) = Chronological[position - i]
      <4>1. ASSUME NEW i \in 0 .. position - 1
            PROVE  i \in Slots /\ position - i \in 1 .. position /\ i < position
                   /\ (position - i) - 1 = position - (1 + i)
        BY <1>1, <1>2 DEF Slots
      <4> QED BY <3>1, <3>2, <4>1
    <3>6. Good = {position - i : i \in Hits}
      <4>1. DOMAIN Chronological = 1 .. position BY <3>1
      <4>2. \A k \in 1 .. position : position - k \in 0 .. position - 1 /\ position - (position - k) = k
        BY <1>2
      <4> QED BY <1>2, <3>4, <3>5, <4>1, <4>2
    <3>7. Goal(position)
      <4> HIDE DEF Hits, Good
      <4> QED BY <1>2, <3>4, <3>5, <3>6
    <3> QED BY <3>7
  <2>2. CASE history[position] # Empty
    <3>1. Chronological = [k \in 1 .. Size |-> history[(position + k - 1) % Size]] BY <2>2 DEF Chronological
    <3>2. ASSUME NEW i \in Slots
          PROVE  Size - i \in 1 .. Size /\ LookedAt(i) = Chronological[Size - i]
      <4>1. Size - i \in 1 .. Size BY <1>1, <1>3
      <4>2. position + (Size - i) - 1 = position - 1 - i + Size BY <1>1, <1>2, <1>3
      <4> QED BY <3>1, <4>1, <4>2 DEF LookedAt
    <3>3. Hits \in SUBSET (0 .. Size - 1) BY DEF Slots
    <3>4. Good = {Size - i : i \in Hits}
      <4>1. DOMAIN Chronological = 1 .. Size BY <3>1
      <4>2. \A k \in 1 .. Size : Size - k \in Slots /\ Size - (Size - k) = k
        BY <1>1 DEF Slots
      <4> QED BY <1>1, <3>2, <4>1, <4>2
    <3>5. Goal(Size)
      <4> HIDE DEF Hits, Good
      <4>1. Hits \in SUBSET Slots BY DEF Hits
      <4> QED BY <1>1, <3>2, <3>3, <3>4, <4>1
    <3> QED BY <3>5
  <2> QED BY <2>1, <2>2
<1> HIDE DEF Hits, Good
<1>4. CASE Hits = {}
  <2>1. Good = {} BY <1>4
  <2> QED BY <1>4, <2>1 DEF ConnectionOfOldest, ConnectionType, Hits, Good
<1>5. CASE Hits # {}
  <2>1. Max(Hits) \in Hits /\ Min(Good) = n - Max(Hits) BY <1>5, FarthestIsOldest
  <2>2. Good # {} BY <1>5
  <2>3. Chronological[Min(Good)] = LookedAt(Max(Hits)) BY <2>1
  <2> QED BY <1>5, <2>2, <2>3 DEF ConnectionOfOldest, ConnectionType, Hits, Good
<1> QED BY <1>4, <1>5

(* Filled holds at any time.                                               *)
THEOREM FilledInRounds == Spec => []Filled
<1>1. TypeOK /\ Filled /\ [Next]_vars => Filled'
  <2> SUFFICES ASSUME TypeOK, Filled, [Next]_vars
               PROVE  Filled'
    OBVIOUS
  <2>1. ASSUME NEW r \in Results, AddResult(r)
        PROVE  Filled'
    BY <2>1, AddWrites, FilledStep
  <2>2. CASE UNCHANGED vars
    BY <2>2 DEF vars, Filled
  <2>3. QED
    BY <2>1, <2>2 DEF Next
<1>2. QED
  BY <1>1, InitFilled, TypeCorrect, PTL DEF Spec

(* The ring buffer implements the window of the last Size results: it      *)
(* forgets the oldest result and no other, and keeps their order.          *)
THEOREM RingImplementsWindow == Spec => ImplementsWindow
<1>1. TypeOK /\ Filled /\ Filled' /\ [Next]_vars
        => [Window!WindowNext]_Chronological
  <2> SUFFICES ASSUME TypeOK, Filled, Filled', [Next]_vars
               PROVE  [Window!WindowNext]_Chronological
    OBVIOUS
  <2>1. ASSUME NEW r \in Results, AddResult(r)
        PROVE  Window!WindowNext
    <3>1. Window!Record(r)
      BY <2>1, AddWrites, RecordStep
    <3>2. QED
      BY <3>1 DEF Window!WindowNext
  <2>2. CASE UNCHANGED vars
    BY <2>2 DEF vars, Chronological
  <2>3. QED
    BY <2>1, <2>2 DEF Next
<1>2. QED
  BY <1>1, InitWindow, TypeCorrect, FilledInRounds, PTL
     DEF Spec, ImplementsWindow, Window!WindowSpec

(* The connection type GetStats reports is that of the oldest successful   *)
(* result remembered, at any time and for any size.                        *)
THEOREM OldestConnection == Spec => []ConnectionOfOldest
<1>1. TypeOK /\ Filled => ConnectionOfOldest
  BY OldestMet
<1>2. QED
  BY <1>1, TypeCorrect, FilledInRounds, PTL

=============================================================================

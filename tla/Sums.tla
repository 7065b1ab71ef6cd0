-------------------------------- MODULE Sums --------------------------------
(***************************************************************************)
(* Facts about sums over the values of a function on a finite set, for the *)
(* running totals of a ping history: what one changed value does to the    *)
(* sum, what a sum of ones counts, and the bounds an average and a         *)
(* variance lie in.  SumFunction takes the values in the order in which    *)
(* CHOOSE finds their indices; IsSum(g, f, U) says that g gives the sum of *)
(* f over each subset of U, taken in that order.                           *)
(***************************************************************************)
EXTENDS Integers, FiniteSets, FiniteSetsExt, FiniteSetTheorems,
        WellFoundedInduction, TLAPS

(* The member of a set that the sum takes first.                           *)
First(s) == CHOOSE x \in s : TRUE

IsSum(g, f, U) ==
    g = [s \in SUBSET U |-> IF s = {} THEN 0 ELSE f[First(s)] + g[s \ {First(s)}]]

(* Any numbers have a least.                                               *)
LEMMA Least ==
    ASSUME NEW T \in SUBSET Nat, T # {}
    PROVE  \E x \in T : \A y \in T : x <= y
<1>1. PICK x \in T : \A y \in T : <<y, x>> \notin OpToRel(<, Nat)
  BY WFMin, NatLessThanWellFounded, Zenon
<1>2. \A y \in T : ~(y < x) BY <1>1, Zenon DEF OpToRel
<1> QED BY <1>2

(* Induction over the subsets of a finite set; C stands for the property.  *)
LEMMA SubsetInduction ==
    ASSUME NEW U, IsFiniteSet(U), NEW C \in SUBSET (SUBSET U), {} \in C,
           \A s \in SUBSET U : s # {} /\ s \ {First(s)} \in C => s \in C
    PROVE  C = SUBSET U
<1> SUFFICES ASSUME C # SUBSET U PROVE FALSE OBVIOUS
<1> DEFINE B == (SUBSET U) \ C
           T == {Cardinality(s) : s \in B}
<1>1. \A s \in SUBSET U : IsFiniteSet(s) /\ Cardinality(s) \in Nat
  BY FS_Subset, FS_CardinalityType
<1>2. T \in SUBSET Nat /\ T # {} BY <1>1
<1>3. PICK x \in T : \A y \in T : x <= y BY <1>2, Least
<1>4. PICK s \in B : x = Cardinality(s) BY <1>3
<1>5. s # {} BY <1>4
<1>6. First(s) \in s BY <1>5 DEF First
<1> DEFINE r == s \ {First(s)}
<1>7. Cardinality(r) = Cardinality(s) - 1 BY <1>1, <1>4, <1>6, FS_RemoveElement
<1>8. r \in B BY <1>4, <1>5
<1>9. Cardinality(r) \in T BY <1>8
<1>10. x <= Cardinality(r) BY <1>3, <1>9
<1>11. Cardinality(s) \in Nat BY <1>1, <1>4
<1> QED BY <1>4, <1>7, <1>10, <1>11

(* Two sums over the subsets of one set agree.                             *)
LEMMA SumUnique ==
    ASSUME NEW U, IsFiniteSet(U), NEW f, NEW g, NEW h, IsSum(g, f, U), IsSum(h, f, U)
    PROVE  g = h
<1> DEFINE C == {s \in SUBSET U : g[s] = h[s]}
<1>1. {} \in C BY DEF IsSum
<1>2. ASSUME NEW s \in SUBSET U, s # {}, s \ {First(s)} \in C PROVE s \in C
  BY <1>2 DEF IsSum
<1>3. C = SUBSET U
  <2> HIDE DEF C
  <2>1. C \in SUBSET (SUBSET U) BY DEF C
  <2> QED BY <1>1, <1>2, <2>1, SubsetInduction
<1>4. g = [s \in SUBSET U |-> g[s]] /\ h = [s \in SUBSET U |-> h[s]] BY DEF IsSum
<1>5. \A s \in SUBSET U : g[s] = h[s] BY <1>3
<1> QED BY <1>4, <1>5

(* Induction over the naturals; C stands for the property.                 *)
LEMMA CountInduction ==
    ASSUME NEW C \in SUBSET Nat, 0 \in C, \A n \in C : n + 1 \in C
    PROVE  C = Nat
<1> SUFFICES ASSUME C # Nat PROVE FALSE OBVIOUS
<1> DEFINE T == Nat \ C
<1>1. T \in SUBSET Nat /\ T # {} OBVIOUS
<1>2. PICK x \in T : \A y \in T : x <= y BY <1>1, Least
<1>3. x \in Nat /\ x # 0 /\ x - 1 \in Nat BY <1>2
<1>4. x - 1 \in T
  <2>1. x - 1 \in C => (x - 1) + 1 \in C OBVIOUS
  <2> QED BY <1>2, <1>3, <2>1
<1> QED BY <1>2, <1>3, <1>4

(* The subsets of up to n members, and a sum over these only.              *)
Small(U, n) == {s \in SUBSET U : Cardinality(s) <= n}
PartSum(g, f, U, n) ==
    g = [s \in Small(U, n) |-> IF s = {} THEN 0 ELSE f[First(s)] + g[s \ {First(s)}]]

(* Every function has a sum.                                               *)
LEMMA SumExists ==
    ASSUME NEW U, IsFiniteSet(U), NEW f
    PROVE  \E g : IsSum(g, f, U)
<1>1. \A s \in SUBSET U : /\ IsFiniteSet(s) /\ Cardinality(s) \in Nat
                          /\ s # {} => /\ First(s) \in s
                                       /\ Cardinality(s \ {First(s)}) = Cardinality(s) - 1
  <2>1. ASSUME NEW s \in SUBSET U PROVE IsFiniteSet(s) /\ Cardinality(s) \in Nat
    BY FS_Subset, FS_CardinalityType
  <2>2. ASSUME NEW s \in SUBSET U, s # {} PROVE First(s) \in s
    BY <2>2 DEF First
  <2>3. ASSUME NEW s \in SUBSET U, s # {} PROVE Cardinality(s \ {First(s)}) = Cardinality(s) - 1
    BY <2>1, <2>2, <2>3, FS_RemoveElement
  <2> QED BY <2>1, <2>2, <2>3
<1> DEFINE C == {n \in Nat : \E g : PartSum(g, f, U, n)}
<1>2. 0 \in C
  <2> DEFINE g == [s \in Small(U, 0) |-> 0]
  <2>1. ASSUME NEW s \in SUBSET U, Cardinality(s) <= 0, s # {} PROVE FALSE
    <3>1. Cardinality(s) \in Nat BY <1>1
    <3>2. Cardinality(s \ {First(s)}) = Cardinality(s) - 1 BY <1>1, <2>1
    <3>3. s \ {First(s)} \in SUBSET U OBVIOUS
    <3>4. Cardinality(s \ {First(s)}) \in Nat BY <1>1, <3>3
    <3> QED BY <2>1, <3>1, <3>2, <3>4
  <2>2. g = [s \in Small(U, 0) |-> IF s = {} THEN 0 ELSE f[First(s)] + g[s \ {First(s)}]]
    BY <2>1 DEF Small
  <2> QED BY <2>2 DEF PartSum
<1>3. ASSUME NEW n \in C PROVE n + 1 \in C
  <2>1. PICK g : PartSum(g, f, U, n) OBVIOUS
  <2> DEFINE h == [s \in Small(U, n + 1) |->
                     IF s = {} THEN 0 ELSE f[First(s)] + g[s \ {First(s)}]]
  <2>2. ASSUME NEW s \in Small(U, n + 1), s # {}
        PROVE  s \ {First(s)} \in Small(U, n) /\ s \ {First(s)} \in Small(U, n + 1)
    BY <1>1, <2>2 DEF Small
  <2>3. ASSUME NEW s \in Small(U, n) PROVE s \in Small(U, n + 1) /\ h[s] = g[s]
    <3>1. s \in Small(U, n + 1)
      <4>1. s \in SUBSET U /\ Cardinality(s) <= n /\ Cardinality(s) \in Nat /\ n \in Nat
        BY <1>1 DEF Small
      <4> QED BY <4>1 DEF Small
    <3>2. g[s] = IF s = {} THEN 0 ELSE f[First(s)] + g[s \ {First(s)}] BY <2>1 DEF PartSum
    <3> QED BY <3>1, <3>2
  <2>4. \A s \in Small(U, n + 1) :
          h[s] = IF s = {} THEN 0 ELSE f[First(s)] + h[s \ {First(s)}]
    BY <2>2, <2>3
  <2>5. h = [s \in Small(U, n + 1) |-> h[s]] OBVIOUS
  <2>6. PartSum(h, f, U, n + 1)
    <3> HIDE DEF h
    <3> QED BY <2>4, <2>5 DEF PartSum
  <2> QED BY <2>6
<1>4. C = Nat
  <2> HIDE DEF C
  <2>1. C \in SUBSET Nat BY DEF C
  <2> QED BY <1>2, <1>3, <2>1, CountInduction
<1>5. Cardinality(U) \in C BY <1>1, <1>4
<1>6. PICK g : PartSum(g, f, U, Cardinality(U)) BY <1>5
<1>7. Small(U, Cardinality(U)) = SUBSET U
  <2>1. \A s \in SUBSET U : Cardinality(s) <= Cardinality(U) BY FS_Subset
  <2> QED BY <2>1 DEF Small
<1> QED BY <1>6, <1>7 DEF PartSum, IsSum

(* A sum of integers is an integer.                                        *)
LEMMA SumType ==
    ASSUME NEW U, IsFiniteSet(U), NEW f \in [U -> Int], NEW g, IsSum(g, f, U)
    PROVE  \A s \in SUBSET U : g[s] \in Int
<1> DEFINE C == {s \in SUBSET U : g[s] \in Int}
<1>1. {} \in C BY DEF IsSum
<1>2. ASSUME NEW s \in SUBSET U, s # {}, s \ {First(s)} \in C PROVE s \in C
  <2>1. g[s] = f[First(s)] + g[s \ {First(s)}] BY <1>2 DEF IsSum
  <2>2. First(s) \in U BY <1>2 DEF First
  <2> QED BY <1>2, <2>1, <2>2
<1>3. C = SUBSET U
  <2> HIDE DEF C
  <2>1. C \in SUBSET (SUBSET U) BY DEF C
  <2> QED BY <1>1, <1>2, <2>1, SubsetInduction
<1> QED BY <1>3

(* One value changes.                                                      *)
Changes(e, f, p, v) == e = [f EXCEPT ![p] = v]

(* Changing one slot changes the sums over the sets that hold it.          *)
LEMMA SumUpdate ==
    ASSUME NEW U, IsFiniteSet(U), NEW f \in [U -> Int], NEW p \in U, NEW v \in Int,
           NEW e, Changes(e, f, p, v),
           NEW g, IsSum(g, f, U), NEW h, IsSum(h, e, U)
    PROVE  h[U] = g[U] - f[p] + v
<1> DEFINE C == {s \in SUBSET U : h[s] = IF p \in s THEN g[s] - f[p] + v ELSE g[s]}
<1>1. {} \in C BY DEF IsSum
<1>2. ASSUME NEW s \in SUBSET U, s # {}, s \ {First(s)} \in C PROVE s \in C
  <2> DEFINE r == s \ {First(s)}
  <2>1. g[s] = f[First(s)] + g[r] /\ h[s] = e[First(s)] + h[r] BY <1>2 DEF IsSum
  <2>2. First(s) \in s /\ r \in SUBSET U BY <1>2 DEF First
  <2>3. g[r] \in Int /\ f[p] \in Int /\ f[First(s)] \in Int BY <2>2, SumType
  <2>4. h[r] = IF p \in r THEN g[r] - f[p] + v ELSE g[r] BY <1>2
  <2>5. e[First(s)] = IF First(s) = p THEN v ELSE f[First(s)] BY <2>2 DEF Changes
  <2>6. CASE First(s) = p
    <3>1. p \notin r /\ p \in s BY <2>2, <2>6
    <3> QED BY <2>1, <2>3, <2>4, <2>5, <2>6, <3>1
  <2>7. CASE First(s) # p
    <3>1. p \in r <=> p \in s BY <2>7
    <3> QED BY <2>1, <2>3, <2>4, <2>5, <2>7, <3>1
  <2> QED BY <2>6, <2>7
<1>3. C = SUBSET U
  <2> HIDE DEF C
  <2>1. C \in SUBSET (SUBSET U) BY DEF C
  <2> QED BY <1>1, <1>2, <2>1, SubsetInduction
<1> QED BY <1>3

(* A sum of zeros.                                                         *)
LEMMA SumOfZeros ==
    ASSUME NEW U, IsFiniteSet(U), NEW f, \A i \in U : f[i] = 0, NEW g, IsSum(g, f, U)
    PROVE  g[U] = 0
<1> DEFINE C == {s \in SUBSET U : g[s] = 0}
<1>1. {} \in C BY DEF IsSum
<1>2. ASSUME NEW s \in SUBSET U, s # {}, s \ {First(s)} \in C PROVE s \in C
  <2>1. g[s] = f[First(s)] + g[s \ {First(s)}] BY <1>2 DEF IsSum
  <2>2. First(s) \in U BY <1>2 DEF First
  <2> QED BY <1>2, <2>1, <2>2
<1>3. C = SUBSET U
  <2> HIDE DEF C
  <2>1. C \in SUBSET (SUBSET U) BY DEF C
  <2> QED BY <1>1, <1>2, <2>1, SubsetInduction
<1> QED BY <1>3

(* The number of members of a subset, slot by slot.                        *)
LEMMA SumCounts ==
    ASSUME NEW U, IsFiniteSet(U), NEW S \in SUBSET U, NEW f,
           \A i \in U : f[i] = IF i \in S THEN 1 ELSE 0, NEW g, IsSum(g, f, U)
    PROVE  g[U] = Cardinality(S)
<1> DEFINE C == {s \in SUBSET U : g[s] = Cardinality(S \cap s)}
<1>0. \A s \in SUBSET U : IsFiniteSet(S \cap s) /\ Cardinality(S \cap s) \in Nat
  BY FS_Subset, FS_CardinalityType
<1>1. {} \in C
  <2>1. S \cap {} = {} OBVIOUS
  <2>2. Cardinality({}) = 0 BY FS_EmptySet
  <2>3. g[{}] = 0 BY DEF IsSum
  <2>4. Cardinality(S \cap {}) = 0 BY <2>1, <2>2
  <2>5. g[{}] = Cardinality(S \cap {}) BY <2>3, <2>4
  <2>6. {} \in SUBSET U OBVIOUS
  <2> QED BY <2>5, <2>6, Zenon
<1>2. ASSUME NEW s \in SUBSET U, s # {}, s \ {First(s)} \in C PROVE s \in C
  <2> DEFINE r == s \ {First(s)}
  <2>1. g[s] = f[First(s)] + g[r] BY <1>2 DEF IsSum
  <2>2. First(s) \in s /\ r \in SUBSET U BY <1>2 DEF First
  <2>3. CASE First(s) \in S
    <3>1. S \cap s = (S \cap r) \cup {First(s)} /\ First(s) \notin S \cap r BY <2>2, <2>3
    <3>2. Cardinality(S \cap s) = Cardinality(S \cap r) + 1
      BY <1>0, <2>2, <3>1, FS_AddElement
    <3>3. f[First(s)] = 1 BY <2>2, <2>3
    <3> QED BY <1>0, <1>2, <2>1, <2>2, <3>2, <3>3
  <2>4. CASE First(s) \notin S
    <3>1. S \cap s = S \cap r BY <2>2, <2>4
    <3>2. f[First(s)] = 0 BY <2>2, <2>4
    <3>3. Cardinality(S \cap s) = Cardinality(S \cap r) BY <3>1
    <3>4. g[r] = Cardinality(S \cap r) BY <1>2
    <3>5. Cardinality(S \cap r) \in Nat BY <1>0, <2>2
    <3>6. g[s] = g[r] BY <2>1, <3>2, <3>4, <3>5
    <3>7. g[s] = Cardinality(S \cap s) BY <3>3, <3>4, <3>6
    <3> QED BY <3>7
  <2> QED BY <2>3, <2>4
<1>3. C = SUBSET U
  <2> HIDE DEF C
  <2>1. C \in SUBSET (SUBSET U) BY DEF C
  <2> QED BY <1>1, <1>2, <2>1, SubsetInduction
<1>4. S \cap U = S OBVIOUS
<1> QED BY <1>3, <1>4

(* SumFunction is such a sum.                                              *)
LEMMA SumIs ==
    ASSUME NEW U, IsFiniteSet(U), NEW f, DOMAIN f = U, NEW g, IsSum(g, f, U)
    PROVE  SumFunction(f) = g[U]
<1> DEFINE it == CHOOSE h : h = [s \in SUBSET U |->
                   IF s = {} THEN 0
                   ELSE f[CHOOSE x \in s : TRUE] + h[s \ {CHOOSE x \in s : TRUE}]]
<1>1. SumFunction(f) = it[U]
  BY Zenon DEF SumFunction, SumFunctionOnSet, FoldFunctionOnSet, MapThenFoldSet
<1>2. g = [s \in SUBSET U |-> IF s = {} THEN 0
             ELSE f[CHOOSE x \in s : TRUE] + g[s \ {CHOOSE x \in s : TRUE}]]
  BY Zenon DEF IsSum, First
<1>3. it = [s \in SUBSET U |-> IF s = {} THEN 0
             ELSE f[CHOOSE x \in s : TRUE] + it[s \ {CHOOSE x \in s : TRUE}]]
  <2>1. \E h : h = [s \in SUBSET U |-> IF s = {} THEN 0
             ELSE f[CHOOSE x \in s : TRUE] + h[s \ {CHOOSE x \in s : TRUE}]]
    BY <1>2, Zenon
  <2> QED BY <2>1, Zenon
<1> HIDE DEF it
<1>4. IsSum(it, f, U) BY <1>3, Zenon DEF IsSum, First
<1> QED BY <1>1, <1>4, SumUnique

(* Replacing one value changes the sum by the difference.                  *)
LEMMA SumChanged ==
    ASSUME NEW U, IsFiniteSet(U), NEW f \in [U -> Int], NEW p \in U, NEW v \in Int,
           NEW e, Changes(e, f, p, v)
    PROVE  SumFunction(e) = SumFunction(f) - f[p] + v
<1>1. PICK g, h : IsSum(g, f, U) /\ IsSum(h, e, U) BY SumExists
<1>2. DOMAIN f = U /\ DOMAIN e = U BY DEF Changes
<1>3. h[U] = g[U] - f[p] + v BY <1>1, SumUpdate
<1>4. SumFunction(f) = g[U] /\ SumFunction(e) = h[U] BY <1>1, <1>2, SumIs
<1> QED BY <1>3, <1>4

(* The sum of zeros, for SumFunction.                                      *)
LEMMA SumZero ==
    ASSUME NEW U, IsFiniteSet(U), NEW f, DOMAIN f = U, \A i \in U : f[i] = 0
    PROVE  SumFunction(f) = 0
<1>1. PICK g : IsSum(g, f, U) BY SumExists
<1> QED BY <1>1, SumIs, SumOfZeros

(* Three sums over the members of S: their number, their latencies and the *)
(* squares of these.                                                       *)
Totals(U, S, l, c, t, q) ==
    /\ S \in SUBSET U /\ \A i \in S : l[i] \in Int
    /\ IsSum(c, [i \in U |-> IF i \in S THEN 1 ELSE 0], U)
    /\ IsSum(t, [i \in U |-> IF i \in S THEN l[i] ELSE 0], U)
    /\ IsSum(q, [i \in U |-> IF i \in S THEN l[i] * l[i] ELSE 0], U)

(* One more slot: it adds to the three sums if it is in S.                *)
LEMMA TotalsStep ==
    ASSUME NEW U, IsFiniteSet(U), NEW S, NEW l, NEW c, NEW t, NEW q,
           Totals(U, S, l, c, t, q), NEW s \in SUBSET U, s # {}
    PROVE  LET i == First(s)
               r == s \ {First(s)}
           IN  /\ i \in U /\ r \in SUBSET U
               /\ c[r] \in Int /\ t[r] \in Int /\ q[r] \in Int
               /\ i \in S => /\ l[i] \in Int
                             /\ c[s] = c[r] + 1 /\ t[s] = t[r] + l[i]
                             /\ q[s] = q[r] + l[i] * l[i]
               /\ i \notin S => c[s] = c[r] /\ t[s] = t[r] /\ q[s] = q[r]
<1> DEFINE i == First(s)
           r == s \ {First(s)}
           fc == [j \in U |-> IF j \in S THEN 1 ELSE 0]
           ft == [j \in U |-> IF j \in S THEN l[j] ELSE 0]
           fq == [j \in U |-> IF j \in S THEN l[j] * l[j] ELSE 0]
<1>1. i \in U /\ r \in SUBSET U BY DEF First
<1>2. fc \in [U -> Int] /\ ft \in [U -> Int] /\ fq \in [U -> Int]
  <2>1. \A j \in S : l[j] \in Int /\ l[j] * l[j] \in Int BY DEF Totals
  <2> QED BY <2>1
<1>3. IsSum(c, fc, U) /\ IsSum(t, ft, U) /\ IsSum(q, fq, U) BY DEF Totals
<1>4. /\ fc[i] = IF i \in S THEN 1 ELSE 0
      /\ ft[i] = IF i \in S THEN l[i] ELSE 0
      /\ fq[i] = IF i \in S THEN l[i] * l[i] ELSE 0
  BY <1>1
<1> HIDE DEF fc, ft, fq
<1>5. c[r] \in Int /\ t[r] \in Int /\ q[r] \in Int BY <1>1, <1>2, <1>3, SumType
<1>6. c[s] = fc[i] + c[r] /\ t[s] = ft[i] + t[r] /\ q[s] = fq[i] + q[r]
  BY <1>3 DEF IsSum
<1>7. i \in S => l[i] \in Int /\ l[i] * l[i] \in Int BY DEF Totals
<1> HIDE DEF i, r
<1> QED BY <1>1, <1>4, <1>5, <1>6, <1>7 DEF i, r

(* The sums over no slots.                                                 *)
LEMMA TotalsStart ==
    ASSUME NEW U, NEW S, NEW l, NEW c, NEW t, NEW q, Totals(U, S, l, c, t, q)
    PROVE  c[{}] = 0 /\ t[{}] = 0 /\ q[{}] = 0
  BY DEF Totals, IsSum

(* The square that one more latency m adds.                                *)
LEMMA SquaresAddUp ==
    ASSUME NEW x \in Int, NEW y \in Int, NEW z \in Int, NEW a \in Int, NEW b \in Int, NEW m \in Int,
           a * a * x - 2 * a * b * y + b * b * z >= 0
    PROVE  a * a * (x + m * m) - 2 * a * b * (y + m) + b * b * (z + 1) >= 0
<1>1. (a * m - b) * (a * m - b) >= 0
  <2>1. a * m - b \in Int OBVIOUS
  <2>2. \A k \in Int : k * k >= 0 OBVIOUS
  <2> QED BY <2>1, <2>2
<1>2. a * a * (x + m * m) - 2 * a * b * (y + m) + b * b * (z + 1)
        = (a * a * x - 2 * a * b * y + b * b * z) + (a * m - b) * (a * m - b)
  OBVIOUS
<1>3. a * a * x - 2 * a * b * y + b * b * z \in Int /\ (a * m - b) * (a * m - b) \in Int
  OBVIOUS
<1> QED BY <1>1, <1>2, <1>3

(* The sum of the squares of a * l[i] - b is not negative.                 *)
NoLess(a, b, x, y, z) == a * a * x - 2 * a * b * y + b * b * z >= 0

LEMMA SquaresSum ==
    ASSUME NEW U, IsFiniteSet(U), NEW S, NEW l, NEW c, NEW t, NEW q,
           Totals(U, S, l, c, t, q), NEW a \in Int, NEW b \in Int
    PROVE  NoLess(a, b, q[U], t[U], c[U])
<1> DEFINE V(x, y, z) == a * a * x - 2 * a * b * y + b * b * z
           C == {s \in SUBSET U : V(q[s], t[s], c[s]) >= 0}
<1>1. {} \in C BY TotalsStart
<1>2. ASSUME NEW s \in SUBSET U, s # {}, s \ {First(s)} \in C PROVE s \in C
  <2> DEFINE r == s \ {First(s)}
  <2>1. /\ q[r] \in Int /\ t[r] \in Int /\ c[r] \in Int
        /\ \/ /\ l[First(s)] \in Int
              /\ c[s] = c[r] + 1 /\ t[s] = t[r] + l[First(s)]
              /\ q[s] = q[r] + l[First(s)] * l[First(s)]
           \/ c[s] = c[r] /\ t[s] = t[r] /\ q[s] = q[r]
    BY <1>2, TotalsStep
  <2>2. V(q[r], t[r], c[r]) >= 0 BY <1>2
  <2> HIDE DEF r
  <2>3. V(q[s], t[s], c[s]) >= 0
    <3>1. CASE c[s] = c[r] /\ t[s] = t[r] /\ q[s] = q[r] BY <2>2, <3>1
    <3>2. CASE /\ l[First(s)] \in Int
               /\ c[s] = c[r] + 1 /\ t[s] = t[r] + l[First(s)]
               /\ q[s] = q[r] + l[First(s)] * l[First(s)]
      BY <2>1, <2>2, <3>2, SquaresAddUp
    <3> QED BY <2>1, <3>1, <3>2
  <2> HIDE DEF V
  <2> QED BY <2>3
<1>3. C = SUBSET U
  <2> HIDE DEF C
  <2>1. C \in SUBSET (SUBSET U) BY DEF C
  <2> QED BY <1>1, <1>2, <2>1, SubsetInduction
<1> QED BY <1>3 DEF NoLess

(* The latencies' sum lies between the least and the most times their      *)
(* number.                                                                 *)
LEMMA SumBetween ==
    ASSUME NEW U, IsFiniteSet(U), NEW S, NEW l, NEW c, NEW t, NEW q,
           Totals(U, S, l, c, t, q), NEW m \in Int, NEW n \in Int,
           \A i \in S : m <= l[i] /\ l[i] <= n
    PROVE  m * c[U] <= t[U] /\ t[U] <= n * c[U]
<1> DEFINE C == {s \in SUBSET U : m * c[s] <= t[s] /\ t[s] <= n * c[s]}
<1>1. {} \in C BY TotalsStart
<1>2. ASSUME NEW s \in SUBSET U, s # {}, s \ {First(s)} \in C PROVE s \in C
  <2> DEFINE r == s \ {First(s)}
  <2>1. /\ t[r] \in Int /\ c[r] \in Int
        /\ \/ /\ First(s) \in S /\ l[First(s)] \in Int
              /\ c[s] = c[r] + 1 /\ t[s] = t[r] + l[First(s)]
           \/ c[s] = c[r] /\ t[s] = t[r]
    BY <1>2, TotalsStep
  <2>2. m * c[r] <= t[r] /\ t[r] <= n * c[r] BY <1>2
  <2>3. m * (c[r] + 1) = m * c[r] + m /\ n * (c[r] + 1) = n * c[r] + n BY <2>1
  <2>4. m * c[r] \in Int /\ n * c[r] \in Int BY <2>1
  <2> HIDE DEF r
  <2> QED BY <2>1, <2>2, <2>3, <2>4
<1>3. C = SUBSET U
  <2> HIDE DEF C
  <2>1. C \in SUBSET (SUBSET U) BY DEF C
  <2> QED BY <1>1, <1>2, <2>1, SubsetInduction
<1> QED BY <1>3

(* ... and when all are the same, their squares' sum is known.             *)
LEMMA SumOfSame ==
    ASSUME NEW U, IsFiniteSet(U), NEW S, NEW l, NEW c, NEW t, NEW q,
           Totals(U, S, l, c, t, q), NEW v \in Int, \A i \in S : l[i] = v
    PROVE  t[U] = v * c[U] /\ q[U] = v * v * c[U]
<1> DEFINE C == {s \in SUBSET U : t[s] = v * c[s] /\ q[s] = v * v * c[s]}
<1>1. {} \in C BY TotalsStart
<1>2. ASSUME NEW s \in SUBSET U, s # {}, s \ {First(s)} \in C PROVE s \in C
  <2> DEFINE r == s \ {First(s)}
  <2>1. /\ t[r] \in Int /\ c[r] \in Int /\ q[r] \in Int
        /\ \/ c[s] = c[r] + 1 /\ t[s] = t[r] + v /\ q[s] = q[r] + v * v
           \/ c[s] = c[r] /\ t[s] = t[r] /\ q[s] = q[r]
    BY <1>2, TotalsStep
  <2>2. t[r] = v * c[r] /\ q[r] = v * v * c[r] BY <1>2
  <2>3. v * (c[r] + 1) = v * c[r] + v /\ v * v * (c[r] + 1) = v * v * c[r] + v * v BY <2>1
  <2> HIDE DEF r
  <2> QED BY <2>1, <2>2, <2>3
<1>3. C = SUBSET U
  <2> HIDE DEF C
  <2>1. C \in SUBSET (SUBSET U) BY DEF C
  <2> QED BY <1>1, <1>2, <2>1, SubsetInduction
<1> QED BY <1>3

=============================================================================

---------------------------- MODULE StepInduction ----------------------------
(* Induction and recursion over numbers, for functions that are computed    *)
(* step by step.  The library's principles take an operator, which no       *)
(* prover here instantiates; that every set of naturals has a least element *)
(* does not.                                                                *)
EXTENDS Integers, WellFoundedInduction, TLAPS

LEMMA NatLeast ==
  ASSUME NEW T \in SUBSET Nat, T # {}
  PROVE  \E x \in T : \A y \in T : x <= y
<1> DEFINE R == OpToRel(<, Nat)
<1>1. \A x, y \in Nat : <<x, y>> \in R <=> x < y
  BY DEF OpToRel
<1>2. IsWellFoundedOn(R, Nat)
  BY NatLessThanWellFounded
<1> HIDE DEF R
<1>3. PICK x \in T : \A y \in T : <<y, x>> \notin R
  BY <1>2, WFMin
<1>4. \A y \in T : ~(y < x)
  BY <1>1, <1>3
<1>5. x \in Nat /\ \A y \in T : y \in Nat
  OBVIOUS
<1>6. QED
  BY <1>4, <1>5

(* Induction from m to n. *)
LEMMA Upwards ==
  ASSUME NEW m \in Int, NEW n \in Int, NEW T, m \in T,
         \A i \in m..n : i # m /\ i - 1 \in T => i \in T
  PROVE  m..n \subseteq T
<1> DEFINE Bad == {k \in Nat : m + k <= n /\ m + k \notin T}
<1>1. Bad = {}
  <2>1. SUFFICES ASSUME Bad # {} PROVE FALSE
    OBVIOUS
  <2>2. PICK k \in Bad : \A l \in Bad : k <= l
    BY <2>1, NatLeast
  <2>3. k \in Nat /\ k # 0 /\ m + k <= n /\ m + k \notin T
    <3>1. k \in Nat /\ m + k <= n /\ m + k \notin T
      OBVIOUS
    <3>2. k # 0
      <4>1. CASE k = 0
        <5>1. m + k = m
          BY <4>1
        <5>2. QED
          BY <3>1, <5>1
      <4>2. QED
        BY <4>1
    <3>3. QED
      BY <3>1, <3>2
  <2>4. k - 1 \in Nat /\ k - 1 \notin Bad
    BY <2>2, <2>3
  <2>5. m + k \in m..n /\ m + k # m /\ (m + k) - 1 = m + (k - 1) /\ m + (k - 1) <= n
    BY <2>3
  <2>6. m + (k - 1) \in T
    BY <2>4, <2>5
  <2>7. QED
    BY <2>3, <2>5, <2>6
<1>2. ASSUME NEW i \in m..n PROVE i \in T
  <2>1. i - m \in Nat /\ m + (i - m) = i /\ i <= n
    OBVIOUS
  <2>2. QED
    BY <1>1, <2>1
<1>3. QED
  BY <1>2

(* A function defined by its first value and a step has such a value.      *)
Stepwise(g, m, n, base, step) ==
  \A i \in m..n : g[i] = IF i = m THEN base ELSE step[<<g[i - 1], i>>]

LEMMA Iterated ==
  ASSUME NEW m \in Int, NEW n \in Int, m <= n, NEW S, NEW base \in S,
         NEW step \in [S \X (m..n) -> S]
  PROVE  \E g \in [m..n -> S] : Stepwise(g, m, n, base, step)
<1> DEFINE Up(k) == \E g \in [m..k -> S] :
             \A i \in m..k : g[i] = IF i = m THEN base ELSE step[<<g[i - 1], i>>]
           T == {k \in m..n : Up(k)}
<1>1. m \in T
  <2> DEFINE g == [i \in m..m |-> base]
  <2>1. m..m = {m} /\ m \in m..n
    OBVIOUS
  <2>2. g \in [m..m -> S] /\ \A i \in m..m : i = m /\ g[i] = base
    BY <2>1
  <2> HIDE DEF g
  <2>3. Up(m)
    BY <2>2
  <2>4. QED
    BY <2>1, <2>3
<1>2. ASSUME NEW k \in m..n, k # m, k - 1 \in T PROVE k \in T
  <2>1. PICK g \in [m..(k - 1) -> S] :
          \A i \in m..(k - 1) : g[i] = IF i = m THEN base ELSE step[<<g[i - 1], i>>]
    BY <1>2
  <2> DEFINE h == [i \in m..k |-> IF i = k THEN step[<<g[k - 1], k>>] ELSE g[i]]
  <2>2. step[<<g[k - 1], k>>] \in S
    <3>1. k - 1 \in m..(k - 1)
      BY <1>2
    <3>2. g[k - 1] \in S
      BY <2>1, <3>1
    <3>3. <<g[k - 1], k>> \in S \X (m..n)
      BY <3>2
    <3>4. QED
      BY <3>3
  <2>3. \A i \in m..k : i # k => i \in m..(k - 1)
    OBVIOUS
  <2>4. h \in [m..k -> S]
    BY <2>2, <2>3
  <2>5. h[k] = step[<<g[k - 1], k>>] /\ \A i \in m..(k - 1) : h[i] = g[i]
    BY <1>2
  <2>6. \A i \in m..k : i # m => i - 1 \in m..(k - 1)
    OBVIOUS
  <2> HIDE DEF h
  <2>7. \A i \in m..k : h[i] = IF i = m THEN base ELSE step[<<h[i - 1], i>>]
    BY <1>2, <2>1, <2>3, <2>5, <2>6
  <2>8. QED
    BY <2>4, <2>7
<1> HIDE DEF T
<1>3. m..n \subseteq T
  BY <1>1, <1>2, Upwards
<1>4. n \in T
  BY <1>3
<1>5. QED
  BY <1>4 DEF T, Stepwise
==============================================================================

-------------------------------- MODULE Loops --------------------------------
(***************************************************************************)
(* Induction over the rounds of a loop, for the models that write a loop of *)
(* the code as a recursive function on 0 .. N: such a function exists       *)
(* (LoopRuns), and what holds at first and after each round holds at last   *)
(* (InductionOnSet).                                                        *)
(***************************************************************************)
EXTENDS Integers, WellFoundedInduction, TLAPS

(* A set of numbers has a least one. *)
LEMMA LeastNumber ==
  ASSUME NEW T, T \subseteq Nat, T # {}
  PROVE  \E x \in T : \A y \in T : x <= y
<1> DEFINE L == OpToRel(<, Nat)
<1>1. IsWellFoundedOn(L, Nat)
  BY NatLessThanWellFounded
<1>2. \A x, y \in Nat : y < x => <<y, x>> \in L
  BY DEF OpToRel
<1> HIDE DEF L
<1>3. PICK x \in T : \A y \in T : ~(<<y, x>> \in L)
  BY <1>1, WFMin
<1>4. ASSUME NEW y \in T PROVE x <= y
  <2>1. x \in Nat /\ y \in Nat /\ ~(y < x)
    BY <1>2, <1>3
  <2> QED BY <2>1
<1> QED BY <1>4

(* A set that holds 0 and, with a number below N, the next one, holds all   *)
(* the numbers up to N.                                                     *)
LEMMA InductionOnSet ==
  ASSUME NEW N \in Nat, NEW S, 0 \in S, \A n \in 0 .. N - 1 : n \in S => n + 1 \in S
  PROVE  0 .. N \subseteq S
<1> SUFFICES ASSUME ~(0 .. N \subseteq S) PROVE FALSE
  OBVIOUS
<1> DEFINE T == (0 .. N) \ S
<1>1. T \subseteq Nat /\ T # {}
  OBVIOUS
<1>2. PICK x \in T : \A y \in T : x <= y
  BY <1>1, LeastNumber
<1>3. x \in 0 .. N /\ x # 0 /\ x \notin S /\ x - 1 \in 0 .. N - 1
  BY <1>2
<1>4. x - 1 \in S
  BY <1>2, <1>3
<1>5. (x - 1) + 1 \in S
  BY <1>3, <1>4
<1> QED BY <1>3, <1>5

IsRun(g, N, e, F) == g[0] = e /\ \A n \in 1 .. N : g[n] = F[<<g[n - 1], n>>]

(* A loop of N rounds has a run: from e, with F giving for what the loop has *)
(* and the number of the round what it has afterwards.                      *)
LEMMA LoopRuns ==
  ASSUME NEW N \in Nat, NEW V, NEW e \in V, NEW F \in [V \X (1 .. N) -> V]
  PROVE  \E g \in [0 .. N -> V] : IsRun(g, N, e, F)
<1> DEFINE S == {n \in 0 .. N : \E g \in [0 .. n -> V] : IsRun(g, n, e, F)}
<1>1. 0 \in S
  <2> DEFINE g == [i \in 0 .. 0 |-> e]
  <2>1. g \in [0 .. 0 -> V] /\ IsRun(g, 0, e, F) /\ 0 \in 0 .. N
    BY DEF IsRun
  <2> HIDE DEF g
  <2> QED BY <2>1
<1>2. ASSUME NEW n \in 0 .. N - 1, n \in S PROVE n + 1 \in S
  <2>1. PICK g \in [0 .. n -> V] : IsRun(g, n, e, F)
    BY <1>2
  <2> DEFINE h == [i \in 0 .. n + 1 |-> IF i = n + 1 THEN F[<<g[n], n + 1>>] ELSE g[i]]
  <2>2. F[<<g[n], n + 1>>] \in V
    BY <1>2
  <2>3. h \in [0 .. n + 1 -> V]
    BY <2>2
  <2>4. \A i \in 1 .. n + 1 : h[i] = F[<<h[i - 1], i>>]
    <3> TAKE i \in 1 .. n + 1
    <3>1. CASE i = n + 1
      <4>1. h[i] = F[<<g[n], n + 1>>] /\ h[i - 1] = g[n]
        BY <3>1
      <4> QED BY <3>1, <4>1
    <3>2. CASE i # n + 1
      <4>1. i \in 1 .. n /\ g[i] = F[<<g[i - 1], i>>]
        BY <2>1, <3>2 DEF IsRun
      <4>2. h[i] = g[i] /\ h[i - 1] = g[i - 1]
        BY <4>1
      <4> QED BY <4>1, <4>2
    <3> QED BY <3>1, <3>2
  <2>5. h[0] = e
    BY <2>1 DEF IsRun
  <2> HIDE DEF h
  <2>6. IsRun(h, n + 1, e, F)
    BY <2>4, <2>5 DEF IsRun
  <2> QED BY <2>3, <2>6
<1> HIDE DEF S
<1>3. 0 .. N \subseteq S
  BY <1>1, <1>2, InductionOnSet
<1>4. N \in S
  BY <1>3
<1> QED BY <1>4 DEF S

(* A loop that stays in V as long as it was there is always there. *)
LEMMA LoopStays ==
  ASSUME NEW N \in Nat, NEW V, NEW f, f[0] \in V, \A n \in 1 .. N : f[n - 1] \in V => f[n] \in V
  PROVE  \A n \in 0 .. N : f[n] \in V
<1> DEFINE S == {n \in 0 .. N : f[n] \in V}
<1>1. 0 \in S
  OBVIOUS
<1>2. ASSUME NEW n \in 0 .. N - 1, n \in S PROVE n + 1 \in S
  <2>1. n + 1 \in 1 .. N /\ (n + 1) - 1 = n /\ f[n] \in V
    BY <1>2
  <2> QED BY <2>1
<1> HIDE DEF S
<1>3. 0 .. N \subseteq S
  BY <1>1, <1>2, InductionOnSet
<1> QED BY <1>3 DEF S
=============================================================================

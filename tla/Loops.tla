-------------------------------- MODULE Loops -------------------------------
(***************************************************************************)
(* Lemmas about loops.  A loop of the code that builds its result a pass   *)
(* at a time is a recursive function on 0 .. N in the models; these are    *)
(* that there is one, and the induction that tells what it computes.       *)
(***************************************************************************)
EXTENDS Integers, FiniteSetTheorems, TLAPS

(* Induction: a property of naturals that fails has a least one for which  *)
(* it does.                                                                *)

(* The intervals up to the members of T are ordered by inclusion.          *)
LEMMA LeastNatural ==
  ASSUME NEW T \in SUBSET Nat, T # {}
  PROVE  \E m \in T : \A n \in T : m <= n
<1> DEFINE U == {0 .. n : n \in T}
<1>1. U \subseteq FiniteSubsetsOf(Nat)
  <2> SUFFICES ASSUME NEW n \in T PROVE 0 .. n \in FiniteSubsetsOf(Nat)
    OBVIOUS
  <2>1. IsFiniteSet(0 .. n) /\ 0 .. n \subseteq Nat
    BY FS_Interval
  <2> QED BY <2>1 DEF FiniteSubsetsOf
<1>2. U # {}
  OBVIOUS
<1>3. PICK x \in U : \A y \in U : <<y, x>> \notin StrictSubsetOrdering(Nat)
  BY <1>1, <1>2, FS_StrictSubsetOrderingWellFounded, WFMin
<1>4. PICK m \in T : x = 0 .. m
  OBVIOUS
<1>5. ASSUME NEW n \in T, n < m
      PROVE  FALSE
  <2>1. 0 .. n \in U /\ 0 .. n \subseteq 0 .. m /\ m \in 0 .. m /\ m \notin 0 .. n
    BY <1>5
  <2>2. <<0 .. n, 0 .. m>> \in StrictSubsetOrdering(Nat)
    BY <2>1 DEF StrictSubsetOrdering
  <2> QED BY <1>3, <1>4, <2>1, <2>2
<1> QED BY <1>5

(* What a loop computes in N steps: the n-th makes F[<<n, t>>] of t.       *)
Runs(g, N, T, base, F) ==
  /\ g \in [0 .. N -> T]
  /\ g[0] = base
  /\ \A n \in 1 .. N : g[n] = F[<<n, g[n - 1]>>]

LEMMA Recursion ==
  ASSUME NEW N \in Nat, NEW T, NEW base \in T, NEW F \in [(1 .. N) \X T -> T]
  PROVE  \E g : Runs(g, N, T, base, F)
<1> DEFINE Good(m) == \E g \in [0 .. m -> T] :
                        g[0] = base /\ \A n \in 1 .. m : g[n] = F[<<n, g[n - 1]>>]
           Bad == {m \in 0 .. N : ~Good(m)}
<1> SUFFICES ASSUME N \in Bad PROVE FALSE
  BY DEF Runs
<1>1. PICK m \in Bad : \A n \in Bad : m <= n
  <2> HIDE DEF Good
  <2>1. Bad \in SUBSET Nat /\ Bad # {}
    OBVIOUS
  <2> HIDE DEF Bad
  <2> QED BY <2>1, LeastNatural
<1>2. CASE m = 0
  <2> DEFINE g == [n \in 0 .. 0 |-> base]
  <2>1. g \in [0 .. m -> T] /\ g[0] = base
    BY <1>2
  <2>2. 1 .. m = {}
    BY <1>2
  <2> QED BY <2>1, <2>2
<1>3. CASE m # 0
  <2>1. m \in 1 .. N /\ m - 1 \in 0 .. N
    BY <1>3
  <2>2. Good(m - 1)
    <3>1. m - 1 \notin Bad
      BY <1>1, <2>1
    <3> QED BY <2>1, <3>1
  <2>3. PICK g \in [0 .. (m - 1) -> T] :
          g[0] = base /\ \A n \in 1 .. (m - 1) : g[n] = F[<<n, g[n - 1]>>]
    BY <2>2
  <2> DEFINE h == [n \in 0 .. m |-> IF n = m THEN F[<<m, g[m - 1]>>] ELSE g[n]]
  <2>4. g[m - 1] \in T
    BY <2>1
  <2>5. F[<<m, g[m - 1]>>] \in T
    BY <2>1, <2>4
  <2>6. h \in [0 .. m -> T]
    <3> SUFFICES ASSUME NEW n \in 0 .. m PROVE h[n] \in T
      OBVIOUS
    <3>1. CASE n = m
      BY <2>5, <3>1
    <3>2. CASE n # m
      <4>1. n \in 0 .. (m - 1)
        BY <2>1, <3>2
      <4> QED BY <4>1, <3>2
    <3> QED BY <3>1, <3>2
  <2>7. h[0] = base
    BY <2>1, <2>3
  <2>8. ASSUME NEW n \in 1 .. m
        PROVE  h[n] = F[<<n, h[n - 1]>>]
    <3>1. h[n - 1] = g[n - 1]
      BY <2>1
    <3>2. CASE n = m
      <4>1. h[m] = F[<<m, g[m - 1]>>]
        BY <2>1
      <4> HIDE DEF h
      <4> QED BY <3>1, <3>2, <4>1
    <3>3. CASE n # m
      <4>1. n \in 1 .. (m - 1) /\ h[n] = g[n]
        BY <2>1, <3>3
      <4> QED BY <4>1, <3>1, <2>3
    <3> QED BY <3>2, <3>3
  <2>9. Good(m)
    BY <2>6, <2>7, <2>8
  <2> QED BY <2>9
<1> QED BY <1>2, <1>3

=============================================================================

------------------------------ MODULE Induction ------------------------------
(***************************************************************************)
(* Induction and recursion over the naturals, stated for sets and          *)
(* functions so that their instances need no operator: a set that holds 0  *)
(* and is closed under successor holds every natural, and a step given as  *)
(* a function has a run.                                                   *)
(***************************************************************************)
EXTENDS Integers, WellFoundedInduction, TLAPS

-----------------------------------------------------------------------------
(* Induction over the naturals, in terms of sets. *)

LEMMA LeastNat ==
    ASSUME NEW T \in SUBSET Nat, T # {}
    PROVE  \E n \in T : \A m \in T : n <= m
<1> DEFINE R == OpToRel(<, Nat)
<1>1. IsWellFoundedOn(R, Nat)
  BY NatLessThanWellFounded
<1>2. \A m, n \in Nat : m < n => <<m, n>> \in R
  BY DEF OpToRel
<1> HIDE DEF R
<1>3. PICK n \in T : \A m \in T : ~(<<m, n>> \in R)
  BY <1>1, WFMin
<1>4. ASSUME NEW m \in T PROVE n <= m
  <2>1. m \in Nat /\ n \in Nat
    OBVIOUS
  <2>2. ~(m < n)
    BY <1>2, <1>3, <2>1
  <2> QED
    BY <2>1, <2>2
<1> QED
  BY <1>4

LEMMA InductiveSet ==
    ASSUME NEW T, 0 \in T, \A n \in Nat : n \in T => n + 1 \in T
    PROVE  Nat \subseteq T
<1> SUFFICES ASSUME Nat \ T # {} PROVE FALSE
  OBVIOUS
<1>1. PICK n \in Nat \ T : \A m \in Nat \ T : n <= m
  BY LeastNat
<1>2. n - 1 \in Nat /\ n - 1 \in T
  BY <1>1
<1> QED
  BY <1>1, <1>2

-----------------------------------------------------------------------------
(* Recursion over an interval: a step given as a function has a run. *)

IsRun(f, S, x, a, b, G) ==
    /\ f \in [a .. b -> S]
    /\ f[a] = x
    /\ \A n \in a + 1 .. b : f[n] = G[n][f[n - 1]]

LEMMA Iterate ==
    ASSUME NEW S, NEW x \in S, NEW a \in Int, NEW b \in Int, a <= b, NEW G \in [Int -> [S -> S]]
    PROVE  \E f : IsRun(f, S, x, a, b, G)
<1> DEFINE Good(f, k) == /\ f \in [a .. a + k -> S] /\ f[a] = x
                         /\ \A n \in a + 1 .. a + k : f[n] = G[n][f[n - 1]]
           T == {k \in Nat : \E f : Good(f, k)}
<1>1. 0 \in T
  <2> DEFINE f == [n \in a .. a + 0 |-> x]
  <2>1. Good(f, 0)
    OBVIOUS
  <2> QED
    BY <2>1
<1>2. ASSUME NEW k \in Nat, k \in T PROVE k + 1 \in T
  <2>1. PICK f : Good(f, k)
    BY <1>2
  <2> DEFINE y == G[a + k + 1][f[a + k]]
             g == [n \in a .. a + (k + 1) |-> IF n = a + k + 1 THEN y ELSE f[n]]
  <2>2. y \in S
    BY <2>1
  <2> HIDE DEF y
  <2>3. \A n \in a .. a + k : n # a + k + 1 /\ n \in a .. a + (k + 1) /\ f[n] \in S
    BY <2>1
  <2>4. g \in [a .. a + (k + 1) -> S]
    BY <2>2, <2>3
  <2>5. g[a + k + 1] = y /\ \A n \in a .. a + k : g[n] = f[n]
    BY <2>3
  <2> HIDE DEF g
  <2>6. ASSUME NEW n \in a + 1 .. a + (k + 1) PROVE g[n] = G[n][g[n - 1]]
    <3>1. CASE n = a + k + 1
      <4>1. n - 1 = a + k /\ a + k \in a .. a + k
        BY <3>1
      <4> QED
        BY <2>5, <3>1, <4>1 DEF y
    <3>2. CASE n # a + k + 1
      <4>1. n \in a + 1 .. a + k /\ n \in a .. a + k /\ n - 1 \in a .. a + k
        BY <3>2
      <4> QED
        BY <2>1, <2>5, <4>1
    <3> QED
      BY <3>1, <3>2
  <2>7. g[a] = x
    BY <2>1, <2>5, a \in a .. a + k
  <2>8. Good(g, k + 1)
    BY <2>4, <2>6, <2>7
  <2> QED
    BY <2>8
<1> HIDE DEF T
<1>3. b - a \in T
  BY <1>1, <1>2, InductiveSet
<1>4. a + (b - a) = b
  OBVIOUS
<1> QED
  BY <1>3, <1>4 DEF T, IsRun

=============================================================================

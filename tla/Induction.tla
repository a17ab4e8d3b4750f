----------------------------- MODULE Induction ------------------------------
(***************************************************************************)
(* Induction over the naturals, and functions defined by it, in a form     *)
(* that the provers can use: about sets and functions, not operators.  The *)
(* source of both is that < is well founded.                               *)
(***************************************************************************)
EXTENDS Integers, WellFoundedInduction, TLAPS

\* A set of natural numbers has a least one.
LEMMA LeastNatural ==
    ASSUME NEW S \in SUBSET Nat, S # {}
    PROVE  \E n \in S : \A k \in S : n <= k
<1> DEFINE R == OpToRel(<, Nat)
<1>1. IsWellFoundedOn(R, Nat)
  BY NatLessThanWellFounded, Zenon
<1>2. \A x, y \in S : y < x => <<y, x>> \in R
  BY DEF OpToRel
<1> HIDE DEF R
<1>3. PICK x \in S : \A y \in S : ~ (<<y, x>> \in R)
  BY <1>1, WFMin, Zenon
<1>4. \A y \in S : ~ (y < x)
  BY <1>2, <1>3, Zenon
<1> QED  BY <1>4

\* S has m, and after each number below n the next one.
Inductive(S, m, n) ==
    /\ m <= n => m \in S
    /\ \A k \in m..(n - 1) : k \in S => k + 1 \in S

\* Such a set has all of m..n.
LEMMA UpTo ==
    ASSUME NEW m \in Int, NEW n \in Int, NEW S, Inductive(S, m, n)
    PROVE  m..n \subseteq S
<1> USE DEF Inductive
<1> SUFFICES ASSUME NEW bad \in m..n, bad \notin S PROVE FALSE
  OBVIOUS
<1> DEFINE Away == {j \in Nat : m + j <= n /\ m + j \notin S}
<1>1. bad - m \in Away /\ Away \in SUBSET Nat
  OBVIOUS
<1>2. PICK j \in Away : \A i \in Away : j <= i
  BY <1>1, LeastNatural
<1>3. j # 0 /\ j - 1 \notin Away
  BY <1>2
<1>4. m + (j - 1) \in m..(n - 1) /\ m + (j - 1) \in S
  BY <1>2, <1>3
<1> QED  BY <1>2, <1>4

\* f starts with first, and step says how each value up to f[n] follows from the one before.
Follows(f, first, step, n) ==
    f[0] = first /\ \A k \in 1..n : f[k] = step[k][f[k - 1]]

\* There is such a function.
LEMMA Iterates ==
    ASSUME NEW n \in Nat, NEW T, NEW first \in T, NEW step \in [1..n -> [T -> T]]
    PROVE  \E f \in [0..n -> T] : Follows(f, first, step, n)
<1> DEFINE S == {m \in 0..n : \E f \in [0..m -> T] : Follows(f, first, step, m)}
<1>1. 0 \in S
  <2>1. /\ [k \in 0..0 |-> first] \in [0..0 -> T]
        /\ Follows([k \in 0..0 |-> first], first, step, 0)
    BY DEF Follows
  <2> QED  BY <2>1
<1>2. ASSUME NEW m \in 0..(n - 1), m \in S PROVE m + 1 \in S
  <2>1. PICK f \in [0..m -> T] : Follows(f, first, step, m)
    BY <1>2
  <2> DEFINE next == step[m + 1][f[m]]
             g == [k \in 0..(m + 1) |-> IF k = m + 1 THEN next ELSE f[k]]
  <2>2. next \in T
    OBVIOUS
  <2>3. g \in [0..(m + 1) -> T]
    BY <2>2
  <2>4. g[0] = first /\ g[m + 1] = next /\ \A k \in 0..m : g[k] = f[k]
    BY <2>1 DEF Follows
  <2> HIDE DEF g
  <2>5. ASSUME NEW k \in 1..(m + 1) PROVE g[k] = step[k][g[k - 1]]
    <3>1. CASE k = m + 1
      BY <2>4, <3>1
    <3>2. CASE k \in 1..m
      <4>1. g[k] = f[k] /\ g[k - 1] = f[k - 1]
        BY <2>4, <3>2
      <4> QED  BY <2>1, <3>2, <4>1 DEF Follows
    <3> QED  BY <3>1, <3>2
  <2>6. Follows(g, first, step, m + 1)
    BY <2>4, <2>5 DEF Follows
  <2> QED  BY <2>3, <2>6
<1>3. Inductive(S, 0, n)
  BY <1>1, <1>2 DEF Inductive
<1>4. 0..n \subseteq S
  <2> HIDE DEF S
  <2> QED  BY <1>3, UpTo
<1> QED  BY <1>4
=============================================================================

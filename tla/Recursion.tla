----------------------------- MODULE Recursion -----------------------------
(***************************************************************************)
(* Induction on the natural numbers, and functions defined by recursion on *)
(* them, as facts about sets and functions: a set of naturals that holds 0 *)
(* and with each number the next is Nat.  The layout of a request (Calls), *)
(* the loop of checkSchedule (Node), the places of the entries in a        *)
(* reply's tokens (StatusParser) and the rounds of jsmn_parse (Jsmn) are   *)
(* proved about with them.                                                 *)
(***************************************************************************)
EXTENDS Integers, WellFoundedInduction, TLAPS

\* A well-founded relation on the naturals that holds the smaller-than pairs
LEMMA LessOnNat ==
  \E R : /\ IsWellFoundedOn(R, Nat)
         /\ \A x, y \in Nat : x < y => <<x, y>> \in R
<1>1. \A x, y \in Nat : x < y => <<x, y>> \in OpToRel(<, Nat)
  BY DEF OpToRel
<1> QED
  BY <1>1, NatLessThanWellFounded, Zenon

LEMMA Minimal ==
  ASSUME NEW R, IsWellFoundedOn(R, Nat), NEW T, T \subseteq Nat, T # {}
  PROVE  \E x \in T : \A y \in T : ~(<<y, x>> \in R)
BY WFMin

\* A set of naturals has a least element.
LEMMA Least ==
  ASSUME NEW T, T \subseteq Nat, T # {}
  PROVE  \E n \in T : \A m \in T : n <= m
<1>1. PICK R : /\ IsWellFoundedOn(R, Nat)
               /\ \A x, y \in Nat : x < y => <<x, y>> \in R
  BY LessOnNat
<1>2. PICK n \in T : \A m \in T : ~(<<m, n>> \in R)
  BY <1>1, Minimal
<1>3. \A m \in T : ~(m < n)
  BY <1>1, <1>2, Zenon
<1> QED
  BY <1>3

\* Induction
LEMMA Induct ==
  ASSUME NEW T \in SUBSET Nat, 0 \in T, \A n \in T : n + 1 \in T
  PROVE  T = Nat
<1> SUFFICES ASSUME Nat \ T # {} PROVE FALSE
  OBVIOUS
<1>1. PICK n \in Nat \ T : \A m \in Nat \ T : n <= m
  BY Least
<1>2. n # 0 /\ n - 1 \in Nat /\ n - 1 < n
  BY <1>1
<1>3. n - 1 \in T
  BY <1>1, <1>2
<1> QED
  BY <1>1, <1>3

\* The same up to a bound
LEMMA InductUpTo ==
  ASSUME NEW N \in Nat, NEW T \in SUBSET Nat, 0 \in T,
         \A n \in T : n < N => n + 1 \in T
  PROVE  \A n \in 0..N : n \in T
<1> DEFINE S == {n \in Nat : n <= N => n \in T}
<1>1. 0 \in S
  OBVIOUS
<1>2. \A n \in S : n + 1 \in S
  OBVIOUS
<1>3. S \in SUBSET Nat
  OBVIOUS
<1> HIDE DEF S
<1>4. S = Nat
  BY <1>1, <1>2, <1>3, Induct
<1> QED
  BY <1>4 DEF S

\* Recursion: from a first value a and the function h[k] that makes the value
\* at k from the one before, there are values up to any place n.
Recursive(g, n, D, a, h) ==
  /\ g \in [0..n -> D] /\ g[0] = a
  /\ \A k \in 1..n : g[k] = h[k][g[k - 1]]

LEMMA RecursionExists ==
  ASSUME NEW N \in Nat, NEW D, NEW a \in D, NEW h \in [Nat -> [D -> D]]
  PROVE  \E g : Recursive(g, N, D, a, h)
<1> DEFINE T == {n \in Nat : \E g : Recursive(g, n, D, a, h)}
<1>1. 0 \in T
  <2>1. Recursive([k \in 0..0 |-> a], 0, D, a, h)
    BY DEF Recursive
  <2> QED
    BY <2>1
<1>2. \A n \in T : n + 1 \in T
  <2> SUFFICES ASSUME NEW n \in T PROVE n + 1 \in T
    OBVIOUS
  <2>1. n \in Nat /\ n + 1 \in Nat
    OBVIOUS
  <2>2. PICK g : Recursive(g, n, D, a, h)
    OBVIOUS
  <2> DEFINE f == [k \in 0..(n + 1) |->
                     IF k = n + 1 THEN h[n + 1][g[n]] ELSE g[k]]
  <2>3. h[n + 1][g[n]] \in D
    BY <2>1, <2>2 DEF Recursive
  <2>4. f \in [0..(n + 1) -> D] /\ f[0] = a
    BY <2>1, <2>2, <2>3 DEF Recursive
  <2>5. ASSUME NEW k \in 1..(n + 1) PROVE f[k] = h[k][f[k - 1]]
    BY <2>1, <2>2 DEF Recursive
  <2>6. Recursive(f, n + 1, D, a, h)
    BY <2>4, <2>5 DEF Recursive
  <2> HIDE DEF f
  <2> QED
    BY <2>1, <2>6
<1>3. T \in SUBSET Nat
  OBVIOUS
<1> HIDE DEF T
<1>4. T = Nat
  BY <1>1, <1>2, <1>3, Induct
<1> QED
  BY <1>4 DEF T

\* Recursion by the same function h at every step
Repeated(g, n, D, a, h) ==
  /\ g \in [0..n -> D] /\ g[0] = a
  /\ \A k \in 1..n : g[k] = h[g[k - 1]]

LEMMA RepetitionExists ==
  ASSUME NEW N \in Nat, NEW D, NEW a \in D, NEW h \in [D -> D]
  PROVE  \E g : Repeated(g, N, D, a, h)
<1> DEFINE steps == [k \in Nat |-> h]
<1>1. steps \in [Nat -> [D -> D]] /\ \A k \in 1..N : steps[k] = h
  OBVIOUS
<1> HIDE DEF steps
<1>2. PICK g : Recursive(g, N, D, a, steps)
  BY <1>1, RecursionExists
<1> QED
  BY <1>1, <1>2 DEF Recursive, Repeated
=============================================================================

---------------------------- MODULE NumberFacts ----------------------------
(***************************************************************************)
(* Facts about numbers that the proofs about CodeGen and Relocation need:  *)
(* induction for sets of numbers, functions defined by recursion over the  *)
(* numbers, and division.                                                  *)
(*                                                                         *)
(* The library's theorems about the first two take operators for           *)
(* parameters.  These take sets and functions.                             *)
(***************************************************************************)
EXTENDS Integers, WellFoundedInduction, TLAPS

\* A set of numbers has a least one.
LEMMA LeastNumber ==
    ASSUME NEW S \in SUBSET Nat, S # {}
    PROVE  \E n \in S : \A m \in S : n <= m
<1>1. PICK n \in S : \A m \in S : ~(<<m, n>> \in OpToRel(<, Nat))
  BY NatLessThanWellFounded, WFMin
<1>2. \A m \in S : ~(m < n)
  BY <1>1 DEF OpToRel
<1> QED
  BY <1>2

\* Induction: a set that has 0, and with each number the next, has them all.
LEMMA AllNumbers ==
    ASSUME NEW S, 0 \in S, \A n \in Nat : n \in S => n + 1 \in S
    PROVE  Nat \subseteq S
<1> SUFFICES ASSUME ~(Nat \subseteq S)
             PROVE  FALSE
  OBVIOUS
<1> DEFINE T == {n \in Nat : n \notin S}
<1>1. T \in SUBSET Nat /\ T # {}
  OBVIOUS
<1>2. PICK n \in T : \A m \in T : n <= m
  BY <1>1, LeastNumber
<1>3. n \in Nat /\ n # 0 /\ n \notin S
  BY <1>2
<1>4. n - 1 \in Nat /\ n - 1 < n /\ (n - 1) + 1 = n
  BY <1>3
<1>5. n - 1 \in S
  <2>1. n - 1 \notin T
    BY <1>2, <1>3, <1>4
  <2> QED
    BY <2>1, <1>4
<1> QED
  BY <1>3, <1>4, <1>5

-----------------------------------------------------------------------------
(* Recursion *)

\* The two kinds of step from one value to the next.
StepFrom(v, kind, x) == IF kind = "add" THEN v + x ELSE x * v

\* g begins with first and takes the first n steps.
Follows(g, kind, first, t, n) ==
    /\ g[0] = first
    /\ \A m \in 1 .. n : g[m] = StepFrom(g[m - 1], kind, t[m])

\* There is the function that is defined by recursion with such steps.
LEMMA RecursionDefines ==
    ASSUME NEW kind, NEW first, NEW t
    PROVE  \E g : /\ g = [n \in Nat |-> g[n]]
                  /\ \A n \in Nat : Follows(g, kind, first, t, n)
<1> DEFINE Upto(n) == \E g : Follows(g, kind, first, t, n)
<1>1. \A n \in Nat : Upto(n)
  <2> DEFINE S == {n \in Nat : Upto(n)}
  <2>1. 0 \in S
    <3>1. Follows([i \in Nat |-> first], kind, first, t, 0)
      BY DEF Follows
    <3> QED BY <3>1
  <2>2. ASSUME NEW n \in Nat, n \in S
        PROVE  n + 1 \in S
    <3>1. PICK g : Follows(g, kind, first, t, n)
      BY <2>2
    <3> DEFINE h == [i \in Nat |-> IF i = n + 1 THEN StepFrom(g[n], kind, t[n + 1]) ELSE g[i]]
    <3>2. h[0] = first
      BY <3>1 DEF Follows
    <3>3. ASSUME NEW m \in 1 .. n + 1
          PROVE  h[m] = StepFrom(h[m - 1], kind, t[m])
      <4>1. m \in Nat /\ m - 1 \in Nat /\ m - 1 # n + 1
        OBVIOUS
      <4>2. h[m - 1] = g[m - 1]
        BY <4>1
      <4>3. CASE m = n + 1
        BY <4>1, <4>2, <4>3
      <4>4. CASE m # n + 1
        BY <4>1, <4>2, <4>4, <3>1 DEF Follows
      <4> QED BY <4>3, <4>4
    <3> HIDE DEF h
    <3>4. Follows(h, kind, first, t, n + 1)
      BY <3>2, <3>3 DEF Follows
    <3> QED BY <3>4
  <2> HIDE DEF S
  <2>3. Nat \subseteq S
    BY <2>1, <2>2, AllNumbers
  <2> QED BY <2>3 DEF S
<1>2. \A n \in Nat : \A g, h : Follows(g, kind, first, t, n) /\ Follows(h, kind, first, t, n) => g[n] = h[n]
  <2> DEFINE S == {n \in Nat : \A g, h : Follows(g, kind, first, t, n) /\ Follows(h, kind, first, t, n) => g[n] = h[n]}
  <2>1. 0 \in S
    BY DEF Follows
  <2>2. ASSUME NEW n \in Nat, n \in S
        PROVE  n + 1 \in S
    <3>1. ASSUME NEW g, NEW h, Follows(g, kind, first, t, n + 1), Follows(h, kind, first, t, n + 1)
          PROVE  g[n + 1] = h[n + 1]
      <4>1. Follows(g, kind, first, t, n) /\ Follows(h, kind, first, t, n)
        BY <3>1 DEF Follows
      <4>2. g[n] = h[n]
        BY <4>1, <2>2
      <4>3. n + 1 \in 1 .. (n + 1) /\ (n + 1) - 1 = n
        OBVIOUS
      <4> QED BY <3>1, <4>2, <4>3 DEF Follows
    <3> QED BY <3>1
  <2> HIDE DEF S
  <2>3. Nat \subseteq S
    BY <2>1, <2>2, AllNumbers
  <2> QED BY <2>3 DEF S
<1> DEFINE G(n) == CHOOSE g : Follows(g, kind, first, t, n)
           f == [n \in Nat |-> G(n)[n]]
<1>3. \A n \in Nat : Follows(G(n), kind, first, t, n)
  BY <1>1
<1> HIDE DEF G
<1>4. f[0] = first
  BY <1>3 DEF Follows
<1>5. ASSUME NEW n \in Nat, n # 0
      PROVE  f[n] = StepFrom(f[n - 1], kind, t[n])
  <2>1. n - 1 \in Nat /\ n \in 1 .. n
    BY <1>5
  <2>2. Follows(G(n), kind, first, t, n - 1)
    BY <2>1, <1>3 DEF Follows
  <2>3. G(n)[n - 1] = G(n - 1)[n - 1]
    BY <2>1, <2>2, <1>2, <1>3
  <2>4. G(n)[n] = StepFrom(G(n)[n - 1], kind, t[n])
    BY <2>1, <1>3 DEF Follows
  <2> QED BY <2>1, <2>3, <2>4
<1>6. f = [n \in Nat |-> f[n]]
  OBVIOUS
<1> HIDE DEF f
<1>7. \A n \in Nat : Follows(f, kind, first, t, n)
  BY <1>4, <1>5 DEF Follows
<1> QED BY <1>6, <1>7

LEMMA SumsExist ==
    ASSUME NEW t
    PROVE  \E g : g = [n \in Nat |-> IF n = 0 THEN 0 ELSE g[n - 1] + t[n]]
<1>1. PICK g : /\ g = [n \in Nat |-> g[n]]
               /\ \A n \in Nat : Follows(g, "add", 0, t, n)
  BY RecursionDefines
<1>2. g[0] = 0
  BY <1>1 DEF Follows
<1>3. ASSUME NEW n \in Nat, n # 0
      PROVE  g[n] = g[n - 1] + t[n]
  <2>1. n \in 1 .. n /\ Follows(g, "add", 0, t, n)
    BY <1>1, <1>3
  <2> QED BY <2>1 DEF Follows, StepFrom
<1>4. g = [n \in Nat |-> IF n = 0 THEN 0 ELSE g[n - 1] + t[n]]
  BY <1>1, <1>2, <1>3
<1> QED BY <1>4

LEMMA PowersExist ==
    ASSUME NEW r
    PROVE  \E g : g = [n \in Nat |-> IF n = 0 THEN 1 ELSE r * g[n - 1]]
<1> DEFINE t == [n \in Nat |-> r]
<1>1. PICK g : /\ g = [n \in Nat |-> g[n]]
               /\ \A n \in Nat : Follows(g, "multiply", 1, t, n)
  BY RecursionDefines
<1>2. g[0] = 1
  BY <1>1 DEF Follows
<1>3. ASSUME NEW n \in Nat, n # 0
      PROVE  g[n] = r * g[n - 1]
  <2>1. n \in 1 .. n /\ Follows(g, "multiply", 1, t, n)
    BY <1>1, <1>3
  <2> QED BY <2>1 DEF Follows, StepFrom
<1>4. g = [n \in Nat |-> IF n = 0 THEN 1 ELSE r * g[n - 1]]
  BY <1>1, <1>2, <1>3
<1> QED BY <1>4

-----------------------------------------------------------------------------
(* Division *)

LEMMA DivMod ==
    ASSUME NEW a \in Int, NEW b \in Nat \ {0}
    PROVE  /\ a \div b \in Int /\ a % b \in 0 .. (b - 1)
           /\ a = b * (a \div b) + (a % b)
<1>1. a = b * (a \div b) + (a % b)
  BY Z3
<1> QED BY <1>1

\* Quotient and remainder are the only ones.
LEMMA DivModUnique ==
    ASSUME NEW b \in Nat \ {0}, NEW q \in Int, NEW r \in 0 .. (b - 1)
    PROVE  (b * q + r) % b = r /\ (b * q + r) \div b = q
  OBVIOUS

\* A multiple of the divisor does not show in the remainder.
LEMMA ModShift ==
    ASSUME NEW a \in Int, NEW b \in Nat \ {0}, NEW k \in Int
    PROVE  (a + b * k) % b = a % b
<1> DEFINE q == a \div b
           r == a % b
<1>1. q \in Int /\ r \in 0 .. (b - 1) /\ a = b * q + r
  BY DivMod
<1> HIDE DEF q, r
<1>2. a + b * k = b * (q + k) + r
  BY <1>1
<1>3. q + k \in Int
  BY <1>1
<1>4. (b * (q + k) + r) % b = r
  BY <1>1, <1>3, DivModUnique
<1> QED BY <1>2, <1>4 DEF r

LEMMA ModOfSum ==
    ASSUME NEW a \in Int, NEW d \in Int, NEW b \in Nat \ {0}
    PROVE  ((a % b) + d) % b = (a + d) % b
<1> DEFINE q == a \div b
           r == a % b
<1>1. q \in Int /\ r \in 0 .. (b - 1) /\ a = b * q + r
  BY DivMod
<1> HIDE DEF q, r
<1>2. a + d = (r + d) + b * q /\ r + d \in Int
  BY <1>1
<1>3. ((r + d) + b * q) % b = (r + d) % b
  BY <1>1, <1>2, ModShift
<1> QED BY <1>2, <1>3 DEF r

\* The last digit of a remainder: the digits below it, and it.
LEMMA ModOfProduct ==
    ASSUME NEW a \in Int, NEW b \in Nat \ {0}, NEW c \in Nat \ {0}
    PROVE  /\ b * c \in Nat \ {0}
           /\ a % (b * c) = (a % b) + b * ((a \div b) % c)
           /\ (a % (b * c)) % b = a % b
<1> DEFINE q == a \div b
           r == a % b
           s == q \div c
           d == q % c
<1>1. q \in Int /\ r \in 0 .. (b - 1) /\ a = b * q + r
  BY DivMod
<1>2. s \in Int /\ d \in 0 .. (c - 1) /\ q = c * s + d
  BY <1>1, DivMod
<1> HIDE DEF q, r, s, d
<1>3. b * c \in Nat \ {0}
  OBVIOUS
<1>4. b * d + r \in 0 .. (b * c - 1)
  <2>1. b * d \in Nat /\ b * d <= b * (c - 1) /\ b * (c - 1) = b * c - b
    BY <1>2
  <2> QED BY <2>1, <1>1, <1>3
<1>5. a = (b * c) * s + (b * d + r)
  BY <1>1, <1>2
<1>6. ((b * c) * s + (b * d + r)) % (b * c) = b * d + r
  BY <1>2, <1>3, <1>4, DivModUnique
<1>7. (b * d + r) % b = r
  BY <1>1, <1>2, DivModUnique
<1> QED
  <2>1. b * d + r = r + b * d
    BY <1>1, <1>2
  <2> QED BY <1>3, <1>5, <1>6, <1>7, <2>1 DEF r, d, q
=============================================================================

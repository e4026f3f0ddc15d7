----------------------------- MODULE SumsProofs -----------------------------
(***************************************************************************)
(* What a sum over positions comes to, for amounts of any length.          *)
(***************************************************************************)
EXTENDS Sums, NaturalsInduction, WellFoundedInduction, TLAPS

\* Induction on 0..n, over the set of the numbers for which a fact holds.
LEMMA StepByStep ==
  ASSUME NEW n \in Nat, NEW Good, 0 \in Good, \A k \in 1..n : k - 1 \in Good => k \in Good
  PROVE  0..n \subseteq Good
<1> DEFINE Bad == (0..n) \ Good
           R == OpToRel(<, Nat)
<1>1. SUFFICES ASSUME Bad # {} PROVE FALSE
  OBVIOUS
<1>2. IsWellFoundedOn(R, Nat)
  BY NatLessThanWellFounded
<1>3. Bad \subseteq Nat
  OBVIOUS
<1> HIDE DEF Bad, R
<1>4. PICK k \in Bad : \A y \in Bad : ~(<<y, k>> \in R)
  BY <1>1, <1>2, <1>3, WFMin
<1>5. k \in 0..n /\ k \notin Good
  BY <1>4 DEF Bad
<1>6. k \in 1..n /\ k - 1 \in 0..n /\ k - 1 < k /\ k - 1 \in Nat /\ k \in Nat
  BY <1>5
<1>7. k - 1 \notin Bad
  BY <1>4, <1>6 DEF R, OpToRel
<1>8. k - 1 \in Good
  BY <1>6, <1>7 DEF Bad
<1> QED
  BY <1>5, <1>6, <1>8

-----------------------------------------------------------------------------
(* SumOf picks its running total with CHOOSE: there is one for      *)
(* every length, by the least length that had none.                        *)

Adds(a, k, t) == t = [n \in 0..k |-> IF n = 0 THEN 0 ELSE t[n - 1] + a[n]]

LEMMA SumAs ==
  ASSUME NEW a
  PROVE  SumOf(a) = (CHOOSE t : Adds(a, Len(a), t))[Len(a)]
BY DEF SumOf, Adds

LEMMA RunningTotal ==
  ASSUME NEW a, NEW m \in Nat
  PROVE  \E t : Adds(a, m, t)
<1> DEFINE Bad == { k \in Nat : ~\E t : Adds(a, k, t) }
           R == OpToRel(<, Nat)
<1>1. SUFFICES ASSUME Bad # {} PROVE FALSE
  BY DEF Bad
<1>2. IsWellFoundedOn(R, Nat)
  BY NatLessThanWellFounded
<1>3. Bad \subseteq Nat
  OBVIOUS
<1> HIDE DEF Bad, R
<1>4. PICK k \in Bad : \A y \in Bad : ~(<<y, k>> \in R)
  BY <1>1, <1>2, <1>3, WFMin
<1>5. k \in Nat /\ ~\E t : Adds(a, k, t)
  BY <1>4 DEF Bad
<1>6. CASE k = 0
  <2> DEFINE t == [n \in 0..0 |-> 0]
  <2>1. t = [n \in 0..0 |-> IF n = 0 THEN 0 ELSE t[n - 1] + a[n]]
    OBVIOUS
  <2> HIDE DEF t
  <2>2. Adds(a, 0, t)
    BY <2>1 DEF Adds
  <2> QED
    BY <1>5, <1>6, <2>2
<1>7. CASE k # 0
  <2>1. k - 1 \in Nat /\ k - 1 < k
    BY <1>5, <1>7
  <2>2. k - 1 \notin Bad
    BY <1>4, <1>5, <2>1 DEF R, OpToRel
  <2>3. PICK t : Adds(a, k - 1, t)
    BY <2>1, <2>2 DEF Bad
  <2> DEFINE u == [n \in 0..k |-> IF n = k THEN t[k - 1] + a[k] ELSE t[n]]
  <2>4. \A n \in 0..k : u[n] = IF n = 0 THEN 0 ELSE u[n - 1] + a[n]
    <3> TAKE n \in 0..k
    <3>1. DOMAIN t = 0..(k - 1) /\ \A i \in 0..(k - 1) : t[i] = IF i = 0 THEN 0 ELSE t[i - 1] + a[i]
      BY <2>3 DEF Adds
    <3>2. CASE n = k
      <4>1. n - 1 \in 0..k /\ n - 1 # k
        BY <1>5, <1>7, <3>2
      <4> QED
        BY <1>7, <3>2, <4>1
    <3>3. CASE n = 0
      BY <1>5, <1>7, <3>1, <3>3
    <3>4. CASE n # k /\ n # 0
      <4>1. n \in 0..(k - 1) /\ n - 1 \in 0..k /\ n - 1 # k
        BY <1>5, <3>4
      <4> QED
        BY <3>1, <3>4, <4>1
    <3> QED
      BY <3>2, <3>3, <3>4
  <2>5. u = [n \in 0..k |-> u[n]]
    OBVIOUS
  <2> HIDE DEF u
  <2>6. u = [n \in 0..k |-> IF n = 0 THEN 0 ELSE u[n - 1] + a[n]]
    BY <2>4, <2>5
  <2>7. Adds(a, k, u)
    BY <2>6 DEF Adds
  <2> QED
    BY <1>5, <2>7
<1> QED
  BY <1>6, <1>7

LEMMA SumIsTotal ==
  ASSUME NEW a, Len(a) \in Nat
  PROVE  \E t : /\ SumOf(a) = t[Len(a)] /\ DOMAIN t = 0..Len(a)
                /\ t[0] = 0 /\ \A n \in 1..Len(a) : t[n] = t[n - 1] + a[n]
<1>1. PICK t : t = CHOOSE x : Adds(a, Len(a), x)
  OBVIOUS
<1>2. Adds(a, Len(a), t)
  <2>1. \E x : Adds(a, Len(a), x)
    BY RunningTotal
  <2> QED
    BY <1>1, <2>1
<1>3. t = [n \in 0..Len(a) |-> IF n = 0 THEN 0 ELSE t[n - 1] + a[n]]
  BY <1>2 DEF Adds
<1>4. SumOf(a) = t[Len(a)]
  BY <1>1, SumAs
<1>5. /\ DOMAIN t = 0..Len(a)
      /\ \A n \in 0..Len(a) : t[n] = IF n = 0 THEN 0 ELSE t[n - 1] + a[n]
  BY <1>3
<1>6. t[0] = 0 /\ \A n \in 1..Len(a) : t[n] = t[n - 1] + a[n]
  BY <1>5
<1> QED
  BY <1>4, <1>5, <1>6

LEMMA SumIsNat ==
  ASSUME NEW a, Len(a) \in Nat, \A i \in 1..Len(a) : a[i] \in Nat
  PROVE  SumOf(a) \in Nat
<1>1. PICK t : /\ SumOf(a) = t[Len(a)] /\ DOMAIN t = 0..Len(a)
               /\ t[0] = 0 /\ \A n \in 1..Len(a) : t[n] = t[n - 1] + a[n]
  BY SumIsTotal
<1> DEFINE Good == { k \in 0..Len(a) : t[k] \in Nat }
<1>2. 0 \in Good
  BY <1>1
<1>3. ASSUME NEW k \in 1..Len(a), k - 1 \in Good PROVE k \in Good
  BY <1>1, <1>3
<1> HIDE DEF Good
<1>4. 0..Len(a) \subseteq Good
  BY <1>2, <1>3, StepByStep
<1> QED
  BY <1>1, <1>4 DEF Good

LEMMA SumOfOne ==
  ASSUME NEW a, Len(a) = 1, a[1] \in Nat
  PROVE  SumOf(a) = a[1]
<1>1. PICK t : /\ SumOf(a) = t[Len(a)] /\ DOMAIN t = 0..Len(a)
               /\ t[0] = 0 /\ \A n \in 1..Len(a) : t[n] = t[n - 1] + a[n]
  BY SumIsTotal
<1>2. t[1] = t[0] + a[1]
  BY <1>1
<1> QED
  BY <1>1, <1>2

\* Sums of as many amounts add up.
LEMMA SumsAdd ==
  ASSUME NEW n \in Nat, NEW a, NEW b, NEW c, Len(a) = n, Len(b) = n, Len(c) = n,
         \A i \in 1..n : a[i] \in Nat /\ b[i] \in Nat /\ c[i] = a[i] + b[i]
  PROVE  SumOf(c) = SumOf(a) + SumOf(b)
<1>1. PICK ta : /\ SumOf(a) = ta[Len(a)] /\ DOMAIN ta = 0..Len(a)
                /\ ta[0] = 0 /\ \A i \in 1..Len(a) : ta[i] = ta[i - 1] + a[i]
  BY SumIsTotal
<1>2. PICK tb : /\ SumOf(b) = tb[Len(b)] /\ DOMAIN tb = 0..Len(b)
                /\ tb[0] = 0 /\ \A i \in 1..Len(b) : tb[i] = tb[i - 1] + b[i]
  BY SumIsTotal
<1>3. PICK tc : /\ SumOf(c) = tc[Len(c)] /\ DOMAIN tc = 0..Len(c)
                /\ tc[0] = 0 /\ \A i \in 1..Len(c) : tc[i] = tc[i - 1] + c[i]
  BY SumIsTotal
<1> DEFINE Good == { k \in 0..n : ta[k] \in Nat /\ tb[k] \in Nat /\ tc[k] = ta[k] + tb[k] }
<1>4. 0 \in Good
  BY <1>1, <1>2, <1>3
<1>5. ASSUME NEW k \in 1..n, k - 1 \in Good PROVE k \in Good
  <2>1. PICK p, q, r : p = ta[k - 1] /\ q = tb[k - 1] /\ r = tc[k - 1]
    OBVIOUS
  <2>2. PICK u, v, w : u = a[k] /\ v = b[k] /\ w = c[k]
    OBVIOUS
  <2>3. p \in Nat /\ q \in Nat /\ r = p + q
    BY <1>5, <2>1
  <2>4. u \in Nat /\ v \in Nat /\ w = u + v
    BY <2>2
  <2>5. ta[k] = p + u /\ tb[k] = q + v /\ tc[k] = r + w
    BY <1>1, <1>2, <1>3, <2>1, <2>2
  <2>6. p + u \in Nat /\ q + v \in Nat /\ r + w = (p + u) + (q + v)
    BY <2>3, <2>4
  <2> QED
    BY <2>5, <2>6
<1> HIDE DEF Good
<1>6. 0..n \subseteq Good
  BY <1>4, <1>5, StepByStep
<1>7. n \in Good
  BY <1>6
<1> QED
  BY <1>1, <1>2, <1>3, <1>7 DEF Good

LEMMA SumOfNothing ==
  ASSUME NEW a, Len(a) \in Nat, \A i \in 1..Len(a) : a[i] = 0
  PROVE  SumOf(a) = 0
<1>1. PICK t : /\ SumOf(a) = t[Len(a)] /\ DOMAIN t = 0..Len(a)
               /\ t[0] = 0 /\ \A n \in 1..Len(a) : t[n] = t[n - 1] + a[n]
  BY SumIsTotal
<1> DEFINE Good == { k \in 0..Len(a) : t[k] = 0 }
<1>2. 0 \in Good
  BY <1>1
<1>3. ASSUME NEW k \in 1..Len(a), k - 1 \in Good PROVE k \in Good
  BY <1>1, <1>3
<1> HIDE DEF Good
<1>4. 0..Len(a) \subseteq Good
  BY <1>2, <1>3, StepByStep
<1> QED
  BY <1>1, <1>4 DEF Good
=============================================================================

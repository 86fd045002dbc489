--------------------------- MODULE ConversionProofs ---------------------------
(***************************************************************************)
(* Proofs about two of the pure modules.  Wire: numbers and packets of any *)
(* width are read as they were written, wherever a stream of them is cut.  *)
(* RegistryFiles: a zip and a JSON file of the same entries load to the    *)
(* same data.  First the lemmas with which proofs reason about loops,      *)
(* which the models write as recursive functions of the number of turns:   *)
(* induction as a fact about sets of numbers, that a recursion has a       *)
(* solution, and the arithmetic of shifts.                                 *)
(***************************************************************************)
EXTENDS Wire, RegistryFiles, SequenceTheorems, WellFoundedInduction, TLAPS

-----------------------------------------------------------------------------
(***************************************************************************)
(* Induction and recursion.                                                *)
(***************************************************************************)

LEMMA Least ==
    ASSUME NEW T \in SUBSET Nat, T # {}
    PROVE  \E x \in T : \A y \in T : x <= y
<1>1. IsWellFoundedOn(OpToRel(<,Nat), Nat)
  BY NatLessThanWellFounded, Zenon
<1>2. PICK x \in T : \A y \in T : ~ (<<y, x>> \in OpToRel(<,Nat))
  BY <1>1, WFMin
<1>3. \A y \in T : y \in Nat /\ x \in Nat
  OBVIOUS
<1>4. \A y \in T : ~(y < x)
  BY <1>2, <1>3 DEF OpToRel
<1> QED
  BY <1>3, <1>4

LEMMA Induction ==
    ASSUME NEW S, 0 \in S, \A n \in Nat : n \in S => n + 1 \in S
    PROVE  \A n \in Nat : n \in S
<1> DEFINE T == Nat \ S
<1> SUFFICES ASSUME T # {} PROVE FALSE
  OBVIOUS
<1>1. PICK x \in T : \A y \in T : x <= y
  BY Least
<1>2. x # 0 /\ x \in Nat
  OBVIOUS
<1>3. x - 1 \in Nat /\ x - 1 \in S
  BY <1>1, <1>2
<1> QED
  BY <1>1, <1>2, <1>3

\* f is what the recursion from a by step yields, up to n.
Unfolds(f, n, T, a, step) ==
    /\ f \in [0..n -> T] /\ f[0] = a
    /\ \A i \in Nat : i < n => f[i + 1] = step[<<i, f[i]>>]

LEMMA UnfoldsOnce ==
    \A T, a, step, f, g : \A m, n \in Nat :
        m <= n /\ Unfolds(f, m, T, a, step) /\ Unfolds(g, n, T, a, step) => f[m] = g[m]
<1> SUFFICES ASSUME NEW T, NEW a, NEW step, NEW f, NEW g, NEW m \in Nat, NEW n \in Nat,
                    m <= n, Unfolds(f, m, T, a, step), Unfolds(g, n, T, a, step)
             PROVE  f[m] = g[m]
  OBVIOUS
<1> DEFINE S == {i \in Nat : i <= m => f[i] = g[i]}
<1>1. 0 \in S
  BY DEF Unfolds
<1>2. ASSUME NEW i \in Nat, i \in S PROVE i + 1 \in S
  <2> SUFFICES ASSUME i + 1 <= m PROVE f[i + 1] = g[i + 1]
    OBVIOUS
  <2>1. i < m /\ i < n /\ f[i] = g[i]
    BY <1>2
  <2> QED
    BY <2>1 DEF Unfolds
<1> HIDE DEF S
<1>3. \A i \in Nat : i \in S
  BY <1>1, <1>2, Induction
<1> QED
  BY <1>3 DEF S

\* f is what the recursion yields.
Recurs(f, T, a, step) ==
    f \in [Nat -> T] /\ f[0] = a /\ \A n \in Nat : f[n + 1] = step[<<n, f[n]>>]

\* A step from every number and value gives a function.
LEMMA Recursion ==
    \A T : \A a \in T, step \in [Nat \X T -> T] : \E f : Recurs(f, T, a, step)
<1> SUFFICES ASSUME NEW T, NEW a \in T, NEW step \in [Nat \X T -> T]
             PROVE  \E f : Recurs(f, T, a, step)
  OBVIOUS
<1> DEFINE U(g, n) == Unfolds(g, n, T, a, step)
           S == {n \in Nat : \E g : U(g, n)}
<1>1. 0 \in S
  <2> DEFINE g == [i \in 0..0 |-> a]
  <2>1. U(g, 0)
    BY DEF Unfolds
  <2> QED
    BY <2>1
<1>2. ASSUME NEW n \in Nat, n \in S PROVE n + 1 \in S
  <2>1. PICK g : U(g, n)
    BY <1>2
  <2> DEFINE h == [i \in 0..(n + 1) |-> IF i <= n THEN g[i] ELSE step[<<n, g[n]>>]]
  <2>2. g \in [0..n -> T] /\ g[0] = a /\ \A i \in Nat : i < n => g[i + 1] = step[<<i, g[i]>>]
    BY <2>1 DEF Unfolds
  <2>3. g[n] \in T /\ step[<<n, g[n]>>] \in T
    BY <2>2
  <2>4. h \in [0..(n + 1) -> T] /\ h[0] = a
    BY <2>2, <2>3
  <2>5. \A i \in 0..n : h[i] = g[i]
    OBVIOUS
  <2>6. h[n + 1] = step[<<n, g[n]>>]
    OBVIOUS
  <2> HIDE DEF h
  <2>7. ASSUME NEW i \in Nat, i < n + 1 PROVE h[i + 1] = step[<<i, h[i]>>]
    <3>1. CASE i < n
      <4>1. h[i + 1] = g[i + 1] /\ h[i] = g[i]
        BY <2>5, <3>1
      <4> QED
        BY <2>2, <3>1, <4>1
    <3>2. CASE i = n
      BY <2>5, <2>6, <3>2
    <3> QED
      BY <2>7, <3>1, <3>2
  <2>8. U(h, n + 1)
    BY <2>4, <2>7 DEF Unfolds
  <2> QED
    BY <2>8
<1> HIDE DEF S
<1>3. \A n \in Nat : n \in S
  BY <1>1, <1>2, Induction
<1>4. \A n \in Nat : U(CHOOSE g : U(g, n), n)
  BY <1>3 DEF S
<1> DEFINE best == [n \in Nat |-> CHOOSE g : U(g, n)]
           f == [n \in Nat |-> best[n][n]]
<1>5. \A n \in Nat : U(best[n], n)
  BY <1>4
<1> HIDE DEF best
<1>6. f \in [Nat -> T] /\ f[0] = a
  BY <1>5 DEF Unfolds
<1>7. ASSUME NEW n \in Nat PROVE f[n + 1] = step[<<n, f[n]>>]
  <2>1. best[n][n] = best[n + 1][n]
    <3>0. PICK k \in Nat : k = n + 1
      OBVIOUS
    <3>1. PICK g, h : g = best[n] /\ h = best[k]
      OBVIOUS
    <3>2. n <= k /\ Unfolds(g, n, T, a, step) /\ Unfolds(h, k, T, a, step)
      BY <1>5, <3>0, <3>1
    <3>3. g[n] = h[n]
      BY <3>2, UnfoldsOnce
    <3> QED
      BY <3>0, <3>1, <3>3
  <2>2. best[n + 1][n + 1] = step[<<n, best[n + 1][n]>>]
    <3>1. U(best[n + 1], n + 1)
      BY <1>5
    <3> QED
      BY <3>1 DEF Unfolds
  <2> QED
    BY <2>1, <2>2
<1> HIDE DEF f
<1> QED
  BY <1>6, <1>7 DEF Recurs

\* Induction up to a bound.
LEMMA InductionUpTo ==
    ASSUME NEW n \in Nat, NEW S, 0 \in S, \A i \in 1..n : i - 1 \in S => i \in S
    PROVE  \A i \in 0..n : i \in S
<1> DEFINE R == {i \in Nat : i <= n => i \in S}
<1>1. 0 \in R
  OBVIOUS
<1>2. ASSUME NEW i \in Nat, i \in R PROVE i + 1 \in R
  <2> SUFFICES ASSUME i + 1 <= n PROVE i + 1 \in S
    OBVIOUS
  <2>1. i + 1 \in 1..n /\ (i + 1) - 1 = i /\ i \in S
    BY <1>2
  <2> QED
    BY <2>1
<1> HIDE DEF R
<1>3. \A i \in Nat : i \in R
  BY <1>1, <1>2, Induction
<1> QED
  BY <1>3 DEF R

\* f is what the recursion yields up to n.
RecursUpTo(f, n, T, a, step) ==
    f \in [0..n -> T] /\ f[0] = a /\ \A i \in 1..n : f[i] = step[<<i, f[i - 1]>>]

LEMMA RecursionUpTo ==
    \A n \in Nat : \A T : \A a \in T, step \in [(1..n) \X T -> T] :
        \E f : RecursUpTo(f, n, T, a, step)
<1> SUFFICES ASSUME NEW n \in Nat, NEW T, NEW a \in T, NEW step \in [(1..n) \X T -> T]
             PROVE  \E f : RecursUpTo(f, n, T, a, step)
  OBVIOUS
<1> DEFINE next == [p \in Nat \X T |-> IF p[1] < n THEN step[<<p[1] + 1, p[2]>>] ELSE a]
<1>1. next \in [Nat \X T -> T]
  <2>1. ASSUME NEW p \in Nat \X T, p[1] < n PROVE step[<<p[1] + 1, p[2]>>] \in T
    <3>1. p[1] + 1 \in 1..n /\ p[2] \in T
      BY <2>1
    <3> QED
      BY <3>1
  <2> QED
    BY <2>1
<1>2. \A i \in Nat, v \in T : i < n => next[<<i, v>>] = step[<<i + 1, v>>]
  OBVIOUS
<1> HIDE DEF next
<1>3. PICK g : Recurs(g, T, a, next)
  BY <1>1, Recursion, Zenon
<1> DEFINE f == [i \in 0..n |-> g[i]]
<1>4. g \in [Nat -> T] /\ g[0] = a /\ \A i \in Nat : g[i + 1] = next[<<i, g[i]>>]
  BY <1>3 DEF Recurs
<1>5. f \in [0..n -> T] /\ f[0] = a
  BY <1>4
<1>6. ASSUME NEW i \in 1..n PROVE f[i] = step[<<i, f[i - 1]>>]
  <2>1. PICK j \in Nat : j = i - 1 /\ j < n /\ i = j + 1
    OBVIOUS
  <2>2. g[j + 1] = next[<<j, g[j]>>] /\ g[j] \in T
    BY <1>4
  <2>3. g[j + 1] = step[<<j + 1, g[j]>>]
    BY <1>2, <2>1, <2>2
  <2>4. f[i] = g[j + 1] /\ f[i - 1] = g[j]
    BY <2>1
  <2> QED
    BY <2>1, <2>3, <2>4
<1> HIDE DEF f
<1> QED
  BY <1>5, <1>6 DEF RecursUpTo

-----------------------------------------------------------------------------
(***************************************************************************)
(* Quotients and remainders, and powers of two.                            *)
(***************************************************************************)

LEMMA Divides ==
    ASSUME NEW a \in Int, NEW b \in Nat \ {0}
    PROVE  /\ a \div b \in Int /\ a % b \in Int /\ 0 <= a % b /\ a % b < b
           /\ a = b * (a \div b) + (a % b)
           /\ a >= 0 => a \div b >= 0
<1>2. a \div b \in Int /\ a % b \in Int /\ 0 <= a % b /\ a % b < b
  OBVIOUS
<1>1. a = b * (a \div b) + (a % b)
  OBVIOUS
<1>3. ASSUME a >= 0 PROVE a \div b >= 0
  <2> DEFINE q == a \div b
  <2>1. q \in Int /\ a < b * q + b
    BY <1>1, <1>2
  <2> HIDE DEF q
  <2>2. ASSUME q <= -1 PROVE FALSE
    <3>1. b * q <= b * (-1)
      BY <2>1, <2>2
    <3> QED
      BY <1>3, <2>1, <3>1
  <2>3. q >= 0
    BY <2>1, <2>2
  <2> QED
    BY <2>3 DEF q
<1> QED
  BY <1>1, <1>2, <1>3

LEMMA Quotients ==
    ASSUME NEW b \in Nat \ {0}, NEW q \in Int, NEW r \in Int, 0 <= r, r < b
    PROVE  (b * q + r) \div b = q /\ (b * q + r) % b = r
<1> DEFINE a == b * q + r
           p == a \div b
           s == a % b
<1>1. a \in Int /\ a = b * q + r
  OBVIOUS
<1> HIDE DEF a
<1>2. p \in Int /\ s \in Int /\ 0 <= s /\ s < b /\ a = b * p + s
  BY <1>1, Divides
<1> HIDE DEF p, s
<1>3. b * (q - p) = s - r
  BY <1>1, <1>2
<1>4. ~(q - p >= 1)
  <2>1. ASSUME q - p >= 1 PROVE FALSE
    <3>1. b * (q - p) >= b * 1
      BY <1>2, <2>1
    <3> QED
      BY <1>2, <1>3, <3>1
  <2> QED
    BY <2>1
<1>5. ~(q - p <= -1)
  <2>1. ASSUME q - p <= -1 PROVE FALSE
    <3>1. b * (q - p) <= b * (-1)
      BY <1>2, <2>1
    <3> QED
      BY <1>2, <1>3, <3>1
  <2> QED
    BY <2>1
<1>6. q = p /\ r = s
  BY <1>1, <1>2, <1>4, <1>5
<1> QED
  BY <1>6 DEF p, s, a

LEMMA Below ==
    ASSUME NEW a \in Int, NEW b \in Nat \ {0}, NEW k \in Int
    PROVE  a \div b < k <=> a < b * k
<1> DEFINE q == a \div b
           r == a % b
<1>1. q \in Int /\ r \in Int /\ 0 <= r /\ r < b /\ a = b * q + r
  BY Divides
<1> HIDE DEF q, r
<1>2. ASSUME q < k PROVE a < b * k
  <2>1. b * (q + 1) <= b * k
    BY <1>1, <1>2
  <2> QED
    BY <1>1, <2>1
<1>3. ASSUME q >= k PROVE a >= b * k
  <2>1. b * q >= b * k
    BY <1>1, <1>3
  <2> QED
    BY <1>1, <2>1
<1>4. q < k <=> a < b * k
  <2>1. b * k \in Int
    OBVIOUS
  <2> QED
   BY <1>1, <1>2, <1>3, <2>1
<1> QED
  BY <1>4 DEF q

LEMMA Monotone ==
    ASSUME NEW a \in Int, NEW c \in Int, a <= c, NEW b \in Nat \ {0}
    PROVE a \div b <= c \div b
<1>1. c \div b \in Int /\ a \div b \in Int 
  BY Divides
<1>2. c < b * (c \div b + 1)
  BY <1>1, Below
<1>3. a < b * (c \div b + 1)
  BY <1>1, <1>2
<1>4. a \div b < c \div b + 1
  BY <1>1, <1>3, Below
<1> QED BY <1>1, <1>4

LEMMA Twice ==
    ASSUME NEW n \in Int, NEW w \in Nat \ {0}, NEW l \in Nat \ {0}
    PROVE n \div (w * l) = (n \div w) \div l
<1> DEFINE q == n \div w
           x == n % w
           y == q \div l
           z == q % l
<1>1. q \in Int /\ x \in Int /\ 0 <= x /\ x < w /\ n = w * q + x
  BY Divides
<1>2. y \in Int /\ z \in Int /\ 0 <= z /\ z < l /\ q = l * y + z
  <2> HIDE DEF q
  <2> QED BY <1>1, Divides
<1> HIDE DEF q, x, y, z
<1>3. w * l \in Nat \ {0} /\ w * z + x \in Int /\ 0 <= w * z + x
  <2>1. w * z \in Nat
     BY <1>2
  <2>2. w * l \in Nat
    OBVIOUS
  <2>3. w * l # 0
     OBVIOUS
  <2> QED BY <1>1, <2>1, <2>2, <2>3
<1>4. w * z + x < w * l
  <2>1. w * z <= w * (l - 1)
    BY <1>2
  <2> QED BY <1>1, <1>2, <2>1
<1>5. n = (w * l) * y + (w * z + x)
  BY <1>1, <1>2
<1>6. n \div (w * l) = y
   <2> DEFINE b == w * l
              r == w * z + x
   <2>1. b \in Nat \ {0} /\ r \in Int /\ 0 <= r /\ r < b /\ n = b * y + r
      BY <1>3, <1>4, <1>5
   <2> HIDE DEF b, r
   <2>2. n \div b = y
     BY <1>2, <2>1, Quotients
   <2> QED BY <2>2 DEF b
<1> QED
  BY <1>6 DEF y, q

\* 1 << n doubles.
LEMMA ShiftedIs ==
    Shifted[0] = 1 /\ \A n \in Nat : Shifted[n] \in Nat \ {0} /\ Shifted[n + 1] = 2 * Shifted[n]
<1> DEFINE step == [p \in Nat \X Nat |-> 2 * p[2]]
           Def(f) == f = [n \in Nat |-> IF n = 0 THEN 1 ELSE 2 * f[n - 1]]
<1>1. step \in [Nat \X Nat -> Nat] /\ \A n, v \in Nat : step[<<n, v>>] = 2 * v
  OBVIOUS
<1> HIDE DEF step
<1>2. PICK f : Recurs(f, Nat, 1, step)
  BY <1>1, Recursion
<1>3. \A n \in Nat : n # 0 => n - 1 \in Nat /\ f[n] = step[<<n - 1, f[n - 1]>>]
  BY <1>2 DEF Recurs
<1>4. Def(f)
  BY <1>1, <1>2, <1>3 DEF Recurs
<1>5. Shifted = CHOOSE g : Def(g)
  BY DEF Shifted
<1>6. Def(Shifted)
  BY <1>4, <1>5
<1>7. Shifted = [n \in Nat |-> IF n = 0 THEN 1 ELSE 2 * Shifted[n - 1]]
  BY <1>6
<1>8. Shifted[0] = 1 /\ \A n \in Nat : Shifted[n + 1] = 2 * Shifted[n]
  BY <1>7
<1> DEFINE S == {n \in Nat : Shifted[n] \in Nat \ {0}}
<1>9. 0 \in S /\ \A n \in Nat : n \in S => n + 1 \in S
  BY <1>8
<1> HIDE DEF S
<1>10. \A n \in Nat : n \in S
  BY <1>9, Induction
<1> QED
  BY <1>8, <1>10 DEF S

LEMMA ShiftedTwice == \A m, n \in Nat : Shifted[m + n] = Shifted[m] * Shifted[n]
<1> SUFFICES ASSUME NEW m \in Nat PROVE \A n \in Nat : Shifted[m + n] = Shifted[m] * Shifted[n]
  OBVIOUS
<1> DEFINE S == {n \in Nat : Shifted[m + n] = Shifted[m] * Shifted[n]}
<1>1. 0 \in S
  BY ShiftedIs
<1>2. ASSUME NEW n \in Nat, n \in S PROVE n + 1 \in S
  <2>0. m + n \in Nat
    OBVIOUS
  <2> DEFINE a == Shifted[m]
             b == Shifted[n]
             c == Shifted[m + n]
  <2>1. a \in Nat /\ b \in Nat /\ c \in Nat
    BY <2>0, ShiftedIs
  <2>2. Shifted[m + (n + 1)] = 2 * c /\ Shifted[n + 1] = 2 * b /\ c = a * b
    <3>1. m + (n + 1) = (m + n) + 1 /\ m + n \in Nat
      OBVIOUS
    <3> QED
      BY <1>2, <3>1, ShiftedIs
  <2> HIDE DEF a, b, c
  <2>3. 2 * (a * b) = a * (2 * b)
    BY <2>1
  <2>4. Shifted[m + (n + 1)] = a * Shifted[n + 1]
    BY <2>2, <2>3
  <2> QED
    BY <2>4 DEF a
<1> HIDE DEF S
<1>3. \A n \in Nat : n \in S
  BY <1>1, <1>2, Induction
<1> QED
  BY <1>3 DEF S
-----------------------------------------------------------------------------
(***************************************************************************)
(* Numbers.                                                                *)
(***************************************************************************)

\* The constants, and the powers of two that are made of them.
LEMMA WidthsAre ==
    /\ Group \in Nat \ {0} /\ WordBits \in Nat \ {0} /\ MaxVarIntBytes \in Nat \ {0}
    /\ More \in Nat \ {0} /\ Word \in Nat \ {0} /\ Half \in Nat \ {0} /\ Word = 2 * Half
    /\ More = Shifted[Group]
<1>1. /\ Group \in Nat \ {0} /\ WordBits \in Nat \ {0} /\ MaxVarIntBytes \in Nat \ {0}
  BY WireAssumption DEF NumbersFit
<1>2. PICK n \in Nat : WordBits = n + 1 /\ n = WordBits - 1
  <2>1. WordBits - 1 \in Nat /\ WordBits = (WordBits - 1) + 1
    BY <1>1
  <2> QED
    BY <2>1
<1>3. Half = Shifted[n] /\ Word = Shifted[n + 1]
  BY <1>2 DEF Half, Word
<1>4. Word = 2 * Half /\ Half \in Nat \ {0}
  BY <1>3, ShiftedIs
<1>5. More \in Nat \ {0} /\ Word \in Nat \ {0}
  BY <1>1, ShiftedIs DEF More, Word
<1> QED
  BY <1>1, <1>4, <1>5 DEF More

\* The place of byte k of a number.
Weight(k) == Shifted[Group * (k - 1)]

LEMMA WeightIs ==
    /\ Weight(1) = 1
    /\ \A k \in Nat \ {0} : Weight(k) \in Nat \ {0} /\ Weight(k + 1) = Weight(k) * More
<1>1. Group \in Nat /\ Group * (1 - 1) = 0
  BY WidthsAre
<1>2. Weight(1) = 1
  BY <1>1, ShiftedIs DEF Weight
<1>3. ASSUME NEW k \in Nat \ {0} PROVE Weight(k) \in Nat \ {0} /\ Weight(k + 1) = Weight(k) * More
  <2>1. PICK n \in Nat : n = Group * (k - 1)
    <3>1. k - 1 \in Nat
      OBVIOUS
    <3> QED
      BY <1>1, <3>1
  <2>2. Group * ((k + 1) - 1) = n + Group
    BY <1>1, <2>1
  <2>3. Shifted[n + Group] = Shifted[n] * Shifted[Group]
    BY <1>1, <2>1, ShiftedTwice
  <2> QED
    BY <2>1, <2>2, <2>3, ShiftedIs, WidthsAre DEF Weight
<1> QED
  BY <1>2, <1>3

LEMMA LeftIs ==
    \A u \in Nat :
        /\ Left(u, 1) = u
        /\ \A k \in Nat \ {0} : Left(u, k) \in Nat /\ Left(u, k + 1) = Left(u, k) \div More
<1> SUFFICES ASSUME NEW u \in Nat
             PROVE  /\ Left(u, 1) = u
                    /\ \A k \in Nat \ {0} :
                           Left(u, k) \in Nat /\ Left(u, k + 1) = Left(u, k) \div More
  OBVIOUS
<1>0. \A k : Left(u, k) = u \div Weight(k)
  BY DEF Left, Weight
<1>1. Left(u, 1) = u
  BY <1>0, WeightIs
<1>2. ASSUME NEW k \in Nat \ {0}
      PROVE  Left(u, k) \in Nat /\ Left(u, k + 1) = Left(u, k) \div More
  <2>1. PICK w \in Nat \ {0}, m \in Nat \ {0} : w = Weight(k) /\ m = More /\ Weight(k + 1) = w * m
    BY WeightIs, WidthsAre
  <2>2. u \div w \in Nat
    BY Divides
  <2>3. u \div (w * m) = (u \div w) \div m
    <3>1. u \in Int
      OBVIOUS
    <3> QED
      BY <3>1, Twice, Zenon
  <2> QED
    BY <1>0, <2>1, <2>2, <2>3
<1> QED
  BY <1>1, <1>2

\* A number of the word's width ends with byte MaxVarIntBytes at the latest.
LEMMA LastFits == \A u \in 0..(Word - 1) : LastGroup(Left(u, MaxVarIntBytes))
<1> SUFFICES ASSUME NEW u \in 0..(Word - 1) PROVE LastGroup(Left(u, MaxVarIntBytes))
  OBVIOUS
<1>1. PICK n \in Nat \ {0} : n = MaxVarIntBytes
  BY WidthsAre
<1>2. PICK w \in Nat \ {0}, m \in Nat \ {0} :
          w = Weight(n) /\ m = More /\ Weight(n + 1) = w * m
  BY WeightIs, WidthsAre
<1>3. Word <= w * m
  <2>1. PICK g \in Nat : g = Group * n
    BY WidthsAre
  <2>2. WordBits <= g
    BY <1>1, <2>1, WireAssumption DEF NumbersFit
  <2>3. PICK d \in Nat : g = WordBits + d
    <3>1. g - WordBits \in Nat /\ g = WordBits + (g - WordBits)
      BY <2>2, WidthsAre
    <3> QED
      BY <3>1
  <2>4. Shifted[g] = Word * Shifted[d] /\ Shifted[d] \in Nat \ {0}
    BY <2>3, WidthsAre, ShiftedTwice, ShiftedIs DEF Word
  <2>5. Shifted[g] = w * m
    <3>1. Group * ((n + 1) - 1) = g
      BY <1>1, <2>1, WidthsAre
    <3> QED
      BY <1>2, <3>1 DEF Weight
  <2>6. \A a, b \in Nat \ {0} : a <= a * b
    <3>1. ASSUME NEW a \in Nat \ {0}, NEW b \in Nat \ {0} PROVE a * 1 <= a * b
      OBVIOUS
    <3> QED
      BY <3>1
  <2> QED
    BY <2>4, <2>5, <2>6, WidthsAre
<1>4. u \in Nat /\ u < w * m
  BY <1>2, <1>3, WidthsAre
<1>5. u \div w < m
  BY <1>4, Below
<1>6. Left(u, n) = u \div w
  BY <1>2 DEF Left, Weight
<1> QED
  BY <1>1, <1>2, <1>5, <1>6 DEF LastGroup

\* n is the byte the loop of WriteVarInt ends with.
Ends(u, n) ==
    /\ n \in 1..MaxVarIntBytes /\ LastGroup(Left(u, n))
    /\ \A j \in 1..(n - 1) : ~LastGroup(Left(u, j))

LEMMA TurnsIs == \A u \in 0..(Word - 1) : Ends(u, Turns(u))
<1> SUFFICES ASSUME NEW u \in 0..(Word - 1) PROVE Ends(u, Turns(u))
  OBVIOUS
<1> DEFINE T == {k \in 1..MaxVarIntBytes : LastGroup(Left(u, k))}
<1>1. MaxVarIntBytes \in T
  BY WidthsAre, LastFits
<1>2. T \in SUBSET Nat /\ T # {}
  BY <1>1
<1>3. PICK n \in T : \A j \in T : n <= j
  BY <1>2, Least
<1>4. \A j \in 1..(n - 1) : j \notin T
  BY <1>3
<1>5. n \in 1..MaxVarIntBytes /\ \A j \in 1..(n - 1) : j \in 1..MaxVarIntBytes
  BY WidthsAre
<1>6. Ends(u, n)
  BY <1>4, <1>5 DEF Ends
<1> DEFINE P(k) == LastGroup(Left(u, k)) /\ \A j \in 1..(k - 1) : ~LastGroup(Left(u, j))
<1>7. P(n) /\ n \in 1..MaxVarIntBytes
  BY <1>6 DEF Ends
<1>8. Turns(u) = CHOOSE k \in 1..MaxVarIntBytes : P(k)
  BY DEF Turns
<1> HIDE DEF P
<1>9. Turns(u) \in 1..MaxVarIntBytes /\ P(Turns(u))
  BY <1>7, <1>8
<1> QED
  BY <1>9 DEF Ends, P

\* The bytes that WriteVarInt writes of u.
Bytes(u) == [k \in 1..Turns(u) |->
                IF k = Turns(u) THEN Left(u, k) ELSE More + (Left(u, k) % More)]

LEMMA UnsignedIs ==
    \A v \in Int32 : /\ v \in Int /\ Unsigned(v) \in 0..(Word - 1) /\ Signed(Unsigned(v)) = v
                     /\ WriteVarInt(v) = Bytes(Unsigned(v))
<1> SUFFICES ASSUME NEW v \in Int32
             PROVE  /\ v \in Int /\ Unsigned(v) \in 0..(Word - 1) /\ Signed(Unsigned(v)) = v
                    /\ WriteVarInt(v) = Bytes(Unsigned(v))
  OBVIOUS
<1>1. PICK h, w \in Nat \ {0} : h = Half /\ w = Word /\ w = 2 * h
  BY WidthsAre
<1>2. v \in Int /\ -h <= v /\ v < h
  BY <1>1 DEF Int32
<1>3. PICK u \in Int : u = Unsigned(v) /\ u = v % w
  BY <1>1, <1>2, Divides DEF Unsigned
<1>4. u = IF v >= 0 THEN v ELSE v + w
  <2>1. ASSUME v >= 0 PROVE v % w = v
    <3>1. v = w * 0 + v /\ 0 <= v /\ v < w
      BY <1>1, <1>2, <2>1
    <3>2. (w * 0 + v) % w = v
      BY <1>2, <3>1, Quotients
    <3> QED
      BY <3>1, <3>2
  <2>2. ASSUME v < 0 PROVE v % w = v + w
    <3>1. v = w * (-1) + (v + w) /\ 0 <= v + w /\ v + w < w /\ v + w \in Int
      BY <1>1, <1>2, <2>2
    <3>2. PICK r \in Int, q \in Int : r = v + w /\ q = -1
      BY <3>1
    <3>3. (w * q + r) % w = r
      BY <1>1, <3>1, <3>2, Quotients
    <3> QED
      BY <3>1, <3>2, <3>3
  <2> QED
    BY <1>2, <1>3, <2>1, <2>2
<1>5. u \in 0..(w - 1)
  BY <1>1, <1>2, <1>4
<1>6. u % w = u
  <2>1. u = w * 0 + u
    BY <1>1
  <2>2. (w * 0 + u) % w = u
    BY <1>5, Quotients
  <2> QED
    BY <2>1, <2>2
<1>7. Signed(u) = IF u < h THEN u ELSE u - w
  BY <1>1, <1>6 DEF Signed
<1>8. Signed(u) = v
  BY <1>1, <1>2, <1>4, <1>7
<1>9. WriteVarInt(v) = Bytes(Unsigned(v))
  BY DEF WriteVarInt, Bytes
<1> QED
  BY <1>1, <1>2, <1>3, <1>5, <1>8, <1>9

\* The first n bytes of in are those of u.
Spells(in, u, n) ==
    /\ n \in Nat \ {0} /\ n <= MaxVarIntBytes /\ n <= Len(in)
    /\ \A k \in 1..n : in[k] % More = Left(u, k) % More
    /\ \A k \in 1..(n - 1) : ~(in[k] < More)
    /\ in[n] < More /\ Left(u, n) < More

LEMMA BytesAre ==
    \A u \in 0..(Word - 1) :
        /\ Bytes(u) \in Seq(Byte) /\ Len(Bytes(u)) = Turns(u)
        /\ Turns(u) \in Nat \ {0} /\ Spells(Bytes(u), u, Turns(u))
<1> SUFFICES ASSUME NEW u \in 0..(Word - 1)
             PROVE  /\ Bytes(u) \in Seq(Byte) /\ Len(Bytes(u)) = Turns(u)
                    /\ Turns(u) \in Nat \ {0} /\ Spells(Bytes(u), u, Turns(u))
  OBVIOUS
<1>1. PICK n : n = Turns(u)
  OBVIOUS
<1>2. /\ n \in Nat \ {0} /\ n <= MaxVarIntBytes /\ LastGroup(Left(u, n))
      /\ \A j \in 1..(n - 1) : ~LastGroup(Left(u, j))
  BY <1>1, TurnsIs, WidthsAre DEF Ends
<1>3. PICK m \in Nat \ {0} : m = More
  BY WidthsAre
<1>4. u \in Nat
  BY WidthsAre
<1>5. \A k \in 1..n : Left(u, k) \in Nat
  <2>1. \A k \in 1..n : k \in Nat \ {0}
    BY <1>2
  <2> QED
    BY <1>4, <2>1, LeftIs
<1>6. Bytes(u) = [k \in 1..n |-> IF k = n THEN Left(u, k) ELSE m + (Left(u, k) % m)]
  BY <1>1, <1>3 DEF Bytes
<1>7. PICK b : b = Bytes(u)
  OBVIOUS
<1>8. b[n] = Left(u, n) /\ \A k \in 1..(n - 1) : b[k] = m + (Left(u, k) % m)
  BY <1>2, <1>6, <1>7
<1>9. Left(u, n) < m
  BY <1>2, <1>3 DEF LastGroup
<1>10. \A a \in Nat : a % m \in Nat /\ a % m < m
  BY <1>3, Divides
<1>11. \A k \in 1..n : b[k] \in 0..(2 * m - 1)
  <2>1. ASSUME NEW k \in 1..n PROVE b[k] \in 0..(2 * m - 1)
    <3>1. CASE k = n
      BY <1>2, <1>3, <1>5, <1>8, <1>9, <3>1
    <3>2. CASE k # n
      <4>1. k \in 1..(n - 1)
        BY <1>2, <3>2
      <4>2. b[k] = m + (Left(u, k) % m) /\ Left(u, k) % m \in Nat /\ Left(u, k) % m < m
        BY <1>5, <1>8, <1>10, <4>1
      <4> QED
        BY <1>3, <4>2
    <3> QED
      BY <3>1, <3>2
  <2> QED
    BY <2>1
<1>12. b \in [1..n -> Byte]
  BY <1>3, <1>6, <1>7, <1>11 DEF Byte
<1>13. b \in Seq(Byte) /\ Len(b) = n
  BY <1>2, <1>12
<1>14. \A k \in 1..n : b[k] % m = Left(u, k) % m
  <2>1. ASSUME NEW k \in 1..n, k # n PROVE b[k] % m = Left(u, k) % m
    <3>1. PICK r \in Nat : r = Left(u, k) % m /\ r < m
      BY <1>5, <1>10
    <3>2. k \in 1..(n - 1)
      BY <1>2, <2>1
    <3>3. b[k] = m + r
      BY <1>8, <3>1, <3>2
    <3>4. (m * 1 + r) % m = r
      BY <1>3, <3>1, Quotients
    <3>5. b[k] = m * 1 + r
      BY <1>3, <3>1, <3>3
    <3> QED
      BY <3>1, <3>4, <3>5
  <2> QED
    BY <1>8, <2>1
<1>15. \A k \in 1..(n - 1) : ~(b[k] < m)
  <2>1. ASSUME NEW k \in 1..(n - 1) PROVE ~(b[k] < m)
    <3>1. k \in 1..n
      BY <1>2
    <3>2. PICK r \in Nat : r = Left(u, k) % m
      BY <1>5, <1>10, <3>1
    <3> QED
      BY <1>3, <1>8, <3>2
  <2> QED
    BY <2>1
<1>16. Spells(b, u, n)
  BY <1>2, <1>3, <1>8, <1>9, <1>13, <1>14, <1>15 DEF Spells
<1> QED
  BY <1>1, <1>2, <1>7, <1>13, <1>16

\* Of what is spelled only the first bytes matter.
LEMMA SpelledBefore ==
    \A u, n : \A s, t \in Seq(Byte) : Spells(s, u, n) => Spells(s \o t, u, n)
<1> SUFFICES ASSUME NEW u, NEW n, NEW s \in Seq(Byte), NEW t \in Seq(Byte), Spells(s, u, n)
             PROVE  Spells(s \o t, u, n)
  OBVIOUS
<1>1. n \in Nat \ {0} /\ n <= Len(s) /\ Len(s) \in Nat /\ Len(t) \in Nat
  BY DEF Spells
<1>2. Len(s \o t) = Len(s) + Len(t) /\ \A k \in 1..n : (s \o t)[k] = s[k]
  BY <1>1, ConcatProperties
<1>3. n <= Len(s \o t) /\ (s \o t)[n] = s[n] /\ \A k \in 1..(n - 1) : (s \o t)[k] = s[k]
  BY <1>1, <1>2
<1> QED
  BY <1>2, <1>3 DEF Spells

LEMMA EndFound == \A in \in Seq(Byte) : \A u, n : Spells(in, u, n) => NumberEnd(in) = n
<1> SUFFICES ASSUME NEW in \in Seq(Byte), NEW u, NEW n, Spells(in, u, n)
             PROVE  NumberEnd(in) = n
  OBVIOUS
<1> DEFINE ends == {i \in DOMAIN in : in[i] < More /\ i <= MaxVarIntBytes}
           Foremost(i) == i \in ends /\ \A j \in ends : i <= j
<1>1. n \in ends
  BY DEF Spells
<1>2. ends \subseteq Nat /\ \A j \in ends : ~(j < n)
  <2>1. ASSUME NEW j \in ends, j < n PROVE FALSE
    <3>1. j \in 1..(n - 1)
      BY <2>1 DEF Spells
    <3> QED
      BY <2>1, <3>1 DEF Spells
  <2> QED
    BY <2>1
<1>3. Foremost(n) /\ \A i : Foremost(i) => i = n
  BY <1>1, <1>2
<1>4. NumberEnd(in) = CHOOSE i \in ends : \A j \in ends : i <= j
  BY <1>1 DEF NumberEnd
<1> QED
  BY <1>3, <1>4

\* A number that is cut has no end.
LEMMA NoEnd ==
    \A in \in Seq(Byte) : (\A k \in 1..Len(in) : ~(in[k] < More)) => ReadVarInt(in) = ReadError
<1> SUFFICES ASSUME NEW in \in Seq(Byte), \A k \in 1..Len(in) : ~(in[k] < More)
             PROVE  ReadVarInt(in) = ReadError
  OBVIOUS
<1>1. {i \in DOMAIN in : in[i] < More /\ i <= MaxVarIntBytes} = {}
  BY LenProperties
<1> QED
  BY <1>1 DEF ReadVarInt, NumberEnd

\* The turns of the loop of ReadVarInt.
GroupTurns(sum, in, n) ==
    /\ sum \in [0..n -> Nat] /\ sum[0] = 0
    /\ \A k \in 1..n : sum[k] = sum[k - 1] + (in[k] % More) * Weight(k)

LEMMA GroupsIs ==
    \A in \in Seq(Byte), n \in Nat :
        n <= Len(in) => \E sum : GroupTurns(sum, in, n) /\ Groups(in, n) = sum[n]
<1> SUFFICES ASSUME NEW in \in Seq(Byte), NEW n \in Nat, n <= Len(in)
             PROVE  \E sum : GroupTurns(sum, in, n) /\ Groups(in, n) = sum[n]
  OBVIOUS
<1> DEFINE step == [p \in (1..n) \X Nat |-> p[2] + (in[p[1]] % More) * Weight(p[1])]
           Def(f) == f = [k \in 0..n |->
                             IF k = 0 THEN 0
                             ELSE f[k - 1] + (in[k] % More) * Shifted[Group * (k - 1)]]
<1>1. ASSUME NEW k \in 1..n, NEW v \in Nat PROVE v + (in[k] % More) * Weight(k) \in Nat
  <2>1. in[k] \in Byte
    BY ElementOfSeq
  <2>2. PICK b \in Nat : b = in[k]
    BY <2>1, WidthsAre DEF Byte
  <2>3. PICK m \in Nat \ {0} : m = More
    BY WidthsAre
  <2>4. PICK d \in Nat : d = b % m
    BY Divides
  <2>5. PICK w \in Nat : w = Weight(k)
    <3>1. k \in Nat \ {0}
      OBVIOUS
    <3> QED
      BY <3>1, WeightIs
  <2>6. v + d * w \in Nat
    OBVIOUS
  <2> QED
    BY <2>2, <2>3, <2>4, <2>5, <2>6
<1>2. /\ step \in [(1..n) \X Nat -> Nat]
      /\ \A k \in 1..n, v \in Nat : step[<<k, v>>] = v + (in[k] % More) * Weight(k)
  BY <1>1
<1> HIDE DEF step
<1>3. PICK f : RecursUpTo(f, n, Nat, 0, step)
  BY <1>2, RecursionUpTo
<1>4. GroupTurns(f, in, n)
  <2>1. f \in [0..n -> Nat] /\ f[0] = 0
    BY <1>3 DEF RecursUpTo
  <2>2. ASSUME NEW k \in 1..n PROVE f[k] = f[k - 1] + (in[k] % More) * Weight(k)
    <3>1. f[k - 1] \in Nat
      BY <2>1
    <3>2. f[k] = step[<<k, f[k - 1]>>]
      BY <1>3 DEF RecursUpTo
    <3> QED
      BY <1>2, <3>1, <3>2
  <2> QED
    BY <2>1, <2>2 DEF GroupTurns
<1>5. Def(f)
  BY <1>4 DEF GroupTurns, Weight
<1> DEFINE sum == CHOOSE g : Def(g)
<1>6. Groups(in, n) = sum[n]
  BY DEF Groups
<1>7. Def(sum)
  BY <1>5
<1> HIDE DEF sum
<1>8. sum = [k \in 0..n |-> IF k = 0 THEN 0 ELSE sum[k - 1] + (in[k] % More) * Weight(k)]
  BY <1>7 DEF Weight
<1>9. sum[0] = 0 /\ \A k \in 1..n : sum[k] = sum[k - 1] + (in[k] % More) * Weight(k)
  BY <1>8
<1> DEFINE S == {k \in 0..n : sum[k] \in Nat}
<1>10. 0 \in S /\ \A k \in 1..n : k - 1 \in S => k \in S
  <2>1. 0 \in S
    BY <1>9
  <2>2. ASSUME NEW k \in 1..n, k - 1 \in S PROVE k \in S
    <3>1. PICK v \in Nat : v = sum[k - 1]
      BY <2>2
    <3>2. sum[k] \in Nat
      BY <1>1, <1>9, <3>1
    <3> QED
      BY <3>2
  <2> QED
    BY <2>1, <2>2
<1> HIDE DEF S
<1>11. \A k \in 0..n : k \in S
  BY <1>10, InductionUpTo
<1>12. GroupTurns(sum, in, n)
  BY <1>8, <1>9, <1>11 DEF S, GroupTurns
<1> QED
  BY <1>6, <1>12

\* After k turns what has been added and what is left make the number.
LEMMA GroupsFound ==
    \A in \in Seq(Byte), u \in Nat : \A n : Spells(in, u, n) => Groups(in, n) = u
<1> SUFFICES ASSUME NEW in \in Seq(Byte), NEW u \in Nat, NEW n, Spells(in, u, n)
             PROVE  Groups(in, n) = u
  OBVIOUS
<1>1. /\ n \in Nat \ {0} /\ n <= Len(in) /\ Left(u, n) < More
      /\ \A k \in 1..n : in[k] % More = Left(u, k) % More
  BY DEF Spells
<1>2. PICK sum : GroupTurns(sum, in, n) /\ Groups(in, n) = sum[n]
  BY <1>1, GroupsIs
<1>3. PICK m \in Nat \ {0} : m = More
  BY WidthsAre
<1>4. \A k \in 1..n : k \in Nat \ {0} /\ k + 1 \in Nat \ {0}
  OBVIOUS
<1> DEFINE S == {k \in 0..n : u = sum[k] + Weight(k + 1) * Left(u, k + 1)}
<1>5. 0 \in S
  <2>1. sum[0] = 0 /\ Weight(1) = 1 /\ Left(u, 1) = u
    BY <1>2, WeightIs, LeftIs DEF GroupTurns
  <2> QED
    BY <1>1, <2>1
<1>6. ASSUME NEW k \in 1..n, k - 1 \in S PROVE k \in S
  <2>1. PICK v \in Nat : v = sum[k - 1]
    BY <1>1, <1>2 DEF GroupTurns
  <2>2. PICK w \in Nat \ {0} : w = Weight(k) /\ Weight(k + 1) = w * m
    BY <1>3, <1>4, WeightIs
  <2>3. PICK a \in Nat : a = Left(u, k) /\ Left(u, k + 1) = a \div m
    <3>1. Left(u, k) \in Nat /\ Left(u, k + 1) = Left(u, k) \div More
      BY <1>4, LeftIs, Zenon
    <3> QED
      BY <1>3, <3>1
  <2>4. u = v + w * a
    <3>1. (k - 1) + 1 = k
      OBVIOUS
    <3> QED
      BY <1>6, <2>1, <2>2, <2>3, <3>1
  <2>5. PICK q \in Int, r \in Int : q = a \div m /\ r = a % m /\ a = m * q + r
    BY Divides
  <2>6. sum[k] = v + r * w
    <3>1. sum[k] = sum[k - 1] + (in[k] % More) * Weight(k)
      BY <1>2 DEF GroupTurns
    <3> QED
      BY <1>1, <1>3, <2>1, <2>2, <2>3, <2>5, <3>1
  <2>7. w * (m * q + r) = r * w + (w * m) * q
    OBVIOUS
  <2>8. u = (v + r * w) + (w * m) * q
    <3>1. w * a = r * w + (w * m) * q
      BY <2>5, <2>7
    <3>2. r * w \in Int /\ (w * m) * q \in Int
      OBVIOUS
    <3> QED
      BY <2>4, <3>1, <3>2
  <2>9. u = sum[k] + Weight(k + 1) * Left(u, k + 1)
    BY <2>2, <2>3, <2>5, <2>6, <2>8
  <2> QED
    BY <2>9
<1> HIDE DEF S
<1>7. \A k \in 0..n : k \in S
  BY <1>1, <1>5, <1>6, InductionUpTo
<1>8. n \in S
  BY <1>1, <1>7
<1>9. Left(u, n + 1) = 0
  <2>1. PICK a \in Nat : a = Left(u, n) /\ Left(u, n + 1) = a \div m
    BY <1>1, <1>3, LeftIs
  <2>2. a = m * 0 + a /\ a < m
    BY <1>1, <1>3, <2>1
  <2>3. (m * 0 + a) \div m = 0
    BY <2>2, Quotients
  <2> QED
    BY <2>1, <2>2, <2>3
<1>10. u = sum[n] + Weight(n + 1) * 0
  BY <1>8, <1>9 DEF S
<1>11. Weight(n + 1) \in Nat /\ sum[n] \in Nat
  BY <1>1, <1>2, WeightIs DEF GroupTurns
<1> QED
  BY <1>2, <1>10, <1>11

\* A sequence of two parts has the parts.
LEMMA Parts ==
    \A s, t \in Seq(Byte) : Drop(s \o t, Len(s)) = t /\ SubSeq(s \o t, 1, Len(s)) = s
<1> SUFFICES ASSUME NEW s \in Seq(Byte), NEW t \in Seq(Byte)
             PROVE  Drop(s \o t, Len(s)) = t /\ SubSeq(s \o t, 1, Len(s)) = s
  OBVIOUS
<1>1. PICK n \in Nat, l \in Nat, in \in Seq(Byte) :
          n = Len(s) /\ l = Len(t) /\ in = s \o t /\ Len(in) = n + l
  <2>1. PICK n, l : n = Len(s) /\ l = Len(t)
    OBVIOUS
  <2>2. n \in Nat /\ l \in Nat
    BY <2>1
  <2>3. s \o t \in Seq(Byte) /\ Len(s \o t) = n + l
    BY <2>1, ConcatProperties
  <2> QED
    BY <2>1, <2>2, <2>3
<1>2. \A i \in 1..l : in[n + i] = t[i]
  <2>1. ASSUME NEW i \in 1..l PROVE in[n + i] = t[i]
    <3>1. n + i \in 1..(n + l) /\ ~(n + i <= n) /\ (n + i) - n = i
      BY <1>1
    <3> QED
      BY <1>1, <3>1, ConcatProperties
  <2> QED
    BY <2>1
<1>3. \A i \in 1..n : in[i] = s[i]
  <2>1. ASSUME NEW i \in 1..n PROVE in[i] = s[i]
    <3>1. i \in 1..(n + l) /\ i <= n
      BY <1>1
    <3> QED
      BY <1>1, <3>1, ConcatProperties
  <2> QED
    BY <2>1
<1>4. \A i \in 1..(n + l) : in[i] \in Byte
  BY <1>1, ElementOfSeq
<1>5. PICK e : e = SubSeq(in, n + 1, n + l)
  OBVIOUS
<1>6. /\ e \in Seq(Byte) /\ Len(e) = IF n + 1 <= n + l THEN (n + l) - (n + 1) + 1 ELSE 0
      /\ \A i \in 1..((n + l) - (n + 1) + 1) : e[i] = in[(n + 1) + i - 1]
  <2>1. \A i \in (n + 1)..(n + l) : in[i] \in Byte
    BY <1>4
  <2> QED
    BY <1>5, <2>1, SubSeqProperties
<1>7. Len(e) = l /\ \A i \in 1..l : e[i] = in[n + i]
  <2>1. (n + l) - (n + 1) + 1 = l /\ \A i \in 1..l : (n + 1) + i - 1 = n + i
    OBVIOUS
  <2> QED
    BY <1>6, <2>1
<1>8. e = t
  BY <1>1, <1>2, <1>6, <1>7, SeqEqual
<1>9. PICK f : f = SubSeq(in, 1, n)
  OBVIOUS
<1>10. /\ f \in Seq(Byte) /\ Len(f) = IF 1 <= n THEN n - 1 + 1 ELSE 0
       /\ \A i \in 1..(n - 1 + 1) : f[i] = in[1 + i - 1]
  <2>1. \A i \in 1..n : in[i] \in Byte
    BY <1>4
  <2> QED
    BY <1>9, <2>1, SubSeqProperties
<1>11. Len(f) = n /\ \A i \in 1..n : f[i] = in[i]
  <2>1. n - 1 + 1 = n /\ \A i \in 1..n : 1 + i - 1 = i
    OBVIOUS
  <2> QED
    BY <1>10, <2>1
<1>12. f = s
  BY <1>1, <1>3, <1>10, <1>11, SeqEqual
<1> QED
  BY <1>1, <1>5, <1>8, <1>9, <1>12 DEF Drop

\* A number is read as it was written, and nothing behind it is touched.
LEMMA NumberRead ==
    \A v \in Int32, tail \in Seq(Byte) : ReadVarInt(WriteVarInt(v) \o tail) = Got(v, tail)
<1> SUFFICES ASSUME NEW v \in Int32, NEW tail \in Seq(Byte)
             PROVE  ReadVarInt(WriteVarInt(v) \o tail) = Got(v, tail)
  OBVIOUS
<1>1. PICK u \in 0..(Word - 1) : u = Unsigned(v) /\ Signed(u) = v /\ WriteVarInt(v) = Bytes(u)
  BY UnsignedIs
<1>2. PICK s \in Seq(Byte), n \in Nat \ {0} :
          s = Bytes(u) /\ n = Turns(u) /\ Len(s) = n /\ Spells(s, u, n)
  BY BytesAre
<1>3. PICK in : in = s \o tail
  OBVIOUS
<1>4. in \in Seq(Byte) /\ Len(in) = n + Len(tail)
  BY <1>2, <1>3, ConcatProperties
<1>5. Spells(in, u, n)
  BY <1>2, <1>3, SpelledBefore
<1>6. NumberEnd(in) = n /\ n # 0
  BY <1>2, <1>4, <1>5, EndFound
<1>7. u \in Nat
  BY WidthsAre
<1>8. Groups(in, n) = u
  BY <1>4, <1>5, <1>7, GroupsFound
<1>9. Drop(in, n) = tail
  BY <1>2, <1>3, Parts
<1> QED
  BY <1>1, <1>2, <1>3, <1>6, <1>8, <1>9 DEF ReadVarInt

\* The library's facts about concatenation, for sequences of one set.
LEMMA Concatenated == \A T : \A s, t \in Seq(T) : s \o t \in Seq(T)
  BY ConcatProperties

LEMMA Associated == \A T : \A s, t, u \in Seq(T) : (s \o t) \o u = s \o (t \o u)
  BY ConcatAssociative, Zenon

LEMMA Cancelled == \A T : \A s, t, u \in Seq(T) : s \o t = s \o u => t = u
  BY ONLY ConcatSimplifications, Zenon

\* Two ways to put a sequence together.
Same(a, b, c, d) == a \o b = c \o d

LEMMA Regrouped ==
    \A T : \A b, c, d, e \in Seq(T) : Same(c \o e, b, c, d) => e \o b = d
<1> SUFFICES ASSUME NEW T, NEW b \in Seq(T), NEW c \in Seq(T), NEW d \in Seq(T), NEW e \in Seq(T)
             PROVE  (c \o e) \o b = c \o d => e \o b = d
  BY DEF Same
<1>1. (c \o e) \o b = c \o (e \o b)
  BY Associated
<1>2. e \o b \in Seq(T)
  BY Concatenated
<1> QED
  BY <1>1, <1>2, Cancelled

LEMMA Nested ==
    \A T : \A a, b, c, d, e \in Seq(T) : Same(a, b, c \o d, e) => Same(a, b, c, d \o e)
<1> SUFFICES ASSUME NEW T, NEW a \in Seq(T), NEW b \in Seq(T), NEW c \in Seq(T),
                    NEW d \in Seq(T), NEW e \in Seq(T)
             PROVE  Same(a, b, c \o d, e) => Same(a, b, c, d \o e)
  OBVIOUS
<1>1. (c \o d) \o e = c \o (d \o e)
  BY Associated
<1> QED
  BY <1>1 DEF Same

\* What the longer first part has over the shorter one.
Longer(a, b, c, d, T) == \E e \in Seq(T) : a = c \o e /\ d = e \o b

\* Of two ways to cut a sequence the shorter piece begins the longer one.
LEMMA Cut ==
    \A T : \A a, b, c, d \in Seq(T) :
        Same(a, b, c, d) /\ Len(c) <= Len(a) => Longer(a, b, c, d, T)
<1> SUFFICES ASSUME NEW T, NEW a \in Seq(T), NEW b \in Seq(T), NEW c \in Seq(T), NEW d \in Seq(T),
                    Same(a, b, c, d), Len(c) <= Len(a)
             PROVE  Longer(a, b, c, d, T)
  OBVIOUS
<1>1. PICK m \in Nat, n \in Nat : m = Len(a) /\ n = Len(c) /\ n <= m
  OBVIOUS
<1>2. PICK e : e = SubSeq(a, n + 1, m)
  OBVIOUS
<1>3. e \in Seq(T) /\ Len(e) = m - n /\ \A i \in 1..(m - n) : e[i] = a[n + i]
  <2>1. \A i \in (n + 1)..m : a[i] \in T
    BY <1>1, ElementOfSeq
  <2>2. /\ e \in Seq(T) /\ Len(e) = IF n + 1 <= m THEN m - (n + 1) + 1 ELSE 0
        /\ \A i \in 1..(m - (n + 1) + 1) : e[i] = a[(n + 1) + i - 1]
    BY <1>1, <1>2, <2>1, SubSeqProperties
  <2>3. m - (n + 1) + 1 = m - n /\ \A i \in 1..(m - n) : (n + 1) + i - 1 = n + i
    BY <1>1
  <2>4. Len(e) = m - n
    BY <1>1, <2>2
  <2>5. \A i \in 1..(m - n) : e[i] = a[n + i]
    <3>1. ASSUME NEW i \in 1..(m - n) PROVE e[i] = a[n + i]
      <4>1. i \in 1..(m - (n + 1) + 1) /\ (n + 1) + i - 1 = n + i
        BY <2>3
      <4> QED
        BY <2>2, <4>1, Zenon
    <3> QED
      BY <3>1, Zenon
  <2> QED
    BY <2>2, <2>4, <2>5
<1>4. \A i \in 1..n : c[i] = a[i]
  <2>1. ASSUME NEW i \in 1..n PROVE c[i] = a[i]
    <3>1. (a \o b)[i] = a[i]
      BY <1>1, ConcatProperties
    <3>2. (c \o d)[i] = c[i]
      BY <1>1, ConcatProperties
    <3> QED
      BY <3>1, <3>2 DEF Same
  <2> QED
    BY <2>1
<1>5. c \o e \in Seq(T) /\ Len(c \o e) = m
  <2>1. c \o e \in Seq(T) /\ Len(c \o e) = Len(c) + Len(e)
    BY <1>3, ConcatProperties
  <2> QED
    BY <1>1, <1>3, <2>1
<1>6. ASSUME NEW i \in 1..m PROVE (c \o e)[i] = a[i]
  <2>1. (c \o e)[i] = IF i <= n THEN c[i] ELSE e[i - n]
    BY <1>1, <1>3, ConcatProperties
  <2>2. CASE i <= n
    <3>1. i \in 1..n
      BY <2>2
    <3> QED
      BY <1>4, <2>1, <2>2, <3>1, Zenon
  <2>3. CASE i > n
    <3>1. i - n \in 1..(m - n) /\ n + (i - n) = i
      BY <1>1, <2>3
    <3> QED
      BY <1>1, <1>3, <2>1, <2>3, <3>1
  <2>4. i <= n \/ i > n
    BY <1>1
  <2> QED
    BY <2>2, <2>3, <2>4, Zenon
<1>7. a = c \o e
  BY <1>1, <1>5, <1>6, SeqEqual
<1>8. e \o b = d
  <2>1. e \in Seq(T) /\ Same(c \o e, b, c, d)
    BY <1>3, <1>7
  <2> QED
    BY <2>1, Regrouped
<1> QED
  BY <1>3, <1>7, <1>8 DEF Longer

\* A number that is cut is not read.
LEMMA NumberCut ==
    \A v \in Int32 : \A in, missing, tail \in Seq(Byte) :
        in \o missing = WriteVarInt(v) \o tail /\ Len(in) < Len(WriteVarInt(v))
            => ReadVarInt(in) = ReadError
<1> SUFFICES ASSUME NEW v \in Int32, NEW in \in Seq(Byte), NEW missing \in Seq(Byte),
                    NEW tail \in Seq(Byte),
                    in \o missing = WriteVarInt(v) \o tail, Len(in) < Len(WriteVarInt(v))
             PROVE  ReadVarInt(in) = ReadError
  OBVIOUS
<1>1. PICK u \in 0..(Word - 1) : WriteVarInt(v) = Bytes(u)
  BY UnsignedIs
<1>2. PICK s \in Seq(Byte), n \in Nat \ {0} :
          s = WriteVarInt(v) /\ Len(s) = n /\ Spells(s, u, n)
  BY <1>1, BytesAre
<1>3. PICK e \in Seq(Byte) : s = in \o e
  <2>1. Same(s, tail, in, missing) /\ Len(in) <= Len(s)
    BY <1>2 DEF Same
  <2>2. Longer(s, tail, in, missing, Byte)
    BY <2>1, Cut
  <2> QED
    BY <2>2 DEF Longer
<1>4. ASSUME NEW k \in 1..Len(in) PROVE ~(in[k] < More)
  <2>1. Len(in) \in Nat /\ Len(in) < n
    BY <1>2
  <2>2. k \in 1..(n - 1)
    BY <1>2, <2>1
  <2>3. s[k] = in[k]
    BY <1>3, <2>1, ConcatProperties
  <2> QED
    BY <1>2, <2>2, <2>3 DEF Spells
<1> QED
  BY <1>4, NoEnd
-----------------------------------------------------------------------------
(***************************************************************************)
(* Packets.                                                                *)
(***************************************************************************)

LEMMA WrittenNumber == \A v \in Int32 : WriteVarInt(v) \in Seq(Byte) /\ Len(WriteVarInt(v)) \in Nat \ {0}
<1> SUFFICES ASSUME NEW v \in Int32
             PROVE  WriteVarInt(v) \in Seq(Byte) /\ Len(WriteVarInt(v)) \in Nat \ {0}
  OBVIOUS
<1>1. PICK u \in 0..(Word - 1) : WriteVarInt(v) = Bytes(u)
  BY UnsignedIs
<1> QED
  BY <1>1, BytesAre

\* A reader that is told of sizes up to maxSize understands their numbers.
Limit(maxSize) == maxSize \in Nat /\ maxSize < Half

\* A packet that a reader takes.
Fitting(maxSize) == {packet \in Packet : BodyLength(packet) <= maxSize}

\* The parts of a written packet: its length, its ID and its data.
LEMMA PacketParts ==
    \A maxSize : Limit(maxSize) => \A packet \in Fitting(maxSize) :
        /\ packet.id \in Int32 /\ packet.data \in Seq(Byte)
        /\ Body(packet) \in Seq(Byte) /\ Body(packet) = WriteVarInt(packet.id) \o packet.data
        /\ BodyLength(packet) = Len(Body(packet)) /\ BodyLength(packet) <= maxSize
        /\ BodyLength(packet) \in Int32 /\ BodyLength(packet) \in Nat
        /\ WritePacket(packet) = WriteVarInt(BodyLength(packet)) \o Body(packet)
        /\ WritePacket(packet) \in Seq(Byte) /\ Len(WritePacket(packet)) \in Nat \ {0}
<1> SUFFICES ASSUME NEW maxSize, Limit(maxSize), NEW packet \in Fitting(maxSize)
             PROVE  /\ packet.id \in Int32 /\ packet.data \in Seq(Byte)
                    /\ Body(packet) \in Seq(Byte)
                    /\ Body(packet) = WriteVarInt(packet.id) \o packet.data
                    /\ BodyLength(packet) = Len(Body(packet)) /\ BodyLength(packet) <= maxSize
                    /\ BodyLength(packet) \in Int32 /\ BodyLength(packet) \in Nat
                    /\ WritePacket(packet) = WriteVarInt(BodyLength(packet)) \o Body(packet)
                    /\ WritePacket(packet) \in Seq(Byte) /\ Len(WritePacket(packet)) \in Nat \ {0}
  BY Zenon
<1>1. packet \in Packet /\ BodyLength(packet) <= maxSize
  BY Zenon DEF Fitting
<1>2. packet.id \in Int32 /\ packet.data \in Seq(Byte)
  BY <1>1, Zenon DEF Packet
<1>3. Body(packet) = WriteVarInt(packet.id) \o packet.data
  BY DEF Body
<1>4. WriteVarInt(packet.id) \in Seq(Byte)
  BY <1>2, WrittenNumber, Zenon
<1>5. Body(packet) \in Seq(Byte)
  BY <1>2, <1>3, <1>4, Concatenated
<1>6. PICK l : l = BodyLength(packet) /\ l = Len(Body(packet))
  BY DEF BodyLength
<1>7. l \in Nat
  BY <1>5, <1>6
<1>8. l \in Int32
  <2>1. l <= maxSize /\ maxSize \in Nat /\ maxSize < Half /\ Half \in Nat
    BY <1>1, <1>6, WidthsAre DEF Limit
  <2> QED
    BY <1>7, <2>1 DEF Int32
<1>9. WritePacket(packet) = WriteVarInt(l) \o Body(packet)
  BY <1>6 DEF WritePacket
<1>10. WriteVarInt(l) \in Seq(Byte) /\ Len(WriteVarInt(l)) \in Nat \ {0}
  BY <1>8, WrittenNumber
<1>11. PICK s, t : s = WriteVarInt(l) /\ t = Body(packet)
  OBVIOUS
<1>12. s \o t \in Seq(Byte) /\ Len(s \o t) \in Nat \ {0}
  <2>1. s \in Seq(Byte) /\ t \in Seq(Byte) /\ Len(s) \in Nat \ {0} /\ Len(t) \in Nat
    BY <1>5, <1>10, <1>11
  <2>2. s \o t \in Seq(Byte) /\ Len(s \o t) = Len(s) + Len(t)
    BY <2>1, ConcatProperties
  <2> QED
    BY <2>1, <2>2
<1> QED
  BY <1>1, <1>2, <1>3, <1>5, <1>6, <1>7, <1>8, <1>9, <1>11, <1>12

\* A packet is read as it was written, and nothing behind it is touched.
LEMMA PacketRead ==
    \A maxSize : Limit(maxSize) => \A packet \in Fitting(maxSize), tail \in Seq(Byte) :
        ReadPacket(WritePacket(packet) \o tail, maxSize) = Got(packet, tail)
<1> SUFFICES ASSUME NEW maxSize, Limit(maxSize), NEW packet \in Fitting(maxSize),
                    NEW tail \in Seq(Byte)
             PROVE  ReadPacket(WritePacket(packet) \o tail, maxSize) = Got(packet, tail)
  BY Zenon
<1>1. PICK id \in Int32, data \in Seq(Byte) : id = packet.id /\ data = packet.data
  BY PacketParts, Zenon
<1>2. PICK body \in Seq(Byte), l \in Nat :
          /\ l \in Int32
          /\ body = Body(packet) /\ body = WriteVarInt(id) \o data
          /\ l = Len(body) /\ l = BodyLength(packet) /\ l <= maxSize
  BY <1>1, PacketParts, Zenon
<1>3. PICK number \in Seq(Byte) : number = WriteVarInt(l)
  BY <1>2, WrittenNumber, Zenon
<1>4. WritePacket(packet) = number \o body
  BY <1>2, <1>3, PacketParts, Zenon
<1>5. PICK in, rest : in = WritePacket(packet) \o tail /\ rest = body \o tail
  OBVIOUS
<1>6. in = number \o rest /\ rest \in Seq(Byte)
  <2>1. (number \o body) \o tail = number \o (body \o tail)
    BY Associated
  <2>2. body \o tail \in Seq(Byte)
    BY Concatenated
  <2> QED
    BY <1>4, <1>5, <2>1, <2>2
<1>7. ReadVarInt(in) = Got(l, rest)
  <2>1. l \in Int32 /\ rest \in Seq(Byte) /\ in = WriteVarInt(l) \o rest
    BY <1>2, <1>3, <1>6
  <2> QED
    BY <2>1, NumberRead
<1>8. SubSeq(rest, 1, l) = body /\ Drop(rest, l) = tail
  BY <1>2, <1>5, Parts, Zenon
<1>9. ReadVarInt(body) = Got(id, data)
  BY <1>2, NumberRead, Zenon
<1>10. l <= Len(rest) /\ l >= 0 /\ l <= maxSize
  <2>1. Len(rest) = Len(body) + Len(tail)
    BY <1>5, ConcatProperties
  <2>2. PICK m \in Nat, n \in Nat : m = Len(tail) /\ n = Len(rest)
    BY <1>6
  <2>3. l = Len(body) /\ l \in Nat /\ l <= maxSize
    BY <1>2
  <2>4. n = l + m
    BY <2>1, <2>2, <2>3
  <2>5. l <= n
    BY <2>2, <2>3, <2>4
  <2> QED
    BY <2>2, <2>3, <2>5
<1>11. packet = [id |-> id, data |-> data]
  BY <1>1 DEF Fitting, Packet
<1>12. PICK length : length = Got(l, rest)
  OBVIOUS
<1>13. length.ok /\ length.value = l /\ length.rest = rest
  BY <1>12 DEF Got
<1>14. PICK number2 : number2 = Got(id, data)
  OBVIOUS
<1>15. number2.ok /\ number2.value = id /\ number2.rest = data
  BY <1>14 DEF Got
<1>16. ~(l < 0 \/ l > maxSize \/ l > Len(rest))
  BY <1>2, <1>6, <1>10 DEF Limit
<1>17. ReadPacket(in, maxSize) = Got([id |-> id, data |-> data], tail)
  BY <1>7, <1>8, <1>9, <1>12, <1>13, <1>14, <1>15, <1>16, Zenon DEF ReadPacket
<1> QED
  BY <1>5, <1>11, <1>17

\* A packet that is cut is not read.
LEMMA PacketCut ==
    \A maxSize : Limit(maxSize) =>
        \A packet \in Fitting(maxSize), in \in Seq(Byte), missing \in Seq(Byte), tail \in Seq(Byte) :
            Same(in, missing, WritePacket(packet), tail) /\ Len(in) < Len(WritePacket(packet))
                => ReadPacket(in, maxSize) = ReadError
<1> SUFFICES ASSUME NEW maxSize, Limit(maxSize), NEW packet \in Fitting(maxSize),
                    NEW in \in Seq(Byte), NEW missing \in Seq(Byte), NEW tail \in Seq(Byte),
                    Same(in, missing, WritePacket(packet), tail),
                    Len(in) < Len(WritePacket(packet))
             PROVE  ReadPacket(in, maxSize) = ReadError
  BY Zenon
<1>1. PICK body \in Seq(Byte), l \in Nat :
          /\ l \in Int32
          /\ body = Body(packet) /\ l = Len(body) /\ l = BodyLength(packet)
  BY PacketParts, Zenon
<1>2. PICK number \in Seq(Byte) : number = WriteVarInt(l) /\ Len(number) \in Nat
  BY <1>1, WrittenNumber
<1>3. WritePacket(packet) = number \o body
  BY <1>1, <1>2, PacketParts
<1>4. PICK rest \in Seq(Byte) : rest = body \o tail
  BY Concatenated
<1>5. Same(in, missing, number, rest)
  <2>1. Same(in, missing, number \o body, tail)
    BY <1>3
  <2> QED
    BY <1>4, <2>1, Nested
<1>6. ReadError.ok = FALSE
  BY DEF ReadError
<1>7. CASE Len(in) < Len(number)
  <2>1. in \o missing = WriteVarInt(l) \o rest /\ Len(in) < Len(WriteVarInt(l)) /\ l \in Int32
    BY <1>1, <1>2, <1>5, <1>7 DEF Same
  <2>2. ReadVarInt(in) = ReadError
    BY <2>1, NumberCut
  <2> QED
    BY <1>6, <2>2, Zenon DEF ReadPacket
<1>8. CASE Len(number) <= Len(in)
  <2>1. Longer(in, missing, number, rest, Byte)
    BY <1>5, <1>8, Cut
  <2>2. PICK e \in Seq(Byte) : in = number \o e
    BY <2>1 DEF Longer
  <2>3. ReadVarInt(in) = Got(l, e)
    <3>1. l \in Int32 /\ in = WriteVarInt(l) \o e
      BY <1>1, <1>2, <2>2
    <3> QED
      BY <3>1, NumberRead
  <2>4. l > Len(e)
    <3>1. Len(in) = Len(number) + Len(e)
      BY <2>2, ConcatProperties
    <3>2. Len(WritePacket(packet)) = Len(number) + Len(body)
      BY <1>3, ConcatProperties
    <3>3. PICK m \in Nat, n \in Nat : m = Len(number) /\ n = Len(e)
      BY <1>2
    <3>4. m + n < m + l
      BY <1>1, <3>1, <3>2, <3>3
    <3> QED
      BY <1>1, <3>3, <3>4
  <2>5. PICK length : length = Got(l, e)
    OBVIOUS
  <2>6. length.value = l /\ length.rest = e
    BY <2>5 DEF Got
  <2> QED
    BY <2>3, <2>4, <2>5, <2>6, Zenon DEF ReadPacket
<1>9. Len(in) \in Nat
  OBVIOUS
<1> QED
  BY <1>2, <1>7, <1>8, <1>9

LEMMA NothingRead == \A maxSize : ReadPacket(<<>>, maxSize) = ReadError
<1>1. <<>> \in Seq(Byte) /\ \A k \in 1..Len(<<>>) : FALSE
  OBVIOUS
<1>2. ReadVarInt(<<>>) = ReadError
  BY <1>1, NoEnd
<1>3. ReadError.ok = FALSE
  BY DEF ReadError
<1> QED
  BY <1>2, <1>3, Zenon DEF ReadPacket

-----------------------------------------------------------------------------
(***************************************************************************)
(* Streams.                                                                *)
(***************************************************************************)

\* The stream of packets, by turns.
StreamTurns(bytes, packets) ==
    /\ bytes \in [0..Len(packets) -> Seq(Byte)] /\ bytes[0] = <<>>
    /\ \A n \in 1..Len(packets) : bytes[n] = bytes[n - 1] \o WritePacket(packets[n])

LEMMA StreamIs ==
    \A maxSize : Limit(maxSize) => \A packets \in Seq(Fitting(maxSize)) :
        StreamTurns(Stream(packets), packets)
<1> SUFFICES ASSUME NEW maxSize, Limit(maxSize), NEW packets \in Seq(Fitting(maxSize))
             PROVE  StreamTurns(Stream(packets), packets)
  BY Zenon
<1>1. PICK l \in Nat : l = Len(packets)
  OBVIOUS
<1>2. \A n \in 1..l : WritePacket(packets[n]) \in Seq(Byte)
  <2>1. ASSUME NEW n \in 1..l PROVE WritePacket(packets[n]) \in Seq(Byte)
    <3>1. packets[n] \in Fitting(maxSize)
      BY <1>1, ElementOfSeq
    <3> QED
      BY <3>1, PacketParts, Zenon
  <2> QED
    BY <2>1
<1> DEFINE T == Seq(Byte)
           step == [p \in (1..l) \X T |-> p[2] \o WritePacket(packets[p[1]])]
           Def(f) == f = [n \in 0..l |-> IF n = 0 THEN <<>>
                                         ELSE f[n - 1] \o WritePacket(packets[n])]
<1>3. \A n \in 1..l, v \in T : v \o WritePacket(packets[n]) \in T
  BY <1>2, Concatenated
<1>4. step \in [(1..l) \X T -> T] /\ <<>> \in T
      /\ \A n \in 1..l, v \in T : step[<<n, v>>] = v \o WritePacket(packets[n])
  <2>1. <<>> \in T
    OBVIOUS
  <2> HIDE DEF T
  <2> QED
    BY <1>3, <2>1
<1> HIDE DEF T, step
<1>5. PICK f : RecursUpTo(f, l, T, <<>>, step)
  BY <1>4, RecursionUpTo
<1>6. f \in [0..l -> T] /\ f[0] = <<>> /\ \A n \in 1..l : f[n] = step[<<n, f[n - 1]>>]
  BY <1>5 DEF RecursUpTo
<1>7. \A n \in 1..l : f[n - 1] \in T /\ f[n] = f[n - 1] \o WritePacket(packets[n])
  <2>1. \A n \in 1..l : f[n - 1] \in T
    BY <1>6
  <2> QED
    BY <1>4, <1>6, <2>1
<1>8. Def(f)
  <2>1. \A n \in 0..l : n = 0 \/ (n # 0 /\ n \in 1..l)
    OBVIOUS
  <2>2. \A n \in 0..l : f[n] = IF n = 0 THEN <<>> ELSE f[n - 1] \o WritePacket(packets[n])
    BY <1>6, <1>7, <2>1, Zenon
  <2>3. f = [n \in 0..l |-> f[n]]
    BY <1>6
  <2> QED
    BY <2>2, <2>3, Zenon
<1>9. Stream(packets) = CHOOSE g : Def(g)
  BY <1>1 DEF Stream
<1> DEFINE bytes == CHOOSE g : Def(g)
<1>10. Def(bytes)
  BY <1>8
<1> HIDE DEF bytes
<1>11. /\ bytes = [n \in 0..l |-> bytes[n]] /\ bytes[0] = <<>>
       /\ \A n \in 1..l : bytes[n] = bytes[n - 1] \o WritePacket(packets[n])
  BY <1>10
<1> DEFINE S == {n \in 0..l : bytes[n] \in T}
<1>12. 0 \in S
  BY <1>4, <1>11
<1>13. ASSUME NEW n \in 1..l, n - 1 \in S PROVE n \in S
  BY <1>3, <1>11, <1>13
<1> HIDE DEF S
<1>14. \A n \in 0..l : n \in S
  BY <1>12, <1>13, InductionUpTo
<1>15. bytes \in [0..l -> T]
  BY <1>11, <1>14 DEF S
<1> QED
  BY <1>1, <1>9, <1>11, <1>15 DEF StreamTurns, T, bytes

\* The sequence t begins with s.
Begins(s, t) == \E e \in Seq(Byte) : t = s \o e

LEMMA BeginsItself == \A s \in Seq(Byte) : Begins(s, s)
<1> SUFFICES ASSUME NEW s \in Seq(Byte) PROVE \E e \in Seq(Byte) : s = s \o e
  BY DEF Begins
<1>1. <<>> \in Seq(Byte) /\ s \o <<>> = s
  BY ConcatEmptySeq
<1> QED
  BY <1>1, Zenon

LEMMA BeginsMore == \A s, t, u \in Seq(Byte) : Begins(s, t) => Begins(s, t \o u)
<1> SUFFICES ASSUME NEW s \in Seq(Byte), NEW t \in Seq(Byte), NEW u \in Seq(Byte), Begins(s, t)
             PROVE  Begins(s, t \o u)
  OBVIOUS
<1>1. PICK e \in Seq(Byte) : t = s \o e
  BY DEF Begins
<1>2. (s \o e) \o u = s \o (e \o u)
  BY Associated
<1>3. e \o u \in Seq(Byte)
  BY Concatenated
<1> QED
  BY <1>1, <1>2, <1>3 DEF Begins

LEMMA BeginsShorter ==
    \A s, t \in Seq(Byte) : Begins(s, t) =>
        /\ Len(s) <= Len(t) /\ Drop(t, Len(s)) \in Seq(Byte)
        /\ t = s \o Drop(t, Len(s)) /\ Len(t) = Len(s) + Len(Drop(t, Len(s)))
<1> SUFFICES ASSUME NEW s \in Seq(Byte), NEW t \in Seq(Byte), Begins(s, t)
             PROVE  /\ Len(s) <= Len(t) /\ Drop(t, Len(s)) \in Seq(Byte)
                    /\ t = s \o Drop(t, Len(s)) /\ Len(t) = Len(s) + Len(Drop(t, Len(s)))
  OBVIOUS
<1>1. PICK e \in Seq(Byte) : t = s \o e
  BY DEF Begins
<1>2. Drop(t, Len(s)) = e
  BY <1>1, Parts
<1>3. Len(t) = Len(s) + Len(e)
  BY <1>1, ConcatProperties
<1>4. PICK m \in Nat, n \in Nat : m = Len(s) /\ n = Len(e)
  OBVIOUS
<1>5. m <= m + n
  OBVIOUS
<1> QED
  BY <1>1, <1>2, <1>3, <1>4, <1>5

\* Of two beginnings of a sequence the shorter one begins the other.
LEMMA BeginsBoth ==
    \A s, t, u \in Seq(Byte) : \A missing \in Seq(Byte) :
        t \o missing = u /\ Begins(s, u) /\ Len(s) <= Len(t) => Begins(s, t)
<1> SUFFICES ASSUME NEW s \in Seq(Byte), NEW t \in Seq(Byte), NEW u \in Seq(Byte),
                    NEW missing \in Seq(Byte),
                    t \o missing = u, Begins(s, u), Len(s) <= Len(t)
             PROVE  Begins(s, t)
  OBVIOUS
<1>1. PICK e \in Seq(Byte) : u = s \o e
  BY DEF Begins
<1>2. Same(t, missing, s, e)
  BY <1>1 DEF Same
<1>3. Longer(t, missing, s, e, Byte)
  BY <1>2, Cut
<1> QED
  BY <1>3 DEF Longer, Begins

\* A stream begins with the streams before it, each packet making it longer.
LEMMA StreamBegins ==
    \A maxSize : Limit(maxSize) => \A packets \in Seq(Fitting(maxSize)), m \in Nat :
        m <= Len(packets) =>
            /\ m <= Len(Stream(packets)[m])
            /\ \A n \in 0..m : Begins(Stream(packets)[n], Stream(packets)[m])
<1> SUFFICES ASSUME NEW maxSize, Limit(maxSize), NEW packets \in Seq(Fitting(maxSize))
             PROVE  \A m \in Nat : m <= Len(packets) =>
                        /\ m <= Len(Stream(packets)[m])
                        /\ \A n \in 0..m : Begins(Stream(packets)[n], Stream(packets)[m])
  BY Zenon
<1>1. PICK l \in Nat : l = Len(packets)
  OBVIOUS
<1>2. PICK bytes : bytes = Stream(packets)
  OBVIOUS
<1>3. /\ bytes \in [0..l -> Seq(Byte)] /\ bytes[0] = <<>>
      /\ \A n \in 1..l : bytes[n] = bytes[n - 1] \o WritePacket(packets[n])
  BY <1>1, <1>2, StreamIs DEF StreamTurns
<1> DEFINE S == {m \in 0..l : m <= Len(bytes[m]) /\ \A n \in 0..m : Begins(bytes[n], bytes[m])}
<1>4. 0 \in S
  <2>1. bytes[0] \in Seq(Byte) /\ Len(bytes[0]) = 0
    BY <1>3
  <2>2. Begins(bytes[0], bytes[0])
    BY <2>1, BeginsItself
  <2>3. \A n \in 0..0 : n = 0
    OBVIOUS
  <2> QED
    BY <2>1, <2>2, <2>3
<1>5. ASSUME NEW m \in 1..l, m - 1 \in S PROVE m \in S
  <2>1. PICK s \in Seq(Byte), t \in Seq(Byte) : s = bytes[m - 1] /\ t = bytes[m]
    BY <1>3
  <2>2. PICK w \in Seq(Byte) : w = WritePacket(packets[m]) /\ Len(w) \in Nat \ {0}
    <3>1. packets[m] \in Fitting(maxSize)
      BY <1>1, ElementOfSeq
    <3> QED
      BY <3>1, PacketParts, Zenon
  <2>3. t = s \o w
    BY <1>3, <2>1, <2>2
  <2>4. m <= Len(t)
    <3>1. Len(t) = Len(s) + Len(w)
      BY <2>3, ConcatProperties
    <3>2. m - 1 <= Len(s) /\ Len(s) \in Nat
      BY <1>5, <2>1
    <3> QED
      BY <2>2, <3>1, <3>2
  <2>5. ASSUME NEW n \in 0..m PROVE Begins(bytes[n], t)
    <3>1. CASE n = m
      BY <2>1, <3>1, BeginsItself
    <3>2. CASE n # m
      <4>1. n \in 0..(m - 1) /\ n \in 0..l
        BY <1>1, <3>2
      <4>2. PICK r \in Seq(Byte) : r = bytes[n]
        BY <1>3, <4>1
      <4>3. Begins(r, s)
        BY <1>5, <2>1, <4>1, <4>2
      <4>4. Begins(r, s \o w)
        BY <4>3, BeginsMore
      <4> QED
        BY <2>3, <4>2, <4>4
    <3> QED
      BY <3>1, <3>2
  <2> QED
    BY <2>1, <2>4, <2>5
<1> HIDE DEF S
<1>6. \A m \in 0..l : m \in S
  BY <1>4, <1>5, InductionUpTo
<1> QED
  BY <1>1, <1>2, <1>6 DEF S

\* Of a stream of packets, in has arrived, the first whole ones completely.
Arrived(maxSize, packets, in, missing, whole) ==
    /\ Limit(maxSize) /\ packets \in Seq(Fitting(maxSize))
    /\ in \in Seq(Byte) /\ missing \in Seq(Byte)
    /\ in \o missing = Stream(packets)[Len(packets)]
    /\ whole \in 0..Len(packets)
    /\ Len(Stream(packets)[whole]) <= Len(in)
    /\ whole < Len(packets) => Len(in) < Len(Stream(packets)[whole + 1])

LEMMA SomeWhole ==
    \A maxSize, packets, missing : \A in \in Seq(Byte) :
        /\ Limit(maxSize) /\ packets \in Seq(Fitting(maxSize)) /\ missing \in Seq(Byte)
        /\ in \o missing = Stream(packets)[Len(packets)]
        => \E whole : Arrived(maxSize, packets, in, missing, whole)
<1> SUFFICES ASSUME NEW maxSize, NEW packets, NEW missing, NEW in \in Seq(Byte),
                    Limit(maxSize), packets \in Seq(Fitting(maxSize)), missing \in Seq(Byte),
                    in \o missing = Stream(packets)[Len(packets)]
             PROVE  \E whole : Arrived(maxSize, packets, in, missing, whole)
  BY Zenon
<1>1. PICK l \in Nat : l = Len(packets)
  OBVIOUS
<1>2. PICK bytes : bytes = Stream(packets)
  OBVIOUS
<1>3. bytes \in [0..l -> Seq(Byte)] /\ bytes[0] = <<>>
  BY <1>1, <1>2, StreamIs DEF StreamTurns
<1> DEFINE Fits(n) == Len(bytes[n]) <= Len(in)
           T == {n \in 0..l : ~Fits(n)}
<1>4. Fits(0)
  <2>1. Len(bytes[0]) = 0 /\ Len(in) \in Nat
    BY <1>3
  <2> QED
    BY <2>1
<1>5. \A n \in 0..l : Len(bytes[n]) \in Nat /\ Len(in) \in Nat
  BY <1>3
<1>6. \E whole \in 0..l : Fits(whole) /\ (whole < l => ~Fits(whole + 1))
  <2> HIDE DEF Fits
  <2>1. CASE T = {}
    <3>1. l \in 0..l /\ ~(l < l)
      OBVIOUS
    <3> QED
      BY <2>1, <3>1
  <2>2. CASE T # {}
    <3>1. T \in SUBSET Nat
      OBVIOUS
    <3>2. PICK n \in T : \A k \in T : n <= k
      BY <2>2, <3>1, Least
    <3>3. n \in 0..l /\ n # 0 /\ ~Fits(n)
      BY <1>4, <3>2
    <3>4. PICK k \in Nat : k = n - 1 /\ k + 1 = n /\ k \in 0..l
      BY <3>3
    <3>5. Fits(k)
      BY <3>2, <3>4
    <3> QED
      BY <3>3, <3>4, <3>5
  <2> QED
    BY <2>1, <2>2
<1>7. PICK whole \in 0..l : Fits(whole) /\ (whole < l => ~Fits(whole + 1))
  BY <1>6
<1>8. whole < l => Len(in) < Len(bytes[whole + 1])
  <2>1. whole < l => whole + 1 \in 0..l
    OBVIOUS
  <2> QED
    BY <1>5, <1>7, <2>1
<1>9. Arrived(maxSize, packets, in, missing, whole)
  BY <1>1, <1>2, <1>7, <1>8 DEF Arrived
<1> QED
  BY <1>9

LEMMA ArrivedBegins ==
    \A maxSize, packets, in, missing, whole : Arrived(maxSize, packets, in, missing, whole) =>
        \A n \in 0..whole :
            /\ Stream(packets)[n] \in Seq(Byte) /\ Begins(Stream(packets)[n], in)
            /\ n \in 0..Len(packets) /\ in \in Seq(Byte)
<1> SUFFICES ASSUME NEW maxSize, NEW packets, NEW in, NEW missing, NEW whole,
                    Arrived(maxSize, packets, in, missing, whole), NEW n \in 0..whole
             PROVE  /\ Stream(packets)[n] \in Seq(Byte) /\ Begins(Stream(packets)[n], in)
                    /\ n \in 0..Len(packets) /\ in \in Seq(Byte)
  BY Zenon
<1>1. /\ Limit(maxSize) /\ packets \in Seq(Fitting(maxSize))
      /\ in \in Seq(Byte) /\ missing \in Seq(Byte) /\ whole \in 0..Len(packets)
  BY DEF Arrived
<1>2. PICK l \in Nat : l = Len(packets)
  BY <1>1
<1>0. PICK bytes : bytes = Stream(packets)
  OBVIOUS
<1>3. bytes \in [0..l -> Seq(Byte)]
  BY <1>0, <1>1, <1>2, StreamIs DEF StreamTurns
<1>4. in \o missing = bytes[l] /\ Len(bytes[whole]) <= Len(in) /\ whole \in 0..l /\ n \in 0..l
  BY <1>0, <1>1, <1>2 DEF Arrived
<1>5. PICK r, s, t \in Seq(Byte) : r = bytes[n] /\ s = bytes[whole] /\ t = bytes[l]
  BY <1>3, <1>4
<1>6. Begins(r, s) /\ Begins(r, t)
  <2>1. \A m \in Nat : m <= l => \A k \in 0..m : Begins(bytes[k], bytes[m])
    BY <1>0, <1>1, <1>2, StreamBegins, Zenon
  <2>2. n \in 0..whole /\ n \in 0..l /\ whole \in Nat /\ whole <= l /\ l \in Nat /\ l <= l
    BY <1>2, <1>4
  <2> QED
    BY <1>5, <2>1, <2>2, Zenon
<1>7. Len(r) <= Len(in)
  <2>1. Len(r) <= Len(s)
    BY <1>6, BeginsShorter
  <2>2. Len(r) \in Nat /\ Len(s) \in Nat /\ Len(in) \in Nat /\ Len(s) <= Len(in)
    BY <1>1, <1>4, <1>5
  <2> QED
    BY <2>1, <2>2
<1>8. Begins(r, in)
  <2>1. in \o missing = t
    BY <1>4, <1>5
  <2> QED
    BY <1>1, <1>6, <1>7, <2>1, BeginsBoth
<1> QED
  BY <1>0, <1>1, <1>2, <1>4, <1>5, <1>8

\* The packet behind whole ones, if it is whole itself.
EachRead(maxSize, packets, in, whole) ==
    \A n \in 1..whole :
        ReadPacket(Drop(in, Len(Stream(packets)[n - 1])), maxSize)
            = Got(packets[n], Drop(in, Len(Stream(packets)[n])))

LEMMA NextWhole ==
    \A maxSize, packets, in, missing, whole :
        Arrived(maxSize, packets, in, missing, whole) => EachRead(maxSize, packets, in, whole)
<1> SUFFICES ASSUME NEW maxSize, NEW packets, NEW in, NEW missing, NEW whole,
                    Arrived(maxSize, packets, in, missing, whole), NEW n \in 1..whole
             PROVE  ReadPacket(Drop(in, Len(Stream(packets)[n - 1])), maxSize)
                        = Got(packets[n], Drop(in, Len(Stream(packets)[n])))
  BY Zenon DEF EachRead
<1>1. /\ Limit(maxSize) /\ packets \in Seq(Fitting(maxSize)) /\ whole \in 0..Len(packets)
      /\ n \in 1..Len(packets) /\ n \in 0..whole /\ n - 1 \in 0..whole
  BY DEF Arrived
<1>2. PICK bytes : bytes = Stream(packets)
  OBVIOUS
<1>3. bytes[n] = bytes[n - 1] \o WritePacket(packets[n])
  BY <1>1, <1>2, StreamIs DEF StreamTurns
<1>4. bytes[n - 1] \in Seq(Byte) /\ bytes[n] \in Seq(Byte) /\ Begins(bytes[n], in)
      /\ in \in Seq(Byte)
  BY <1>1, <1>2, ArrivedBegins, Zenon
<1>5. PICK s \in Seq(Byte), t \in Seq(Byte) : s = bytes[n - 1] /\ t = bytes[n]
  BY <1>4
<1>6. packets[n] \in Fitting(maxSize)
  BY <1>1, ElementOfSeq
<1>7. PICK w \in Seq(Byte) : w = WritePacket(packets[n])
  BY <1>1, <1>6, PacketParts, Zenon
<1>8. PICK e \in Seq(Byte) : e = Drop(in, Len(t)) /\ in = t \o e
  BY <1>4, <1>5, BeginsShorter
<1>9. t = s \o w
  BY <1>3, <1>5, <1>7
<1>10. in = s \o (w \o e)
  <2>1. (s \o w) \o e = s \o (w \o e)
    BY Associated
  <2> QED
    BY <1>8, <1>9, <2>1
<1>11. Drop(in, Len(s)) = w \o e
  <2>1. w \o e \in Seq(Byte)
    BY Concatenated
  <2> QED
    BY <1>10, <2>1, Parts
<1>12. ReadPacket(w \o e, maxSize) = Got(packets[n], e)
  BY <1>1, <1>6, <1>7, PacketRead
<1> QED
  BY <1>2, <1>5, <1>8, <1>11, <1>12

\* Behind them nothing is read.
LEMMA NextNone ==
    \A maxSize, packets, in, missing, whole : Arrived(maxSize, packets, in, missing, whole) =>
        ReadPacket(Drop(in, Len(Stream(packets)[whole])), maxSize) = ReadError
<1> SUFFICES ASSUME NEW maxSize, NEW packets, NEW in, NEW missing, NEW whole,
                    Arrived(maxSize, packets, in, missing, whole)
             PROVE  ReadPacket(Drop(in, Len(Stream(packets)[whole])), maxSize) = ReadError
  BY Zenon
<1>1. /\ Limit(maxSize) /\ packets \in Seq(Fitting(maxSize)) /\ missing \in Seq(Byte)
      /\ in \in Seq(Byte)
  BY DEF Arrived
<1>2. PICK l \in Nat : l = Len(packets)
  BY <1>1
<1>0. PICK bytes : bytes = Stream(packets)
  OBVIOUS
<1>3. /\ whole \in 0..l /\ in \o missing = bytes[l]
      /\ whole < l => Len(in) < Len(bytes[whole + 1])
  BY <1>0, <1>2 DEF Arrived
<1>4. whole \in 0..whole
  BY <1>3
<1>5. PICK s \in Seq(Byte) : s = bytes[whole] /\ Begins(s, in)
  BY <1>0, <1>4, ArrivedBegins, Zenon
<1>6. PICK rest \in Seq(Byte) :
          rest = Drop(in, Len(s)) /\ in = s \o rest /\ Len(in) = Len(s) + Len(rest)
  BY <1>1, <1>5, BeginsShorter
<1>7. CASE whole = l
  <2>1. in \o missing = s
    BY <1>3, <1>5, <1>7
  <2>2. Len(s) = Len(in) + Len(missing)
    BY <1>1, <2>1, ConcatProperties
  <2>3. PICK k \in Nat, m \in Nat, n \in Nat : k = Len(rest) /\ m = Len(missing) /\ n = Len(s)
    BY <1>1
  <2>4. k = 0
    BY <1>6, <2>2, <2>3
  <2>5. rest = <<>>
    BY <2>3, <2>4, EmptySeq
  <2> QED
    BY <1>0, <1>5, <1>6, <2>5, NothingRead
<1>8. CASE whole < l
  <2>1. PICK n \in Nat : n = whole + 1 /\ n \in 1..l /\ n \in 0..l /\ n <= l /\ whole = n - 1
    BY <1>3, <1>8
  <2>2. packets[n] \in Fitting(maxSize)
    BY <1>1, <1>2, <2>1, ElementOfSeq
  <2>3. PICK w \in Seq(Byte) : w = WritePacket(packets[n])
    BY <1>1, <2>2, PacketParts, Zenon
  <2>4. /\ bytes \in [0..l -> Seq(Byte)]
        /\ \A k \in 1..l : bytes[k] = bytes[k - 1] \o WritePacket(packets[k])
    BY <1>0, <1>1, <1>2, StreamIs DEF StreamTurns
  <2>5. PICK t \in Seq(Byte), u \in Seq(Byte) : t = bytes[n] /\ u = bytes[l]
    BY <2>1, <2>4
  <2>6. t = s \o w
    BY <1>5, <2>1, <2>3, <2>4, <2>5
  <2>7. Begins(t, u)
    <3>1. l <= l /\ n \in 0..l
      BY <2>1
    <3> QED
      BY <1>0, <1>1, <1>2, <2>5, <3>1, StreamBegins
  <2>8. PICK tail \in Seq(Byte) : u = t \o tail
    BY <2>7 DEF Begins
  <2>9. Same(s \o rest, missing, s, w \o tail)
    <3>1. Same(in, missing, s \o w, tail)
      BY <1>3, <2>5, <2>6, <2>8 DEF Same
    <3>2. Same(in, missing, s, w \o tail)
      BY <1>1, <3>1, Nested
    <3> QED
      BY <1>6, <3>2
  <2>10. Same(rest, missing, w, tail)
    <3>1. w \o tail \in Seq(Byte)
      BY Concatenated
    <3>2. rest \o missing = w \o tail
      BY <1>1, <2>9, <3>1, Regrouped
    <3> QED
      BY <3>2 DEF Same
  <2>11. Len(rest) < Len(w)
    <3>1. Len(t) = Len(s) + Len(w)
      BY <2>6, ConcatProperties
    <3>2. Len(in) < Len(t)
      BY <1>3, <1>8, <2>1, <2>5
    <3>3. PICK k \in Nat, m \in Nat, i \in Nat : k = Len(rest) /\ m = Len(w) /\ i = Len(s)
      OBVIOUS
    <3>4. i + k < i + m
      BY <1>6, <3>1, <3>2, <3>3
    <3> QED
      BY <3>3, <3>4
  <2>12. ReadPacket(rest, maxSize) = ReadError
    BY <1>1, <2>2, <2>3, <2>10, <2>11, PacketCut, Zenon
  <2> QED
    BY <1>0, <1>5, <1>6, <2>12
<1> QED
  BY <1>3, <1>7, <1>8

\* The reader that has read n packets.
HasRead(packets, in, n) ==
    [got |-> SubSeq(packets, 1, n), rest |-> Drop(in, Len(Stream(packets)[n]))]

ReadsOn(maxSize, packets, in, whole) ==
    \A n \in 1..whole : ReadNext(HasRead(packets, in, n - 1), maxSize) = HasRead(packets, in, n)

LEMMA ReadsNext ==
    \A maxSize, packets, in, missing, whole :
        Arrived(maxSize, packets, in, missing, whole) => ReadsOn(maxSize, packets, in, whole)
<1> SUFFICES ASSUME NEW maxSize, NEW packets, NEW in, NEW missing, NEW whole,
                    Arrived(maxSize, packets, in, missing, whole), NEW n \in 1..whole
             PROVE  ReadNext(HasRead(packets, in, n - 1), maxSize) = HasRead(packets, in, n)
  BY Zenon DEF ReadsOn
<1>1. packets \in Seq(Fitting(maxSize)) /\ n \in 1..Len(packets)
  BY DEF Arrived
<1>2. SubSeq(packets, 1, n) = Append(SubSeq(packets, 1, n - 1), packets[n])
  <2>1. 1 \in 1..Len(packets)
    BY <1>1
  <2>2. SubSeq(packets, 1, n) = SubSeq(packets, 1, n - 1) \o << packets[n] >>
    BY <1>1, <2>1, SubSeqRecursiveSecond
  <2>3. packets[n] \in Fitting(maxSize)
    BY <1>1, ElementOfSeq
  <2>4. SubSeq(packets, 1, n - 1) \in Seq(Fitting(maxSize))
    <3>1. \A i \in 1..(n - 1) : packets[i] \in Fitting(maxSize)
      <4>1. \A i \in 1..(n - 1) : i \in 1..Len(packets)
        BY <1>1
      <4> QED
        BY <1>1, <4>1, ElementOfSeq
    <3> QED
      BY <3>1, SubSeqProperties
  <2> QED
    BY <2>2, <2>3, <2>4, AppendIsConcat
<1>3. PICK rest, next : rest = Drop(in, Len(Stream(packets)[n])) /\ next = Got(packets[n], rest)
  OBVIOUS
<1>4. next.ok /\ next.value = packets[n] /\ next.rest = rest
  BY <1>3 DEF Got
<1>5. ReadPacket(Drop(in, Len(Stream(packets)[n - 1])), maxSize) = next
  <2>1. ReadPacket(Drop(in, Len(Stream(packets)[n - 1])), maxSize)
            = Got(packets[n], Drop(in, Len(Stream(packets)[n])))
    <3>1. EachRead(maxSize, packets, in, whole)
      BY NextWhole, Zenon
    <3> QED
      BY <3>1 DEF EachRead
  <2> QED
    BY <1>3, <2>1
<1>6. PICK reader : reader = HasRead(packets, in, n - 1)
  OBVIOUS
<1>7. /\ reader.got = SubSeq(packets, 1, n - 1)
      /\ reader.rest = Drop(in, Len(Stream(packets)[n - 1]))
  BY <1>6 DEF HasRead
<1>8. ReadNext(reader, maxSize) = [got |-> Append(reader.got, next.value), rest |-> next.rest]
  BY <1>4, <1>5, <1>7, Zenon DEF ReadNext
<1> QED
  BY <1>2, <1>3, <1>4, <1>6, <1>7, <1>8, Zenon DEF HasRead

LEMMA ReadsNoMore ==
    \A maxSize, packets, in, missing, whole : Arrived(maxSize, packets, in, missing, whole) =>
        ReadNext(HasRead(packets, in, whole), maxSize) = HasRead(packets, in, whole)
<1> SUFFICES ASSUME NEW maxSize, NEW packets, NEW in, NEW missing, NEW whole,
                    Arrived(maxSize, packets, in, missing, whole)
             PROVE  ReadNext(HasRead(packets, in, whole), maxSize) = HasRead(packets, in, whole)
  BY Zenon
<1>1. PICK reader : reader = HasRead(packets, in, whole)
  OBVIOUS
<1>2. reader.rest = Drop(in, Len(Stream(packets)[whole]))
  BY <1>1 DEF HasRead
<1>3. ReadPacket(reader.rest, maxSize) = ReadError
  BY <1>2, NextNone, Zenon
<1>4. ReadError.ok = FALSE
  BY DEF ReadError
<1> QED
  BY <1>1, <1>3, <1>4, Zenon DEF ReadNext

LEMMA HasReadNone ==
    \A maxSize, packets, in, missing, whole : Arrived(maxSize, packets, in, missing, whole) =>
        HasRead(packets, in, 0) = [got |-> <<>>, rest |-> in]
<1> SUFFICES ASSUME NEW maxSize, NEW packets, NEW in, NEW missing, NEW whole,
                    Arrived(maxSize, packets, in, missing, whole)
             PROVE  HasRead(packets, in, 0) = [got |-> <<>>, rest |-> in]
  BY Zenon
<1>1. Limit(maxSize) /\ packets \in Seq(Fitting(maxSize)) /\ in \in Seq(Byte)
  BY DEF Arrived
<1>2. Stream(packets)[0] = <<>>
  BY <1>1, StreamIs DEF StreamTurns
<1>3. <<>> \in Seq(Byte) /\ <<>> \o in = in
  BY <1>1, ConcatEmptySeq
<1>4. Drop(in, Len(<<>>)) = in
  BY <1>1, <1>3, Parts
<1>5. SubSeq(packets, 1, 0) = <<>>
  BY SubSeqEmpty
<1> QED
  BY <1>2, <1>4, <1>5 DEF HasRead

\* After as many calls as there are bytes all whole packets have been read.
LEMMA AllRead ==
    \A maxSize, packets, in, missing, whole : Arrived(maxSize, packets, in, missing, whole) =>
        ReadPackets(in, maxSize) = SubSeq(packets, 1, whole)
<1> SUFFICES ASSUME NEW maxSize, NEW packets, NEW in, NEW missing, NEW whole,
                    Arrived(maxSize, packets, in, missing, whole)
             PROVE  ReadPackets(in, maxSize) = SubSeq(packets, 1, whole)
  BY Zenon
<1>1. /\ Limit(maxSize) /\ packets \in Seq(Fitting(maxSize)) /\ in \in Seq(Byte)
      /\ whole \in 0..Len(packets) /\ Len(Stream(packets)[whole]) <= Len(in)
  BY DEF Arrived
<1>2. PICK l \in Nat, w \in Nat : l = Len(in) /\ w = whole
  BY <1>1
<1>3. w <= l
  <2>1. w <= Len(packets)
    BY <1>1, <1>2
  <2>2. w <= Len(Stream(packets)[w])
    BY <1>1, <2>1, StreamBegins, Zenon
  <2>3. Stream(packets)[w] \in Seq(Byte)
    <3>1. w \in 0..w
      OBVIOUS
    <3> QED
      BY <1>2, <3>1, ArrivedBegins, Zenon
  <2>4. PICK k \in Nat : k = Len(Stream(packets)[w])
    BY <2>3
  <2> QED
    BY <1>1, <1>2, <2>2, <2>4
<1> DEFINE first == [got |-> <<>>, rest |-> in]
           At(k) == HasRead(packets, in, IF k <= w THEN k ELSE w)
           f == [k \in 0..l |-> At(k)]
           Def(g) == g = [k \in 0..l |-> IF k = 0 THEN first ELSE ReadNext(g[k - 1], maxSize)]
<1>4. At(0) = first
  <2>1. At(0) = HasRead(packets, in, 0)
    BY <1>2
  <2> QED
    BY <2>1, HasReadNone
<1>5. ASSUME NEW k \in 1..l PROVE At(k) = ReadNext(At(k - 1), maxSize)
  <2>1. CASE k <= w
    <3>1. k \in 1..whole
      BY <1>2, <2>1
    <3>2. At(k) = HasRead(packets, in, k) /\ At(k - 1) = HasRead(packets, in, k - 1)
      BY <1>2, <2>1
    <3>3. ReadNext(HasRead(packets, in, k - 1), maxSize) = HasRead(packets, in, k)
      <4>1. ReadsOn(maxSize, packets, in, whole)
        BY ReadsNext, Zenon
      <4> QED
        BY <3>1, <4>1 DEF ReadsOn
    <3> QED
      BY <3>2, <3>3
  <2>2. CASE ~(k <= w)
    <3>1. At(k) = HasRead(packets, in, w) /\ At(k - 1) = HasRead(packets, in, w)
      BY <1>2, <2>2
    <3>2. ReadNext(HasRead(packets, in, w), maxSize) = HasRead(packets, in, w)
      BY <1>2, ReadsNoMore, Zenon
    <3> QED
      BY <3>1, <3>2
  <2> QED
    BY <2>1, <2>2
<1>6. At(l) = HasRead(packets, in, w)
  BY <1>2, <1>3
<1> HIDE DEF At, first
<1>7. \A k \in 1..l : k - 1 \in 0..l /\ k \in 0..l /\ k # 0
  OBVIOUS
<1>8. Def(f)
  <2>1. \A k \in 0..l : k = 0 \/ k \in 1..l
    OBVIOUS
  <2>2. \A k \in 0..l : f[k] = At(k)
    OBVIOUS
  <2>3. \A k \in 0..l : f[k] = IF k = 0 THEN first ELSE ReadNext(f[k - 1], maxSize)
    <3>1. ASSUME NEW k \in 1..l
          PROVE  f[k] = ReadNext(f[k - 1], maxSize)
      BY <1>5, <1>7, <2>2
    <3>2. f[0] = first
      BY <1>4, <2>2
    <3> HIDE DEF f
    <3> QED
      BY <1>7, <2>1, <3>1, <3>2, Zenon
  <2>4. f = [k \in 0..l |-> f[k]]
    OBVIOUS
  <2> HIDE DEF f
  <2> QED
    BY <2>3, <2>4, Zenon
<1> DEFINE reader == CHOOSE g : Def(g)
<1>9. Readers(in, maxSize) = reader
  BY <1>2 DEF Readers, first
<1>10. Def(reader)
  <2> HIDE DEF f
  <2> QED
    BY <1>8
<1> HIDE DEF reader
<1>11. reader[0] = first /\ \A k \in 1..l : reader[k] = ReadNext(reader[k - 1], maxSize)
  <2>1. 0 \in 0..l
    BY <1>2
  <2> QED
    BY <1>7, <1>10, <2>1, Zenon
<1> HIDE DEF Def, f
<1> DEFINE S == {k \in 0..l : reader[k] = At(k)}
<1>12. 0 \in S
  BY <1>4, <1>11
<1>13. ASSUME NEW k \in 1..l, k - 1 \in S PROVE k \in S
  <2>1. reader[k - 1] = At(k - 1)
    BY <1>13
  <2>2. reader[k] = At(k)
    BY <1>5, <1>11, <2>1
  <2> QED
    BY <1>7, <2>2
<1> HIDE DEF S
<1>14. \A k \in 0..l : k \in S
  BY <1>2, <1>12, <1>13, InductionUpTo
<1>15. reader[l] = At(l)
  BY <1>2, <1>14 DEF S
<1>16. reader[l] = HasRead(packets, in, whole)
  BY <1>2, <1>6, <1>15
<1>17. reader[l].got = SubSeq(packets, 1, whole)
  <2>1. HasRead(packets, in, whole).got = SubSeq(packets, 1, whole)
    BY Zenon DEF HasRead
  <2> QED
    BY <1>16, <2>1
<1> QED
  BY <1>2, <1>9, <1>17 DEF ReadPackets

\* However a stream of packets that the reader takes is cut, ReadPacket returns
\* exactly those that have arrived whole, as WritePacket was given them.
THEOREM StreamRead ==
    \A maxSize : Limit(maxSize) =>
        \A packets \in Seq(Fitting(maxSize)), arrived \in Seq(Byte), missing \in Seq(Byte) :
            arrived \o missing = Stream(packets)[Len(packets)]
                => PacketsSelfDelimiting(packets, arrived, maxSize)
<1> SUFFICES ASSUME NEW maxSize, Limit(maxSize), NEW packets \in Seq(Fitting(maxSize)),
                    NEW arrived \in Seq(Byte), NEW missing \in Seq(Byte),
                    arrived \o missing = Stream(packets)[Len(packets)]
             PROVE  PacketsSelfDelimiting(packets, arrived, maxSize)
  BY Zenon
<1>1. PICK whole : Arrived(maxSize, packets, arrived, missing, whole)
  BY SomeWhole, Zenon
<1>2. ReadPackets(arrived, maxSize) = SubSeq(packets, 1, whole)
  BY <1>1, AllRead, Zenon
<1> QED
  BY <1>1, <1>2, Zenon DEF Arrived, PacketsSelfDelimiting

\* VarIntLen predicts what WriteVarInt writes.
THEOREM LengthPredicted == \A v \in Int32 : LengthsPredicted(v)
<1> SUFFICES ASSUME NEW v \in Int32 PROVE VarIntLen(v) = Len(WriteVarInt(v))
  BY DEF LengthsPredicted
<1>1. PICK u \in 0..(Word - 1) : u = Unsigned(v) /\ WriteVarInt(v) = Bytes(u)
  BY UnsignedIs
<1>2. PICK n \in Nat \ {0}, m \in Nat \ {0} :
          n = Turns(u) /\ Len(WriteVarInt(v)) = n /\ m = MaxVarIntBytes
  BY <1>1, BytesAre, WidthsAre
<1>3. n \in 1..m /\ LastGroup(Left(u, n)) /\ \A j \in 1..(n - 1) : ~LastGroup(Left(u, j))
  BY <1>2, TurnsIs DEF Ends
<1> DEFINE short == {i \in 1..(m - 1) : LastGroup(Left(u, i))}
<1>4. VarIntLen(v) = IF short = {} THEN m ELSE CHOOSE i \in short : \A j \in short : i <= j
  BY <1>1, <1>2 DEF VarIntLen
<1>5. \A j \in short : ~(j < n) /\ j \in Nat
  <2>1. ASSUME NEW j \in short, j < n PROVE FALSE
    <3>1. j \in 1..(n - 1)
      BY <2>1
    <3> QED
      BY <1>3, <3>1
  <2> QED
    BY <2>1
<1>6. CASE n = m
  <2>1. short = {}
    BY <1>5, <1>6
  <2> QED
    BY <1>2, <1>4, <1>6, <2>1
<1>7. CASE n # m
  <2>1. n \in short
    BY <1>3, <1>7
  <2>2. \A j \in short : n <= j
    BY <1>5
  <2>3. \A i \in short : (\A j \in short : i <= j) => i = n
    BY <2>1, <2>2
  <2> HIDE DEF short
  <2> QED
    BY <1>2, <1>4, <2>1, <2>2, <2>3
<1> QED
  BY <1>6, <1>7

-----------------------------------------------------------------------------
(***************************************************************************)
(* Registry data files: the types of the tables.                           *)
(***************************************************************************)

Tables(V) == UNION {[S -> V] : S \in SUBSET Int}

Tabled(P) == [registries : Tables(Seq(Seq(P))), tags : Tables(Seq(P)),
              codecs : Tables(Seq(P)), dimensions : Tables(Seq(P))]

Results(P) == {Failed} \cup {Loaded(data) : data \in Tabled(P)}

\* What a file may have for a protocol, of any payloads.
EntriesOf(P) == [protocol : Int, format : Int, declared : Int, registries : Seq(Seq(P)),
                 tags : Seq(P), codec : Seq(P), dimension : Seq(P)]

DecodedFields == {"registries", "tags", "codec", "dimension"}

LEMMA PutTyped == \A V : \A f \in Tables(V), key \in Int, v \in V : Put(f, key, v) \in Tables(V)
<1> SUFFICES ASSUME NEW V, NEW f \in Tables(V), NEW key \in Int, NEW v \in V
             PROVE  Put(f, key, v) \in Tables(V)
  OBVIOUS
<1>1. PICK S \in SUBSET Int : f \in [S -> V]
  BY DEF Tables
<1>2. Put(f, key, v) \in [S \cup {key} -> V] /\ S \cup {key} \in SUBSET Int
  BY <1>1 DEF Put
<1> QED
  BY <1>2 DEF Tables

LEMMA AddTyped ==
    \A V : \A f \in Tables(Seq(V)), key \in Int, v \in Seq(V) : Add(f, key, v) \in Tables(Seq(V))
<1> SUFFICES ASSUME NEW V, NEW f \in Tables(Seq(V)), NEW key \in Int, NEW v \in Seq(V)
             PROVE  Add(f, key, v) \in Tables(Seq(V))
  OBVIOUS
<1>1. CASE key \in DOMAIN f
  <2>1. f[key] \in Seq(V)
    BY <1>1 DEF Tables
  <2>2. f[key] \o v \in Seq(V)
    BY <2>1, Concatenated, Zenon
  <2> QED
    BY <1>1, <2>2, PutTyped DEF Add
<1>2. CASE key \notin DOMAIN f
  BY <1>2, PutTyped DEF Add
<1> QED
  BY <1>1, <1>2

LEMMA DecodeTyped ==
    \A P : \A result \in Results(P), entry \in EntriesOf(P), field \in DecodedFields :
        Decode(result, entry, field) \in Results(P)
<1> SUFFICES ASSUME NEW P, NEW result \in Results(P), NEW entry \in EntriesOf(P),
                    NEW field \in DecodedFields, result # Failed
             PROVE  Decode(result, entry, field) \in Results(P)
  BY DEF Decode, Results
<1>1. PICK data \in Tabled(P) : result = Loaded(data)
  BY DEF Results
<1>2. result[1] = data
  BY <1>1 DEF Loaded
<1>3. /\ data.registries \in Tables(Seq(Seq(P))) /\ data.tags \in Tables(Seq(P))
      /\ data.codecs \in Tables(Seq(P)) /\ data.dimensions \in Tables(Seq(P))
  BY DEF Tabled
<1>4. /\ entry.protocol \in Int /\ entry.registries \in Seq(Seq(P)) /\ entry.tags \in Seq(P)
      /\ entry.codec \in Seq(P) /\ entry.dimension \in Seq(P)
  BY DEF EntriesOf
<1>5. /\ \A t \in Tables(Seq(Seq(P))) : [data EXCEPT !.registries = t] \in Tabled(P)
      /\ \A t \in Tables(Seq(P)) : /\ [data EXCEPT !.tags = t] \in Tabled(P)
                                   /\ [data EXCEPT !.codecs = t] \in Tabled(P)
                                   /\ [data EXCEPT !.dimensions = t] \in Tabled(P)
  BY DEF Tabled
<1>6. Failed \in Results(P) /\ \A d \in Tabled(P) : Loaded(d) \in Results(P)
  BY DEF Results
<1> DEFINE p == entry.protocol
<1>7. CASE field = "registries"
  <2>1. Decode(result, entry, field) = decodeRegistries(data, p, entry.registries)
    BY <1>2, <1>7 DEF Decode
  <2>2. Add(data.registries, p, entry.registries) \in Tables(Seq(Seq(P)))
    BY <1>3, <1>4, AddTyped
  <2> QED
    BY <1>5, <1>6, <2>1, <2>2 DEF decodeRegistries
<1>8. CASE field = "tags"
  <2>1. Decode(result, entry, field) = Loaded(decodeTags(data, p, entry.tags))
    BY <1>2, <1>8 DEF Decode
  <2>2. Add(data.tags, p, entry.tags) \in Tables(Seq(P))
    BY <1>3, <1>4, AddTyped
  <2> QED
    BY <1>5, <1>6, <2>1, <2>2 DEF decodeTags
<1>9. CASE field = "codec"
  <2>1. Decode(result, entry, field) = decodeDimensionCodec(data, p, entry.codec)
    BY <1>2, <1>9 DEF Decode
  <2>2. Put(data.codecs, p, entry.codec) \in Tables(Seq(P))
    BY <1>3, <1>4, PutTyped
  <2> QED
    BY <1>5, <1>6, <2>1, <2>2 DEF decodeDimensionCodec
<1>10. CASE field = "dimension"
  <2>1. Decode(result, entry, field) = decodeDimension(data, p, entry.dimension)
    BY <1>2, <1>10 DEF Decode
  <2>2. Put(data.dimensions, p, entry.dimension) \in Tables(Seq(P))
    BY <1>3, <1>4, PutTyped
  <2> QED
    BY <1>5, <1>6, <2>1, <2>2 DEF decodeDimension
<1> QED
  BY <1>7, <1>8, <1>9, <1>10 DEF DecodedFields

-----------------------------------------------------------------------------
(***************************************************************************)
(* The loops of the loaders.                                               *)
(***************************************************************************)

LEMMA NoneKnown == \A P : newData \in Tabled(P) /\ Loaded(newData) \in Results(P)
<1> SUFFICES ASSUME NEW P PROVE newData \in Tabled(P)
  BY DEF Results
<1>1. \A V : <<>> \in Tables(V)
  <2> SUFFICES ASSUME NEW V PROVE <<>> \in Tables(V)
    OBVIOUS
  <2>1. <<>> \in [{} -> V] /\ {} \in SUBSET Int
    OBVIOUS
  <2> QED
    BY <2>1 DEF Tables
<1> QED
  BY <1>1 DEF newData, Tabled

\* A turn of the loop of LoadZipBytes, and of a loop of LoadBytes.
ZipTurn(result, entry) ==
    IF entry.protocol = NoProtocol THEN Failed ELSE loadZipEntry(result, entry)

PassTurn(result, entry, field) ==
    IF entry[field] = <<>> THEN result
    ELSE IF entry.protocol = NoProtocol THEN Failed
    ELSE Decode(result, entry, field)

ZipTurns(loaded, entries) ==
    loaded[0] = Loaded(newData)
    /\ \A n \in 1..Len(entries) : loaded[n] = ZipTurn(loaded[n - 1], entries[n])

PassTurns(passed, result, entries, field) ==
    passed[0] = result
    /\ \A n \in 1..Len(entries) : passed[n] = PassTurn(passed[n - 1], entries[n], field)

LEMMA ZipUnrolled ==
    \A P : \A entries \in Seq(EntriesOf(P)) :
        \E loaded : /\ ZipTurns(loaded, entries)
                    /\ LoadZipBytes(entries) = IF entries = <<>> THEN Failed
                                               ELSE loaded[Len(entries)]
<1> SUFFICES ASSUME NEW P, NEW entries \in Seq(EntriesOf(P))
             PROVE  \E loaded : /\ ZipTurns(loaded, entries)
                                /\ LoadZipBytes(entries) = IF entries = <<>> THEN Failed
                                                           ELSE loaded[Len(entries)]
  OBVIOUS
<1> DEFINE N == Len(entries)
           T == Results(P)
           step == [q \in (1..N) \X T |-> ZipTurn(q[2], entries[q[1]])]
           Def(f) == f = [n \in 0..N |->
                             IF n = 0 THEN Loaded(newData)
                             ELSE IF entries[n].protocol = NoProtocol THEN Failed
                             ELSE loadZipEntry(f[n - 1], entries[n])]
<1>1. N \in Nat
  OBVIOUS
<1>2. ASSUME NEW n \in 1..N, NEW r \in T PROVE ZipTurn(r, entries[n]) \in T
  <2>1. entries[n] \in EntriesOf(P) /\ Failed \in T
    BY ElementOfSeq DEF Results
  <2>2. \A s \in T, field \in DecodedFields : Decode(s, entries[n], field) \in T
    BY <2>1, DecodeTyped
  <2>3. loadZipEntry(r, entries[n]) \in T
    <3>1. PICK a \in T : a = Decode(r, entries[n], "registries")
      BY <2>2 DEF DecodedFields
    <3>2. PICK b \in T : b = Decode(a, entries[n], "tags")
      BY <2>2 DEF DecodedFields
    <3>3. PICK c \in T : c = Decode(b, entries[n], "codec")
      BY <2>2 DEF DecodedFields
    <3>4. PICK d \in T : d = Decode(c, entries[n], "dimension")
      BY <2>2 DEF DecodedFields
    <3> QED
      BY <2>1, <3>1, <3>2, <3>3, <3>4 DEF loadZipEntry
  <2> QED
    BY <2>1, <2>3 DEF ZipTurn
<1>3. /\ step \in [(1..N) \X T -> T]
      /\ \A n \in 1..N, r \in T : step[<<n, r>>] = ZipTurn(r, entries[n])
  BY <1>2
<1> HIDE DEF step
<1>4. Loaded(newData) \in T
  BY NoneKnown
<1> HIDE DEF T
<1>5. PICK f : RecursUpTo(f, N, T, Loaded(newData), step)
  BY <1>1, <1>3, <1>4, RecursionUpTo
<1>6. /\ f \in [0..N -> T] /\ f[0] = Loaded(newData)
      /\ \A n \in 1..N : f[n] = ZipTurn(f[n - 1], entries[n])
  <2>1. /\ f \in [0..N -> T] /\ f[0] = Loaded(newData)
        /\ \A n \in 1..N : f[n] = step[<<n, f[n - 1]>>]
    BY <1>5 DEF RecursUpTo
  <2>2. \A n \in 1..N : n - 1 \in 0..N
    BY <1>1
  <2>3. \A n \in 1..N : f[n - 1] \in T
    BY <2>1, <2>2
  <2> QED
    BY <1>3, <2>1, <2>3, Zenon
<1>7. Def(f)
  BY <1>6 DEF ZipTurn
<1> DEFINE loaded == CHOOSE g : Def(g)
<1>8. LoadZipBytes(entries) = IF entries = <<>> THEN Failed ELSE loaded[Len(entries)]
  BY DEF LoadZipBytes
<1>9. Def(loaded)
  BY <1>7
<1> HIDE DEF loaded
<1>10. ZipTurns(loaded, entries)
  BY <1>9 DEF ZipTurns, ZipTurn
<1> QED
  BY <1>8, <1>10

LEMMA PassUnrolled ==
    \A P : \A entries \in Seq(EntriesOf(P)), result \in Results(P), field \in DecodedFields :
        \E passed : /\ PassTurns(passed, result, entries, field)
                    /\ Pass(result, entries, field) = passed[Len(entries)]
<1> SUFFICES ASSUME NEW P, NEW entries \in Seq(EntriesOf(P)), NEW result \in Results(P),
                    NEW field \in DecodedFields
             PROVE  \E passed : /\ PassTurns(passed, result, entries, field)
                                /\ Pass(result, entries, field) = passed[Len(entries)]
  OBVIOUS
<1> DEFINE N == Len(entries)
           T == Results(P)
           step == [q \in (1..N) \X T |-> PassTurn(q[2], entries[q[1]], field)]
           Def(f) == f = [n \in 0..N |->
                             IF n = 0 THEN result
                             ELSE IF entries[n][field] = <<>> THEN f[n - 1]
                             ELSE IF entries[n].protocol = NoProtocol THEN Failed
                             ELSE Decode(f[n - 1], entries[n], field)]
<1>1. N \in Nat
  OBVIOUS
<1>2. ASSUME NEW n \in 1..N, NEW r \in T PROVE PassTurn(r, entries[n], field) \in T
  <2>1. entries[n] \in EntriesOf(P) /\ Failed \in T
    BY ElementOfSeq DEF Results
  <2>2. Decode(r, entries[n], field) \in T
    BY <2>1, DecodeTyped
  <2> QED
    BY <2>1, <2>2 DEF PassTurn
<1>3. /\ step \in [(1..N) \X T -> T]
      /\ \A n \in 1..N, r \in T : step[<<n, r>>] = PassTurn(r, entries[n], field)
  BY <1>2
<1> HIDE DEF step, T
<1>5. PICK f : RecursUpTo(f, N, T, result, step)
  BY <1>1, <1>3, RecursionUpTo DEF T
<1>6. /\ f \in [0..N -> T] /\ f[0] = result
      /\ \A n \in 1..N : f[n] = PassTurn(f[n - 1], entries[n], field)
  <2>1. /\ f \in [0..N -> T] /\ f[0] = result
        /\ \A n \in 1..N : f[n] = step[<<n, f[n - 1]>>]
    BY <1>5 DEF RecursUpTo
  <2>2. \A n \in 1..N : n - 1 \in 0..N
    BY <1>1
  <2>3. \A n \in 1..N : f[n - 1] \in T
    BY <2>1, <2>2
  <2> QED
    BY <1>3, <2>1, <2>3, Zenon
<1>7. Def(f)
  BY <1>6 DEF PassTurn
<1> DEFINE passed == CHOOSE g : Def(g)
<1>8. Pass(result, entries, field) = passed[Len(entries)]
  BY DEF Pass
<1>9. Def(passed)
  BY <1>7
<1> HIDE DEF passed
<1>10. PassTurns(passed, result, entries, field)
  BY <1>9 DEF PassTurns, PassTurn
<1> QED
  BY <1>8, <1>10

-----------------------------------------------------------------------------
(***************************************************************************)
(* What the loops leave, for entries with protocols of their own.          *)
(***************************************************************************)

\* The table of a field made from the first n entries.
Of(entries, p) == CHOOSE i \in DOMAIN entries : entries[i].protocol = p

Keys(entries, n, field) == {entries[i].protocol : i \in {j \in 1..n : entries[j][field] # <<>>}}

TableOf(entries, n, field) ==
    [p \in Keys(entries, n, field) |-> entries[Of(entries, p)][field]]

\* The data with the first a registries, b tags, c codecs and d dimensions.
At(entries, a, b, c, d) ==
    [registries |-> TableOf(entries, a, "registries"), tags |-> TableOf(entries, b, "tags"),
     codecs |-> TableOf(entries, c, "codec"), dimensions |-> TableOf(entries, d, "dimension")]

Readable(entry, field) ==
    CASE field = "registries" ->
             ~ \E i \in DOMAIN entry.registries : Contains(entry.registries[i], Bad)
      [] field = "tags" -> TRUE
      [] field = "codec" -> entry.codec # <<Bad>>
      [] field = "dimension" -> entry.dimension # <<Bad>>

\* The table t gets what entry has in a field, if that is anything.
TableGrows(t, u, entry, field) ==
    IF entry[field] = <<>> THEN u = t
    ELSE entry.protocol \notin DOMAIN t /\ u = Put(t, entry.protocol, entry[field])

LEMMA TableNone == \A entries, field : TableOf(entries, 0, field) = <<>>
<1> SUFFICES ASSUME NEW entries, NEW field PROVE TableOf(entries, 0, field) = <<>>
  OBVIOUS
<1>1. Keys(entries, 0, field) = {}
  BY DEF Keys
<1>2. TableOf(entries, 0, field) \in [{} -> {}]
  BY <1>1 DEF TableOf
<1>3. <<>> \in [{} -> {}]
  OBVIOUS
<1> QED
  BY <1>2, <1>3

LEMMA TableNext ==
    \A P : \A entries \in Seq(EntriesOf(P)) : Distinct(entries) =>
        \A n \in 1..Len(entries) : \A field \in DecodedFields :
            TableGrows(TableOf(entries, n - 1, field), TableOf(entries, n, field),
                       entries[n], field)
<1> SUFFICES ASSUME NEW P, NEW entries \in Seq(EntriesOf(P)), Distinct(entries),
                    NEW n \in 1..Len(entries), NEW field \in DecodedFields
             PROVE  TableGrows(TableOf(entries, n - 1, field), TableOf(entries, n, field),
                               entries[n], field)
  OBVIOUS
<1> DEFINE t == TableOf(entries, n - 1, field)
           u == TableOf(entries, n, field)
           p == entries[n].protocol
<1>1. DOMAIN entries = 1..Len(entries) /\ Len(entries) \in Nat /\ n \in Nat
  OBVIOUS
<1>2. 1..n = 1..(n - 1) \cup {n} /\ n \notin 1..(n - 1) /\ 1..(n - 1) \subseteq DOMAIN entries
  BY <1>1
<1>3. CASE entries[n][field] = <<>>
  <2>1. {j \in 1..n : entries[j][field] # <<>>} = {j \in 1..(n - 1) : entries[j][field] # <<>>}
    BY <1>2, <1>3
  <2>2. Keys(entries, n, field) = Keys(entries, n - 1, field)
    BY <2>1, Zenon DEF Keys
  <2> QED
    BY <1>3, <2>2 DEF TableGrows, TableOf
<1>4. CASE entries[n][field] # <<>>
  <2>1. {j \in 1..n : entries[j][field] # <<>>}
            = {j \in 1..(n - 1) : entries[j][field] # <<>>} \cup {n}
    BY <1>2, <1>4
  <2>2. Keys(entries, n, field) = Keys(entries, n - 1, field) \cup {p}
    BY <2>1 DEF Keys
  <2>3. p \notin Keys(entries, n - 1, field)
    BY <1>1, <1>2 DEF Keys, Distinct
  <2>4. Of(entries, p) = n
    BY <1>1 DEF Of, Distinct
  <2>5. DOMAIN t = Keys(entries, n - 1, field)
    BY DEF TableOf
  <2>6. u = Put(t, p, entries[n][field])
    <3>1. u = [k \in Keys(entries, n - 1, field) \cup {p} |-> entries[Of(entries, k)][field]]
      BY <2>2 DEF TableOf
    <3>2. Put(t, p, entries[n][field])
              = [k \in Keys(entries, n - 1, field) \cup {p} |->
                    IF k = p THEN entries[n][field] ELSE t[k]]
      BY <2>5 DEF Put
    <3>3. \A k \in Keys(entries, n - 1, field) : t[k] = entries[Of(entries, k)][field]
      BY DEF TableOf
    <3>4. \A k \in Keys(entries, n - 1, field) \cup {p} :
              entries[Of(entries, k)][field] = IF k = p THEN entries[n][field] ELSE t[k]
      BY <2>3, <2>4, <3>3
    <3> HIDE DEF t, u, p
    <3> QED
      BY <3>1, <3>2, <3>4
  <2> QED
    BY <1>4, <2>3, <2>5, <2>6 DEF TableGrows
<1> QED
  BY <1>3, <1>4

\* An entry is decoded into the tables.
\* A field of the n-th entry is decoded into its table, whatever the others have.
DecodesNext(entries, n) ==
    \A a, b, c, d :
        /\ Decode(Loaded(At(entries, n - 1, b, c, d)), entries[n], "registries")
               = IF Readable(entries[n], "registries")
                 THEN Loaded(At(entries, n, b, c, d)) ELSE Failed
        /\ Decode(Loaded(At(entries, a, n - 1, c, d)), entries[n], "tags")
               = Loaded(At(entries, a, n, c, d))
        /\ Decode(Loaded(At(entries, a, b, n - 1, d)), entries[n], "codec")
               = IF Readable(entries[n], "codec")
                 THEN Loaded(At(entries, a, b, n, d)) ELSE Failed
        /\ Decode(Loaded(At(entries, a, b, c, n - 1)), entries[n], "dimension")
               = IF Readable(entries[n], "dimension")
                 THEN Loaded(At(entries, a, b, c, n)) ELSE Failed

LEMMA DecodeIs ==
    \A P : \A entries \in Seq(EntriesOf(P)) : Distinct(entries) =>
        \A n \in 1..Len(entries) : DecodesNext(entries, n)
<1> SUFFICES ASSUME NEW P, NEW entries \in Seq(EntriesOf(P)), Distinct(entries),
                    NEW n \in 1..Len(entries), NEW a, NEW b, NEW c, NEW d
             PROVE  /\ Decode(Loaded(At(entries, n - 1, b, c, d)), entries[n], "registries")
                           = IF Readable(entries[n], "registries")
                             THEN Loaded(At(entries, n, b, c, d)) ELSE Failed
                    /\ Decode(Loaded(At(entries, a, n - 1, c, d)), entries[n], "tags")
                           = Loaded(At(entries, a, n, c, d))
                    /\ Decode(Loaded(At(entries, a, b, n - 1, d)), entries[n], "codec")
                           = IF Readable(entries[n], "codec")
                             THEN Loaded(At(entries, a, b, n, d)) ELSE Failed
                    /\ Decode(Loaded(At(entries, a, b, c, n - 1)), entries[n], "dimension")
                           = IF Readable(entries[n], "dimension")
                             THEN Loaded(At(entries, a, b, c, n)) ELSE Failed
  BY DEF DecodesNext
<1> DEFINE e == entries[n]
           p == e.protocol
<1>1. \A data : Loaded(data) # Failed /\ Loaded(data)[1] = data
  BY DEF Loaded, Failed
<1>2. \A field \in DecodedFields :
          TableGrows(TableOf(entries, n - 1, field), TableOf(entries, n, field), e, field)
  BY TableNext
<1>3. ASSUME NEW t, NEW u, NEW field, TableGrows(t, u, e, field)
      PROVE  /\ Add(t, p, e[field]) = u
             /\ e[field] # <<>> => Put(t, p, e[field]) = u
             /\ e[field] = <<>> => t = u
  BY <1>3 DEF TableGrows, Add
<1>4. Decode(Loaded(At(entries, n - 1, b, c, d)), e, "registries")
          = IF Readable(e, "registries") THEN Loaded(At(entries, n, b, c, d)) ELSE Failed
  <2> DEFINE data == At(entries, n - 1, b, c, d)
  <2>0. data = At(entries, n - 1, b, c, d)
    OBVIOUS
  <2>1. Decode(Loaded(data), e, "registries") = decodeRegistries(data, p, e.registries)
    BY <1>1 DEF Decode
  <2>2. Add(data.registries, p, e.registries) = TableOf(entries, n, "registries")
    BY <1>2, <1>3 DEF At, DecodedFields
  <2>3. [data EXCEPT !.registries = TableOf(entries, n, "registries")] = At(entries, n, b, c, d)
    BY DEF At
  <2> HIDE DEF data
  <2> QED
    <3>1. decodeRegistries(data, p, e.registries)
              = IF Readable(e, "registries")
                THEN Loaded([data EXCEPT !.registries = Add(data.registries, p, e.registries)])
                ELSE Failed
      BY DEF decodeRegistries, Readable
    <3> QED
      BY <2>0, <2>1, <2>2, <2>3, <3>1
<1>5. Decode(Loaded(At(entries, a, n - 1, c, d)), e, "tags") = Loaded(At(entries, a, n, c, d))
  <2> DEFINE data == At(entries, a, n - 1, c, d)
  <2>0. data = At(entries, a, n - 1, c, d)
    OBVIOUS
  <2>1. Decode(Loaded(data), e, "tags") = Loaded(decodeTags(data, p, e.tags))
    BY <1>1 DEF Decode
  <2>2. Add(data.tags, p, e.tags) = TableOf(entries, n, "tags")
    BY <1>2, <1>3 DEF At, DecodedFields
  <2>3. [data EXCEPT !.tags = TableOf(entries, n, "tags")] = At(entries, a, n, c, d)
    BY DEF At
  <2> HIDE DEF data
  <2> QED
    <3>1. decodeTags(data, p, e.tags) = [data EXCEPT !.tags = Add(data.tags, p, e.tags)]
      BY DEF decodeTags
    <3> QED
      BY <2>0, <2>1, <2>2, <2>3, <3>1
<1>6. Decode(Loaded(At(entries, a, b, n - 1, d)), e, "codec")
          = IF Readable(e, "codec") THEN Loaded(At(entries, a, b, n, d)) ELSE Failed
  <2> DEFINE data == At(entries, a, b, n - 1, d)
  <2>0. data = At(entries, a, b, n - 1, d)
    OBVIOUS
  <2>1. Decode(Loaded(data), e, "codec") = decodeDimensionCodec(data, p, e.codec)
    BY <1>1 DEF Decode
  <2>2. /\ e.codec # <<>> => Put(data.codecs, p, e.codec) = TableOf(entries, n, "codec")
        /\ e.codec = <<>> => data.codecs = TableOf(entries, n, "codec")
    BY <1>2, <1>3 DEF At, DecodedFields
  <2>3. /\ [data EXCEPT !.codecs = TableOf(entries, n, "codec")] = At(entries, a, b, n, d)
        /\ data.codecs = TableOf(entries, n, "codec") => data = At(entries, a, b, n, d)
    BY DEF At
  <2>4. <<>> # <<Bad>>
    OBVIOUS
  <2> HIDE DEF data
  <2> QED
    <3>1. decodeDimensionCodec(data, p, e.codec)
              = IF e.codec = <<>> THEN Loaded(data)
                ELSE IF Readable(e, "codec")
                THEN Loaded([data EXCEPT !.codecs = Put(data.codecs, p, e.codec)])
                ELSE Failed
      BY DEF decodeDimensionCodec, Readable
    <3>2. e.codec = <<>> => Readable(e, "codec")
      BY <2>4 DEF Readable
    <3> QED
      BY <2>0, <2>1, <2>2, <2>3, <3>1, <3>2
<1>7. Decode(Loaded(At(entries, a, b, c, n - 1)), e, "dimension")
          = IF Readable(e, "dimension") THEN Loaded(At(entries, a, b, c, n)) ELSE Failed
  <2> DEFINE data == At(entries, a, b, c, n - 1)
  <2>0. data = At(entries, a, b, c, n - 1)
    OBVIOUS
  <2>1. Decode(Loaded(data), e, "dimension") = decodeDimension(data, p, e.dimension)
    BY <1>1 DEF Decode
  <2>2. /\ e.dimension # <<>> => Put(data.dimensions, p, e.dimension) = TableOf(entries, n, "dimension")
        /\ e.dimension = <<>> => data.dimensions = TableOf(entries, n, "dimension")
    BY <1>2, <1>3 DEF At, DecodedFields
  <2>3. /\ [data EXCEPT !.dimensions = TableOf(entries, n, "dimension")] = At(entries, a, b, c, n)
        /\ data.dimensions = TableOf(entries, n, "dimension") => data = At(entries, a, b, c, n)
    BY DEF At
  <2>4. <<>> # <<Bad>>
    OBVIOUS
  <2> HIDE DEF data
  <2> QED
    <3>1. decodeDimension(data, p, e.dimension)
              = IF e.dimension = <<>> THEN Loaded(data)
                ELSE IF Readable(e, "dimension")
                THEN Loaded([data EXCEPT !.dimensions = Put(data.dimensions, p, e.dimension)])
                ELSE Failed
      BY DEF decodeDimension, Readable
    <3>2. e.dimension = <<>> => Readable(e, "dimension")
      BY <2>4 DEF Readable
    <3> QED
      BY <2>0, <2>1, <2>2, <2>3, <3>1, <3>2
<1> QED
  BY <1>4, <1>5, <1>6, <1>7

LEMMA AtTyped ==
    \A P : \A entries \in Seq(EntriesOf(P)) : \A a, b, c, d \in 0..Len(entries) :
        Loaded(At(entries, a, b, c, d)) \in Results(P)
<1> SUFFICES ASSUME NEW P, NEW entries \in Seq(EntriesOf(P)), NEW a \in 0..Len(entries),
                    NEW b \in 0..Len(entries), NEW c \in 0..Len(entries),
                    NEW d \in 0..Len(entries)
             PROVE  Loaded(At(entries, a, b, c, d)) \in Results(P)
  OBVIOUS
<1>0. \A i \in DOMAIN entries : entries[i] \in EntriesOf(P)
  BY ElementOfSeq
<1>1. ASSUME NEW n \in 0..Len(entries), NEW field, NEW V,
             \A i \in DOMAIN entries : entries[i][field] \in V
      PROVE  TableOf(entries, n, field) \in Tables(V)
  <2>1. \A j \in 1..n : j \in DOMAIN entries
    OBVIOUS
  <2>2. \A i \in DOMAIN entries : entries[i].protocol \in Int
    <3>1. \A e \in EntriesOf(P) : e.protocol \in Int
      BY DEF EntriesOf
    <3> QED
      BY <1>0, <3>1
  <2>3. Keys(entries, n, field) \in SUBSET Int
    BY <2>1, <2>2 DEF Keys
  <2>4. ASSUME NEW p \in Keys(entries, n, field) PROVE entries[Of(entries, p)][field] \in V
    <3>1. \E i \in DOMAIN entries : entries[i].protocol = p
      BY <2>1 DEF Keys
    <3>2. Of(entries, p) \in DOMAIN entries
      BY <3>1 DEF Of
    <3> QED
      BY <1>1, <3>2
  <2>5. TableOf(entries, n, field) \in [Keys(entries, n, field) -> V]
    BY <2>4 DEF TableOf
  <2> QED
    BY <2>3, <2>5 DEF Tables
<1>2. \A i \in DOMAIN entries :
          /\ entries[i]["registries"] \in Seq(Seq(P)) /\ entries[i]["tags"] \in Seq(P)
          /\ entries[i]["codec"] \in Seq(P) /\ entries[i]["dimension"] \in Seq(P)
  <2>1. \A e \in EntriesOf(P) :
            /\ e["registries"] \in Seq(Seq(P)) /\ e["tags"] \in Seq(P)
            /\ e["codec"] \in Seq(P) /\ e["dimension"] \in Seq(P)
    BY DEF EntriesOf
  <2> QED
    BY <1>0, <2>1
<1>3. /\ TableOf(entries, a, "registries") \in Tables(Seq(Seq(P)))
      /\ TableOf(entries, b, "tags") \in Tables(Seq(P))
      /\ TableOf(entries, c, "codec") \in Tables(Seq(P))
      /\ TableOf(entries, d, "dimension") \in Tables(Seq(P))
  BY <1>1, <1>2
<1>4. At(entries, a, b, c, d) \in Tabled(P)
  BY <1>3 DEF At, Tabled
<1> QED
  BY <1>4 DEF Results

LEMMA NothingDecoded == \A entries : newData = At(entries, 0, 0, 0, 0)
BY TableNone DEF newData, At

Good(entries, n, field) == \A i \in 1..n : Readable(entries[i], field)

LEMMA GoodNext ==
    \A entries, field : /\ Good(entries, 0, field)
                        /\ \A n \in Nat \ {0} :
                               Good(entries, n, field)
                                   <=> Good(entries, n - 1, field) /\ Readable(entries[n], field)
<1> SUFFICES ASSUME NEW entries, NEW field
             PROVE  /\ Good(entries, 0, field)
                    /\ \A n \in Nat \ {0} :
                           Good(entries, n, field)
                               <=> Good(entries, n - 1, field) /\ Readable(entries[n], field)
  OBVIOUS
<1>1. \A n \in Nat \ {0} : 1..n = 1..(n - 1) \cup {n}
  OBVIOUS
<1>2. 1..0 = {}
  OBVIOUS
<1> QED
  BY <1>1, <1>2 DEF Good

\* Nothing is decoded behind an error.
LEMMA FailedStays == \A entry, field : Decode(Failed, entry, field) = Failed
BY DEF Decode

\* A zip with an entry that is for no protocol or another one is not loaded.
LEMMA ZipFails ==
    \A P : \A entries \in Seq(EntriesOf(P)) : ~Proper(entries) => LoadZipBytes(entries) = Failed
<1> SUFFICES ASSUME NEW P, NEW entries \in Seq(EntriesOf(P)), ~Proper(entries)
             PROVE  LoadZipBytes(entries) = Failed
  OBVIOUS
<1>1. PICK loaded : /\ ZipTurns(loaded, entries)
                    /\ LoadZipBytes(entries) = IF entries = <<>> THEN Failed
                                               ELSE loaded[Len(entries)]
  BY ZipUnrolled
<1>2. PICK i \in DOMAIN entries : entries[i].protocol = NoProtocol \/ ~Declares(entries[i])
  BY DEF Proper
<1>3. i \in 1..Len(entries) /\ Len(entries) \in Nat
  OBVIOUS
<1>4. \A result : ZipTurn(result, entries[i]) = Failed
  BY <1>2 DEF ZipTurn, loadZipEntry
<1>5. \A entry : ZipTurn(Failed, entry) = Failed
  BY FailedStays DEF ZipTurn, loadZipEntry
<1> DEFINE S == {n \in 0..Len(entries) : i <= n => loaded[n] = Failed}
<1>6. 0 \in S
  BY <1>3
<1>7. ASSUME NEW n \in 1..Len(entries), n - 1 \in S PROVE n \in S
  <2>1. loaded[n] = ZipTurn(loaded[n - 1], entries[n])
    BY <1>1 DEF ZipTurns
  <2>2. i <= n => i = n \/ i <= n - 1
    BY <1>3
  <2> QED
    BY <1>4, <1>5, <1>7, <2>1, <2>2
<1> HIDE DEF S
<1>8. \A n \in 0..Len(entries) : n \in S
  BY <1>3, <1>6, <1>7, InductionUpTo
<1>9. Len(entries) \in S
  BY <1>3, <1>8
<1>10. loaded[Len(entries)] = Failed
  BY <1>3, <1>9 DEF S
<1> QED
  BY <1>1, <1>10

AllGood(entries, n) ==
    /\ Good(entries, n, "registries") /\ Good(entries, n, "codec")
    /\ Good(entries, n, "dimension")

\* A zip is loaded into the tables of all its entries or not at all.
LEMMA ZipIs ==
    \A P : \A entries \in Seq(EntriesOf(P)) :
        Distinct(entries) /\ Proper(entries) /\ entries # <<>> =>
            LoadZipBytes(entries)
                = IF AllGood(entries, Len(entries))
                  THEN Loaded(At(entries, Len(entries), Len(entries), Len(entries), Len(entries)))
                  ELSE Failed
<1> SUFFICES ASSUME NEW P, NEW entries \in Seq(EntriesOf(P)), Distinct(entries), Proper(entries),
                    entries # <<>>
             PROVE  LoadZipBytes(entries)
                        = IF AllGood(entries, Len(entries))
                          THEN Loaded(At(entries, Len(entries), Len(entries), Len(entries),
                                         Len(entries)))
                          ELSE Failed
  OBVIOUS
<1>1. PICK loaded : /\ ZipTurns(loaded, entries)
                    /\ LoadZipBytes(entries) = IF entries = <<>> THEN Failed
                                               ELSE loaded[Len(entries)]
  BY ZipUnrolled
<1>2. Len(entries) \in Nat /\ DOMAIN entries = 1..Len(entries)
  OBVIOUS
<1> DEFINE Result(n) == IF AllGood(entries, n) THEN Loaded(At(entries, n, n, n, n)) ELSE Failed
           S == {n \in 0..Len(entries) : loaded[n] = Result(n)}
<1>3. 0 \in S
  <2>1. AllGood(entries, 0)
    BY GoodNext DEF AllGood
  <2>2. loaded[0] = Loaded(newData)
    BY <1>1 DEF ZipTurns
  <2> QED
    BY <1>2, <2>1, <2>2, NothingDecoded
<1>4. ASSUME NEW n \in 1..Len(entries), n - 1 \in S PROVE n \in S
  <2>1. loaded[n] = loadZipEntry(loaded[n - 1], entries[n])
    BY <1>1, <1>2 DEF ZipTurns, ZipTurn, Proper
  <2>2. PICK r, s, t, u :
            /\ r = Decode(loaded[n - 1], entries[n], "registries")
            /\ s = Decode(r, entries[n], "tags")
            /\ t = Decode(s, entries[n], "codec")
            /\ u = Decode(t, entries[n], "dimension")
    OBVIOUS
  <2>3. loaded[n] = u
    BY <1>2, <2>1, <2>2 DEF loadZipEntry, Proper
  <2>4. n \in Nat \ {0}
    OBVIOUS
  <2>5. AllGood(entries, n) <=> /\ AllGood(entries, n - 1)
                                /\ Readable(entries[n], "registries")
                                /\ Readable(entries[n], "codec")
                                /\ Readable(entries[n], "dimension")
    BY <2>4, GoodNext DEF AllGood
  <2>6. DecodesNext(entries, n)
    BY DecodeIs
  <2>7. loaded[n - 1] = Result(n - 1)
    BY <1>4
  <2>8. u = Result(n)
    <3>1. CASE ~AllGood(entries, n - 1)
      BY <2>2, <2>5, <2>7, <3>1, FailedStays
    <3>2. CASE AllGood(entries, n - 1) /\ ~Readable(entries[n], "registries")
      BY <2>2, <2>5, <2>6, <2>7, <3>2, FailedStays DEF DecodesNext
    <3>3. CASE AllGood(entries, n - 1) /\ Readable(entries[n], "registries")
      <4>1. r = Loaded(At(entries, n, n - 1, n - 1, n - 1))
        BY <2>2, <2>6, <2>7, <3>3 DEF DecodesNext
      <4>2. s = Loaded(At(entries, n, n, n - 1, n - 1))
        BY <2>2, <2>6, <4>1 DEF DecodesNext
      <4>3. CASE ~Readable(entries[n], "codec")
        BY <2>2, <2>5, <2>6, <4>2, <4>3, FailedStays DEF DecodesNext
      <4>4. CASE Readable(entries[n], "codec")
        <5>1. t = Loaded(At(entries, n, n, n, n - 1))
          BY <2>2, <2>6, <4>2, <4>4 DEF DecodesNext
        <5> QED
          BY <2>2, <2>5, <2>6, <3>3, <4>4, <5>1 DEF DecodesNext
      <4> QED
        BY <4>3, <4>4
    <3> QED
      BY <3>1, <3>2, <3>3
  <2> QED
    BY <2>3, <2>8
<1> HIDE DEF S
<1>5. \A n \in 0..Len(entries) : n \in S
  BY <1>2, <1>3, <1>4, InductionUpTo
<1>6. Len(entries) \in S
  BY <1>2, <1>5
<1> QED
  BY <1>1, <1>6 DEF S

\* What LoadBytes has when n entries of its pass over a field are done.
Passing(entries, n, field) ==
    LET N == Len(entries)
    IN  CASE field = "registries" -> At(entries, n, 0, 0, 0)
          [] field = "tags"       -> At(entries, N, n, 0, 0)
          [] field = "codec"      -> At(entries, N, N, n, 0)
          [] field = "dimension"  -> At(entries, N, N, N, n)

PassedTo(entries, n, field) ==
    IF Good(entries, n, field) THEN Loaded(Passing(entries, n, field)) ELSE Failed

LEMMA NothingReadable ==
    \A entry, field : field \in DecodedFields /\ entry[field] = <<>> => Readable(entry, field)
<1>1. <<>> # <<Bad>> /\ DOMAIN <<>> = {}
  OBVIOUS
<1> QED
  BY <1>1 DEF Readable, DecodedFields

\* A field of an entry is decoded into the table, or nothing is there to decode.
LEMMA PassStep ==
    \A P : \A entries \in Seq(EntriesOf(P)) : Distinct(entries) /\ Proper(entries) =>
        \A n \in 1..Len(entries), field \in DecodedFields :
            PassTurn(PassedTo(entries, n - 1, field), entries[n], field)
                = PassedTo(entries, n, field)
<1> SUFFICES ASSUME NEW P, NEW entries \in Seq(EntriesOf(P)), Distinct(entries), Proper(entries),
                    NEW n \in 1..Len(entries), NEW field \in DecodedFields
             PROVE  PassTurn(PassedTo(entries, n - 1, field), entries[n], field)
                        = PassedTo(entries, n, field)
  OBVIOUS
<1> DEFINE e == entries[n]
<1>1. n \in Nat \ {0} /\ Len(entries) \in Nat /\ DOMAIN entries = 1..Len(entries)
  OBVIOUS
<1>2. e.protocol # NoProtocol
  BY <1>1 DEF Proper
<1>3. Good(entries, n, field) <=> Good(entries, n - 1, field) /\ Readable(e, field)
  BY <1>1, GoodNext
<1>4. CASE e[field] = <<>>
  <2>1. Readable(e, field)
    BY <1>4, NothingReadable
  <2>2. TableOf(entries, n, field) = TableOf(entries, n - 1, field)
    BY <1>4, TableNext DEF TableGrows
  <2>3. Passing(entries, n, field) = Passing(entries, n - 1, field)
    <3>1. CASE field = "registries"
      BY <2>2, <3>1 DEF Passing, At
    <3>2. CASE field = "tags"
      BY <2>2, <3>2 DEF Passing, At
    <3>3. CASE field = "codec"
      BY <2>2, <3>3 DEF Passing, At
    <3>4. CASE field = "dimension"
      BY <2>2, <3>4 DEF Passing, At
    <3> QED
      BY <3>1, <3>2, <3>3, <3>4 DEF DecodedFields
  <2> QED
    BY <1>3, <1>4, <2>1, <2>3 DEF PassTurn, PassedTo
<1>5. CASE e[field] # <<>>
  <2>1. \A result : PassTurn(result, e, field) = Decode(result, e, field)
    BY <1>2, <1>5 DEF PassTurn
  <2>2. Decode(Loaded(Passing(entries, n - 1, field)), e, field)
            = IF Readable(e, field) THEN Loaded(Passing(entries, n, field)) ELSE Failed
    <3> DEFINE N == Len(entries)
    <3>0. /\ Decode(Loaded(At(entries, n - 1, 0, 0, 0)), e, "registries")
                 = IF Readable(e, "registries") THEN Loaded(At(entries, n, 0, 0, 0)) ELSE Failed
          /\ Decode(Loaded(At(entries, N, n - 1, 0, 0)), e, "tags")
                 = Loaded(At(entries, N, n, 0, 0))
          /\ Decode(Loaded(At(entries, N, N, n - 1, 0)), e, "codec")
                 = IF Readable(e, "codec") THEN Loaded(At(entries, N, N, n, 0)) ELSE Failed
          /\ Decode(Loaded(At(entries, N, N, N, n - 1)), e, "dimension")
                 = IF Readable(e, "dimension") THEN Loaded(At(entries, N, N, N, n)) ELSE Failed
      <4>1. DecodesNext(entries, n)
        BY DecodeIs
      <4> QED
        BY <4>1 DEF DecodesNext
    <3>1. CASE field = "registries"
      BY <3>0, <3>1 DEF Passing
    <3>2. CASE field = "tags"
      BY <3>0, <3>2 DEF Passing, Readable
    <3>3. CASE field = "codec"
      BY <3>0, <3>3 DEF Passing
    <3>4. CASE field = "dimension"
      BY <3>0, <3>4 DEF Passing
    <3> QED
      BY <3>1, <3>2, <3>3, <3>4 DEF DecodedFields
  <2> QED
    BY <1>3, <2>1, <2>2, FailedStays DEF PassedTo
<1> QED
  BY <1>4, <1>5

LEMMA PassIs ==
    \A P : \A entries \in Seq(EntriesOf(P)) : Distinct(entries) /\ Proper(entries) =>
        \A field \in DecodedFields :
            Pass(Loaded(Passing(entries, 0, field)), entries, field)
                = PassedTo(entries, Len(entries), field)
<1> SUFFICES ASSUME NEW P, NEW entries \in Seq(EntriesOf(P)), Distinct(entries), Proper(entries),
                    NEW field \in DecodedFields
             PROVE  Pass(Loaded(Passing(entries, 0, field)), entries, field)
                        = PassedTo(entries, Len(entries), field)
  OBVIOUS
<1> DEFINE start == Loaded(Passing(entries, 0, field))
<1>1. Len(entries) \in Nat /\ 0 \in 0..Len(entries) /\ Len(entries) \in 0..Len(entries)
  OBVIOUS
<1>2. start \in Results(P)
  <2>1. \A a, b, c, d \in 0..Len(entries) : Loaded(At(entries, a, b, c, d)) \in Results(P)
    BY AtTyped
  <2> QED
    BY <1>1, <2>1 DEF Passing, DecodedFields
<1>3. PassedTo(entries, 0, field) = start
  BY GoodNext DEF PassedTo
<1> HIDE DEF start
<1>4. PICK passed : /\ PassTurns(passed, start, entries, field)
                    /\ Pass(start, entries, field) = passed[Len(entries)]
  BY <1>2, PassUnrolled
<1> DEFINE S == {n \in 0..Len(entries) : passed[n] = PassedTo(entries, n, field)}
<1>5. 0 \in S
  BY <1>1, <1>3, <1>4 DEF PassTurns
<1>6. ASSUME NEW n \in 1..Len(entries), n - 1 \in S PROVE n \in S
  <2>1. passed[n] = PassTurn(passed[n - 1], entries[n], field)
    BY <1>4 DEF PassTurns
  <2>2. passed[n] = PassedTo(entries, n, field)
    BY <1>6, <2>1, PassStep
  <2> QED
    BY <2>2
<1> HIDE DEF S
<1>7. Len(entries) \in S
  BY <1>1, <1>5, <1>6, InductionUpTo
<1> QED
  BY <1>4, <1>7 DEF S, start

LEMMA PassFails ==
    \A P : \A entries \in Seq(EntriesOf(P)) : \A field \in DecodedFields :
        Pass(Failed, entries, field) = Failed
<1> SUFFICES ASSUME NEW P, NEW entries \in Seq(EntriesOf(P)), NEW field \in DecodedFields
             PROVE  Pass(Failed, entries, field) = Failed
  OBVIOUS
<1>1. Len(entries) \in Nat /\ 0 \in 0..Len(entries) /\ Len(entries) \in 0..Len(entries)
  OBVIOUS
<1>2. Failed \in Results(P)
  BY DEF Results
<1>3. PICK passed : /\ PassTurns(passed, Failed, entries, field)
                    /\ Pass(Failed, entries, field) = passed[Len(entries)]
  BY <1>2, PassUnrolled
<1> DEFINE S == {n \in 0..Len(entries) : passed[n] = Failed}
<1>4. 0 \in S
  BY <1>1, <1>3 DEF PassTurns
<1>5. ASSUME NEW n \in 1..Len(entries), n - 1 \in S PROVE n \in S
  BY <1>3, <1>5, FailedStays DEF PassTurns, PassTurn
<1> HIDE DEF S
<1>6. Len(entries) \in S
  BY <1>1, <1>4, <1>5, InductionUpTo
<1> QED
  BY <1>3, <1>6 DEF S

\* A JSON file is loaded into the tables of all its entries or not at all.
LEMMA JsonIs ==
    \A P : \A entries \in Seq(EntriesOf(P)) : Distinct(entries) /\ Proper(entries) =>
        LoadBytes(entries)
            = IF AllGood(entries, Len(entries))
              THEN Loaded(At(entries, Len(entries), Len(entries), Len(entries), Len(entries)))
              ELSE Failed
<1> SUFFICES ASSUME NEW P, NEW entries \in Seq(EntriesOf(P)), Distinct(entries), Proper(entries)
             PROVE  LoadBytes(entries)
                        = IF AllGood(entries, Len(entries))
                          THEN Loaded(At(entries, Len(entries), Len(entries), Len(entries),
                                         Len(entries)))
                          ELSE Failed
  OBVIOUS
<1> DEFINE N == Len(entries)
           registries == Pass(Loaded(newData), entries, "registries")
           tags == Pass(registries, entries, "tags")
           codecs == Pass(tags, entries, "codec")
<1>0. \A field \in DecodedFields : Pass(Failed, entries, field) = Failed
  BY PassFails
<1>1. \A field \in DecodedFields :
          Pass(Loaded(Passing(entries, 0, field)), entries, field) = PassedTo(entries, N, field)
  BY PassIs
<1>2. registries = IF Good(entries, N, "registries") THEN Loaded(At(entries, N, 0, 0, 0))
                   ELSE Failed
  BY <1>1, NothingDecoded DEF Passing, PassedTo, DecodedFields
<1>3. tags = IF Good(entries, N, "registries") THEN Loaded(At(entries, N, N, 0, 0)) ELSE Failed
  <2>1. Good(entries, N, "tags")
    BY DEF Good, Readable
  <2>2. Pass(Loaded(At(entries, N, 0, 0, 0)), entries, "tags") = Loaded(At(entries, N, N, 0, 0))
    BY <1>1, <2>1 DEF Passing, PassedTo, DecodedFields
  <2> HIDE DEF registries
  <2> QED
    BY <1>0, <1>2, <2>2 DEF DecodedFields
<1>4. codecs = IF Good(entries, N, "registries") /\ Good(entries, N, "codec")
               THEN Loaded(At(entries, N, N, N, 0)) ELSE Failed
  <2>1. Pass(Loaded(At(entries, N, N, 0, 0)), entries, "codec")
            = IF Good(entries, N, "codec") THEN Loaded(At(entries, N, N, N, 0)) ELSE Failed
    BY <1>1 DEF Passing, PassedTo, DecodedFields
  <2> HIDE DEF tags
  <2> QED
    BY <1>0, <1>3, <2>1 DEF DecodedFields
<1>5. Pass(Loaded(At(entries, N, N, N, 0)), entries, "dimension")
          = IF Good(entries, N, "dimension") THEN Loaded(At(entries, N, N, N, N)) ELSE Failed
  BY <1>1 DEF Passing, PassedTo, DecodedFields
<1>6. LoadBytes(entries) = Pass(codecs, entries, "dimension")
  BY DEF LoadBytes
<1> HIDE DEF codecs
<1> QED
  BY <1>0, <1>4, <1>5, <1>6 DEF AllGood, DecodedFields

(***************************************************************************)
(* Whatever the payloads, and however many protocols there are, a zip and  *)
(* a JSON file with the same contents load to the same data or not at all, *)
(* and a zip with an entry that is for no protocol, or declares another    *)
(* one, is not loaded (LoadZipBytes and LoadBytes).                        *)
(***************************************************************************)
THEOREM RegistriesAgree ==
    \A P : \A entries \in Seq(EntriesOf(P)) :
        LoadersAgree(entries, LoadZipBytes(entries), LoadBytes(entries))
BY ZipIs, JsonIs, ZipFails DEF LoadersAgree

=============================================================================

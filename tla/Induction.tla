------------------------------ MODULE Induction ------------------------------
(***************************************************************************)
(* What the proofs of several components need of numbers: the least number *)
(* of a set, induction over a set of numbers, and sums.                    *)
(***************************************************************************)
EXTENDS Integers, Sums, WellFoundedInduction, TLAPS

LessThan == {p \in Nat \X Nat : p[1] < p[2]}

LEMMA LessThanWellFounded == IsWellFoundedOn(LessThan, Nat)
  BY NatLessThanWellFounded DEF OpToRel, LessThan

(* Every set of natural numbers that has a member has a least one. *)
LEMMA LeastExists ==
  ASSUME NEW S, S \subseteq Nat, S # {}
  PROVE  \E m \in S : \A n \in S : m <= n
<1>1. \E m \in S : \A n \in S : ~(<<n, m>> \in LessThan)
  BY LessThanWellFounded, WFMin
<1>2. ASSUME NEW m \in S, NEW n \in S, ~(<<n, m>> \in LessThan) PROVE m <= n
  BY <1>2 DEF LessThan
<1> QED
  BY <1>1, <1>2

(* Induction over a set of natural numbers. *)
LEMMA NatSetInduction ==
  ASSUME NEW S, 0 \in S, \A n \in Nat : n \in S => n + 1 \in S
  PROVE  Nat \subseteq S
<1> SUFFICES ASSUME Nat \ S # {} PROVE FALSE
  OBVIOUS
<1>1. PICK m \in Nat \ S : \A n \in Nat \ S : m <= n
  BY LeastExists
<1>2. m # 0 /\ m - 1 \in Nat /\ m - 1 \in S
  BY <1>1
<1> QED
  BY <1>1, <1>2

-----------------------------------------------------------------------------
(* Sums.  The recursive function of the definition exists, and any two of   *)
(* them agree where both are defined.                                       *)

Adds(g, f, a, b) == g = [i \in a - 1 .. b |-> IF i < a THEN 0 ELSE g[i - 1] + f[i]]

LEMMA SumExists ==
  ASSUME NEW a \in Int, NEW b \in Int, a - 1 <= b, NEW f, \A i \in a .. b : f[i] \in Int
  PROVE  \E g \in [a - 1 .. b -> Int] : Adds(g, f, a, b)
<1> DEFINE S == {n \in Nat : a - 1 + n <= b => \E g \in [a - 1 .. a - 1 + n -> Int] : Adds(g, f, a, a - 1 + n)}
<1>1. 0 \in S
  <2> DEFINE h == [i \in a - 1 .. a - 1 + 0 |-> 0]
  <2>1. h \in [a - 1 .. a - 1 + 0 -> Int] /\ Adds(h, f, a, a - 1 + 0)
    BY DEF Adds
  <2> HIDE DEF h
  <2> QED
    BY <2>1
<1>2. ASSUME NEW n \in Nat, n \in S PROVE n + 1 \in S
  <2>1. SUFFICES ASSUME a - 1 + (n + 1) <= b
                 PROVE  \E g \in [a - 1 .. a - 1 + (n + 1) -> Int] : Adds(g, f, a, a - 1 + (n + 1))
    OBVIOUS
  <2>2. PICK g \in [a - 1 .. a - 1 + n -> Int] : Adds(g, f, a, a - 1 + n)
    BY <1>2, <2>1
  <2> DEFINE h == [i \in a - 1 .. a - 1 + (n + 1) |-> IF i = a + n THEN g[a - 1 + n] + f[a + n] ELSE g[i]]
  <2>3. a + n \in a .. b /\ f[a + n] \in Int
    BY <2>1
  <2>4. h \in [a - 1 .. a - 1 + (n + 1) -> Int]
    BY <2>2, <2>3
  <2>5. \A i \in a - 1 .. a - 1 + n : g[i] = IF i < a THEN 0 ELSE g[i - 1] + f[i]
    BY <2>2 DEF Adds
  <2>6. \A i \in a - 1 .. a - 1 + (n + 1) : h[i] = IF i < a THEN 0 ELSE h[i - 1] + f[i]
    <3> TAKE i \in a - 1 .. a - 1 + (n + 1)
    <3>1. CASE i = a + n
      <4>1. ~(i < a) /\ i - 1 = a - 1 + n /\ i - 1 \in a - 1 .. a - 1 + (n + 1) /\ i - 1 # a + n
        BY <3>1
      <4> QED
        BY <3>1, <4>1
    <3>2. CASE i # a + n
      <4>1. i \in a - 1 .. a - 1 + n
        BY <3>2
      <4>2. i >= a => i - 1 \in a - 1 .. a - 1 + (n + 1) /\ i - 1 # a + n
        BY <4>1
      <4>3. g[i] = IF i < a THEN 0 ELSE g[i - 1] + f[i]
        BY <2>5, <4>1
      <4> QED
        BY <3>2, <4>2, <4>3
    <3> QED
      BY <3>1, <3>2
  <2>7. Adds(h, f, a, a - 1 + (n + 1))
    BY <2>4, <2>6 DEF Adds
  <2> QED
    BY <2>4, <2>7
<1> HIDE DEF S
<1>3. b - (a - 1) \in S
  BY <1>1, <1>2, NatSetInduction
<1>4. a - 1 + (b - (a - 1)) = b
  OBVIOUS
<1> QED
  BY <1>3, <1>4 DEF S

LEMMA SumsAgree ==
  ASSUME NEW a \in Int, NEW b \in Int, NEW c \in Int, a - 1 <= b, b <= c, NEW f,
         NEW g, NEW h, Adds(g, f, a, b), Adds(h, f, a, c)
  PROVE  g[b] = h[b]
<1> DEFINE S == {n \in Nat : a - 1 + n <= b => g[a - 1 + n] = h[a - 1 + n]}
<1>0. /\ \A i \in a - 1 .. b : g[i] = IF i < a THEN 0 ELSE g[i - 1] + f[i]
      /\ \A i \in a - 1 .. b : h[i] = IF i < a THEN 0 ELSE h[i - 1] + f[i]
  BY DEF Adds
<1>1. 0 \in S
  BY <1>0
<1>2. ASSUME NEW n \in Nat, n \in S PROVE n + 1 \in S
  <2> SUFFICES ASSUME a - 1 + (n + 1) <= b PROVE g[a - 1 + (n + 1)] = h[a - 1 + (n + 1)]
    OBVIOUS
  <2>1. a - 1 + (n + 1) \in a - 1 .. b /\ ~(a - 1 + (n + 1) < a) /\ (a - 1 + (n + 1)) - 1 = a - 1 + n
    OBVIOUS
  <2>2. g[a - 1 + n] = h[a - 1 + n]
    BY <1>2
  <2> QED
    BY <1>0, <2>1, <2>2
<1> HIDE DEF S
<1>3. b - (a - 1) \in S
  BY <1>1, <1>2, NatSetInduction
<1>4. a - 1 + (b - (a - 1)) = b
  OBVIOUS
<1> QED
  BY <1>3, <1>4 DEF S

(* A sum is a number; the empty one is 0, and any other is the one before   *)
(* and its last term.                                                       *)
LEMMA SumFacts ==
  ASSUME NEW a \in Int, NEW b \in Int, a - 1 <= b, NEW f, \A i \in a .. b : f[i] \in Int
  PROVE  /\ SumOver(f, a, b) \in Int
         /\ b = a - 1 => SumOver(f, a, b) = 0
         /\ b >= a => SumOver(f, a, b) = SumOver(f, a, b - 1) + f[b]
<1> DEFINE fn(c) == CHOOSE g : Adds(g, f, a, c)
<1>1. \A c : SumOver(f, a, c) = fn(c)[c]
  BY DEF SumOver, Adds
<1>2. PICK g \in [a - 1 .. b -> Int] : Adds(g, f, a, b)
  BY SumExists
<1>3. Adds(fn(b), f, a, b)
  BY <1>2
<1> HIDE DEF fn
<1>4. fn(b)[b] = g[b]
  BY <1>2, <1>3, SumsAgree
<1>5. b = a - 1 => fn(b)[b] = 0
  BY <1>3 DEF Adds
<1>6. ASSUME b >= a PROVE fn(b)[b] = fn(b - 1)[b - 1] + f[b]
  <2>1. a - 1 <= b - 1 /\ b - 1 \in Int /\ b - 1 <= b /\ \A i \in a .. b - 1 : f[i] \in Int
    BY <1>6
  <2>2. \E k \in [a - 1 .. b - 1 -> Int] : Adds(k, f, a, b - 1)
    BY <2>1, SumExists
  <2>3. Adds(fn(b - 1), f, a, b - 1)
    BY <2>2 DEF fn
  <2>4. fn(b - 1)[b - 1] = fn(b)[b - 1]
    BY <1>3, <2>1, <2>3, SumsAgree
  <2>5. fn(b)[b] = fn(b)[b - 1] + f[b]
    BY <1>3, <1>6 DEF Adds
  <2> QED
    BY <2>4, <2>5
<1> QED
  BY <1>1, <1>2, <1>4, <1>5, <1>6

(* A sum is that of its two parts. *)
LEMMA SumSplit ==
  ASSUME NEW a \in Int, NEW b \in Int, NEW c \in Int, a - 1 <= b, b <= c,
         NEW f, \A i \in a .. c : f[i] \in Int
  PROVE  SumOver(f, a, c) = SumOver(f, a, b) + SumOver(f, b + 1, c)
<1> DEFINE S == {n \in Nat : b + n <= c => SumOver(f, a, b + n) = SumOver(f, a, b) + SumOver(f, b + 1, b + n)}
<1>1. 0 \in S
  <2>1. SumOver(f, b + 1, b) = 0 /\ SumOver(f, a, b) \in Int
    <3>1. (b + 1) - 1 <= b /\ b = (b + 1) - 1 /\ \A i \in b + 1 .. b : f[i] \in Int
      OBVIOUS
    <3>2. \A i \in a .. b : f[i] \in Int
      OBVIOUS
    <3> QED
      BY <3>1, <3>2, SumFacts
  <2>2. b + 0 = b
    OBVIOUS
  <2> QED
    BY <2>1, <2>2
<1>2. ASSUME NEW n \in Nat, n \in S PROVE n + 1 \in S
  <2> SUFFICES ASSUME b + (n + 1) <= c
               PROVE  SumOver(f, a, b + (n + 1)) = SumOver(f, a, b) + SumOver(f, b + 1, b + (n + 1))
    OBVIOUS
  <2>1. SumOver(f, a, b + n) = SumOver(f, a, b) + SumOver(f, b + 1, b + n)
    BY <1>2
  <2>2. SumOver(f, a, b + (n + 1)) = SumOver(f, a, b + n) + f[b + (n + 1)]
    <3>1. /\ b + (n + 1) \in Int /\ a - 1 <= b + (n + 1) /\ b + (n + 1) >= a /\ (b + (n + 1)) - 1 = b + n
          /\ \A i \in a .. b + (n + 1) : f[i] \in Int
      OBVIOUS
    <3> QED
      BY <3>1, SumFacts
  <2>3. SumOver(f, b + 1, b + (n + 1)) = SumOver(f, b + 1, b + n) + f[b + (n + 1)]
    <3>1. /\ b + (n + 1) \in Int /\ b + 1 \in Int /\ (b + 1) - 1 <= b + (n + 1) /\ b + (n + 1) >= b + 1
          /\ (b + (n + 1)) - 1 = b + n /\ \A i \in b + 1 .. b + (n + 1) : f[i] \in Int
      OBVIOUS
    <3> QED
      BY <3>1, SumFacts
  <2>4. f[b + (n + 1)] \in Int /\ SumOver(f, a, b) \in Int /\ SumOver(f, b + 1, b + n) \in Int
    <3>1. b + (n + 1) \in a .. c /\ \A i \in a .. b : f[i] \in Int
      OBVIOUS
    <3>2. b + 1 \in Int /\ b + n \in Int /\ (b + 1) - 1 <= b + n /\ \A i \in b + 1 .. b + n : f[i] \in Int
      OBVIOUS
    <3> QED
      BY <3>1, <3>2, SumFacts
  <2> QED
    BY <2>1, <2>2, <2>3, <2>4
<1> HIDE DEF S
<1>3. c - b \in S
  BY <1>1, <1>2, NatSetInduction
<1>4. b + (c - b) = c
  OBVIOUS
<1> QED
  BY <1>3, <1>4 DEF S

(* A sum of terms that are no larger is no larger. *)
LEMMA SumMonotone ==
  ASSUME NEW a \in Int, NEW b \in Int, a - 1 <= b, NEW f, NEW g,
         \A i \in a .. b : f[i] \in Int /\ g[i] \in Int /\ f[i] <= g[i]
  PROVE  SumOver(f, a, b) <= SumOver(g, a, b)
<1> DEFINE S == {n \in Nat : a - 1 + n <= b => SumOver(f, a, a - 1 + n) <= SumOver(g, a, a - 1 + n)}
<1>1. 0 \in S
  <2>1. a - 1 \in Int /\ a - 1 + 0 = a - 1 /\ \A i \in a .. a - 1 : f[i] \in Int /\ g[i] \in Int
    OBVIOUS
  <2>2. SumOver(f, a, a - 1) = 0 /\ SumOver(g, a, a - 1) = 0
    BY <2>1, SumFacts
  <2> QED
    BY <2>1, <2>2
<1>2. ASSUME NEW n \in Nat, n \in S PROVE n + 1 \in S
  <2> SUFFICES ASSUME a - 1 + (n + 1) <= b
               PROVE  SumOver(f, a, a - 1 + (n + 1)) <= SumOver(g, a, a - 1 + (n + 1))
    OBVIOUS
  <2>1. SumOver(f, a, a - 1 + n) <= SumOver(g, a, a - 1 + n)
    BY <1>2
  <2>2. /\ a - 1 + (n + 1) \in Int /\ a - 1 <= a - 1 + (n + 1) /\ a - 1 + (n + 1) >= a
        /\ (a - 1 + (n + 1)) - 1 = a - 1 + n
        /\ \A i \in a .. a - 1 + (n + 1) : f[i] \in Int /\ g[i] \in Int
    OBVIOUS
  <2>3. /\ SumOver(f, a, a - 1 + (n + 1)) = SumOver(f, a, a - 1 + n) + f[a - 1 + (n + 1)]
        /\ SumOver(g, a, a - 1 + (n + 1)) = SumOver(g, a, a - 1 + n) + g[a - 1 + (n + 1)]
    BY <2>2, SumFacts
  <2>4. a - 1 + (n + 1) \in a .. b
    BY <2>2
  <2>5. SumOver(f, a, a - 1 + n) \in Int /\ SumOver(g, a, a - 1 + n) \in Int
    <3>1. a - 1 + n \in Int /\ a - 1 <= a - 1 + n /\ \A i \in a .. a - 1 + n : f[i] \in Int /\ g[i] \in Int
      OBVIOUS
    <3> QED
      BY <3>1, SumFacts
  <2>6. /\ f[a - 1 + (n + 1)] \in Int /\ g[a - 1 + (n + 1)] \in Int
        /\ f[a - 1 + (n + 1)] <= g[a - 1 + (n + 1)]
    BY <2>4
  <2> QED
    BY <2>1, <2>3, <2>5, <2>6
<1> HIDE DEF S
<1>3. b - (a - 1) \in S
  BY <1>1, <1>2, NatSetInduction
<1>4. a - 1 + (b - (a - 1)) = b
  OBVIOUS
<1> QED
  BY <1>3, <1>4 DEF S

(* Equal terms have equal sums. *)
LEMMA SumSame ==
  ASSUME NEW a \in Int, NEW b \in Int, a - 1 <= b, NEW f, NEW g,
         \A i \in a .. b : f[i] \in Int /\ g[i] = f[i]
  PROVE  SumOver(g, a, b) = SumOver(f, a, b)
<1>1. SumOver(f, a, b) <= SumOver(g, a, b) /\ SumOver(g, a, b) <= SumOver(f, a, b)
  BY SumMonotone
<1>2. SumOver(f, a, b) \in Int /\ SumOver(g, a, b) \in Int
  BY SumFacts
<1> QED
  BY <1>1, <1>2

(* The sum of zeros, of any number of them. *)
LEMMA SumZero ==
  ASSUME NEW a \in Int, NEW b \in Int, a - 1 <= b, NEW f, \A i \in a .. b : f[i] = 0
  PROVE  SumOver(f, a, b) = 0
<1> DEFINE S == {n \in Nat : a - 1 + n <= b => SumOver(f, a, a - 1 + n) = 0}
<1>1. 0 \in S
  <2>1. a - 1 \in Int /\ a - 1 + 0 = a - 1 /\ \A i \in a .. a - 1 : f[i] \in Int
    OBVIOUS
  <2> QED
    BY <2>1, SumFacts
<1>2. ASSUME NEW n \in Nat, n \in S PROVE n + 1 \in S
  <2> SUFFICES ASSUME a - 1 + (n + 1) <= b PROVE SumOver(f, a, a - 1 + (n + 1)) = 0
    OBVIOUS
  <2>1. /\ a - 1 + (n + 1) \in Int /\ a - 1 <= a - 1 + (n + 1) /\ a - 1 + (n + 1) >= a
        /\ (a - 1 + (n + 1)) - 1 = a - 1 + n /\ \A i \in a .. a - 1 + (n + 1) : f[i] \in Int
        /\ f[a - 1 + (n + 1)] = 0
    OBVIOUS
  <2> QED
    BY <1>2, <2>1, SumFacts
<1> HIDE DEF S
<1>3. b - (a - 1) \in S
  BY <1>1, <1>2, NatSetInduction
<1>4. a - 1 + (b - (a - 1)) = b
  OBVIOUS
<1> QED
  BY <1>3, <1>4 DEF S

(* A sum of terms that are not negative has each of them. *)
LEMMA SumAtLeast ==
  ASSUME NEW a \in Int, NEW b \in Int, a - 1 <= b, NEW f, \A i \in a .. b : f[i] \in Nat
  PROVE  SumOver(f, a, b) \in Nat /\ \A k \in a .. b : f[k] <= SumOver(f, a, b)
<1>1. ASSUME NEW c \in Int, NEW d \in Int, c - 1 <= d, \A i \in c .. d : f[i] \in Nat
      PROVE  SumOver(f, c, d) \in Nat
  <2> DEFINE z == [i \in c .. d |-> 0]
  <2>1. SumOver(z, c, d) = 0
    BY <1>1, SumZero
  <2>2. SumOver(z, c, d) <= SumOver(f, c, d)
    BY <1>1, SumMonotone
  <2>3. SumOver(f, c, d) \in Int
    BY <1>1, SumFacts
  <2> QED
    BY <2>1, <2>2, <2>3
<1>2. ASSUME NEW k \in a .. b PROVE f[k] <= SumOver(f, a, b)
  <2>1. SumOver(f, a, b) = SumOver(f, a, k) + SumOver(f, k + 1, b)
    BY <1>2, SumSplit
  <2>2. SumOver(f, a, k) = SumOver(f, a, k - 1) + f[k]
    BY <1>2, SumFacts
  <2>3. SumOver(f, a, k - 1) \in Nat /\ SumOver(f, k + 1, b) \in Nat
    <3>1. k - 1 \in Int /\ a - 1 <= k - 1 /\ \A i \in a .. k - 1 : f[i] \in Nat
      BY <1>2
    <3>2. k + 1 \in Int /\ (k + 1) - 1 <= b /\ \A i \in k + 1 .. b : f[i] \in Nat
      BY <1>2
    <3> QED
      BY <1>1, <3>1, <3>2
  <2>4. f[k] \in Nat
    BY <1>2
  <2> QED
    BY <2>1, <2>2, <2>3, <2>4
<1>3. SumOver(f, a, b) \in Nat
  BY <1>1
<1> QED
  BY <1>2, <1>3

(* One term more or less makes the sum that much more or less. *)
LEMMA SumUpdate ==
  ASSUME NEW a \in Int, NEW b \in Int, a - 1 <= b, NEW f, NEW g, NEW k \in a .. b,
         \A i \in a .. b : f[i] \in Int /\ g[i] \in Int /\ (i # k => g[i] = f[i])
  PROVE  SumOver(g, a, b) = SumOver(f, a, b) + (g[k] - f[k])
<1>1. ASSUME NEW h, \A i \in a .. b : h[i] \in Int
      PROVE  SumOver(h, a, b) = SumOver(h, a, k - 1) + h[k] + SumOver(h, k + 1, b)
  <2>1. SumOver(h, a, b) = SumOver(h, a, k) + SumOver(h, k + 1, b)
    BY <1>1, SumSplit
  <2>2. SumOver(h, a, k) = SumOver(h, a, k - 1) + h[k]
    BY <1>1, SumFacts
  <2> QED
    BY <2>1, <2>2
<1>2. /\ k - 1 \in Int /\ a - 1 <= k - 1 /\ \A i \in a .. k - 1 : f[i] \in Int /\ g[i] = f[i]
      /\ k + 1 \in Int /\ (k + 1) - 1 <= b /\ \A i \in k + 1 .. b : f[i] \in Int /\ g[i] = f[i]
  OBVIOUS
<1>3. SumOver(g, a, k - 1) = SumOver(f, a, k - 1) /\ SumOver(g, k + 1, b) = SumOver(f, k + 1, b)
  BY <1>2, SumSame
<1>4. SumOver(f, a, k - 1) \in Int /\ SumOver(f, k + 1, b) \in Int /\ f[k] \in Int /\ g[k] \in Int
  BY <1>2, SumFacts
<1>5. /\ SumOver(f, a, b) = SumOver(f, a, k - 1) + f[k] + SumOver(f, k + 1, b)
      /\ SumOver(g, a, b) = SumOver(g, a, k - 1) + g[k] + SumOver(g, k + 1, b)
  BY <1>1
<1> QED
  BY <1>3, <1>4, <1>5

(* Part of a sum of terms that are not negative is no larger. *)
LEMMA SumWithin ==
  ASSUME NEW a \in Int, NEW b \in Int, NEW c \in Int, NEW d \in Int,
         a <= c, c - 1 <= d, d <= b, NEW f, \A i \in a .. b : f[i] \in Nat
  PROVE  SumOver(f, c, d) <= SumOver(f, a, b)
<1>1. SumOver(f, a, b) = SumOver(f, a, c - 1) + SumOver(f, c, b)
  <2>1. c - 1 \in Int /\ a - 1 <= c - 1 /\ c - 1 <= b /\ (c - 1) + 1 = c /\ \A i \in a .. b : f[i] \in Int
    OBVIOUS
  <2> QED
    BY <2>1, SumSplit
<1>2. SumOver(f, c, b) = SumOver(f, c, d) + SumOver(f, d + 1, b)
  <2>1. \A i \in c .. b : f[i] \in Int
    OBVIOUS
  <2> QED
    BY <2>1, SumSplit
<1>3. SumOver(f, a, c - 1) \in Nat /\ SumOver(f, c, d) \in Nat /\ SumOver(f, d + 1, b) \in Nat
  <2>1. c - 1 \in Int /\ a - 1 <= c - 1 /\ \A i \in a .. c - 1 : f[i] \in Nat
    OBVIOUS
  <2>2. \A i \in c .. d : f[i] \in Nat
    OBVIOUS
  <2>3. d + 1 \in Int /\ (d + 1) - 1 <= b /\ \A i \in d + 1 .. b : f[i] \in Nat
    OBVIOUS
  <2> QED
    BY <2>1, <2>2, <2>3, SumAtLeast
<1> QED
  BY <1>1, <1>2, <1>3
=============================================================================

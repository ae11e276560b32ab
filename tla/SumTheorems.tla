----------------------------- MODULE SumTheorems -----------------------------
(***************************************************************************)
(* What SumTo computes, for every function and every bound.  Induction is  *)
(* taken from a library theorem that needs no predicate parameter: strict  *)
(* inclusion of finite sets is well-founded, so a set of naturals has a    *)
(* least element, so a set that has 0 and successors has every natural.    *)
(***************************************************************************)
EXTENDS Sums, FiniteSetTheorems, TLAPS

\* Every non-empty set of naturals has a least element.
LEMMA LeastNatural ==
  ASSUME NEW T \in SUBSET Nat, T # {}
  PROVE  \E n \in T : \A m \in T : n <= m
<1> DEFINE Below(n) == 0 .. (n - 1)
           Image == {0 .. (n - 1) : n \in T}
<1>1. \A n \in Nat : IsFiniteSet(0 .. (n - 1))
  BY FS_Interval
<1>2. Image \subseteq FiniteSubsetsOf(Nat)
  BY <1>1 DEF FiniteSubsetsOf
<1>3. Image # {}
  OBVIOUS
<1>4. PICK s \in Image : \A t \in Image :
              <<t, s>> \notin StrictSubsetOrdering(Nat)
  <2>1. IsWellFoundedOn(StrictSubsetOrdering(Nat), FiniteSubsetsOf(Nat))
    BY FS_StrictSubsetOrderingWellFounded
  <2> HIDE DEF Image
  <2> QED BY <1>2, <1>3, <2>1, WFMin
<1>5. PICK n \in T : s = 0 .. (n - 1)
  BY <1>4
<1>6. ASSUME NEW m \in T, m < n
      PROVE  FALSE
  <2>1. 0 .. (m - 1) \in Image
    OBVIOUS
  <2>2. 0 .. (m - 1) \in SUBSET Nat /\ 0 .. (n - 1) \in SUBSET Nat
    OBVIOUS
  <2>3. 0 .. (m - 1) \subseteq 0 .. (n - 1) /\ 0 .. (m - 1) # 0 .. (n - 1)
    <3>1. m \in 0 .. (n - 1) /\ m \notin 0 .. (m - 1)
      BY <1>6
    <3> QED BY <3>1, <1>6
  <2> QED BY <1>4, <1>5, <2>1, <2>2, <2>3 DEF StrictSubsetOrdering
<1> QED BY <1>6

\* Induction over the naturals, for a set instead of a predicate.
LEMMA SetInduction ==
  ASSUME NEW S, 0 \in S, \A n \in Nat : n \in S => n + 1 \in S
  PROVE  Nat \subseteq S
<1> DEFINE T == Nat \ S
<1> SUFFICES ASSUME T # {} PROVE FALSE
  OBVIOUS
<1>1. PICK n \in T : \A m \in T : n <= m
  <2> T \in SUBSET Nat OBVIOUS
  <2> HIDE DEF T
  <2> QED BY LeastNatural
<1>2. n # 0 /\ n - 1 \in Nat
  OBVIOUS
<1>3. n - 1 \in S
  BY <1>1, <1>2
<1> QED BY <1>2, <1>3

------------------------------------------------------------------------------
\* s lists the partial sums of x up to n.
PartialSums(x, n, s) ==
  /\ s \in [0 .. n -> Int]
  /\ s[0] = 0
  /\ \A m \in 1 .. n : s[m] = s[m - 1] + x[m]

\* Every integer function on 1 .. n has a list of partial sums.
LEMMA PartialSumsExist ==
  ASSUME NEW n \in Nat, NEW x \in [1 .. n -> Int]
  PROVE  \E s : PartialSums(x, n, s)
<1> DEFINE S == {m \in Nat : m <= n => \E s : PartialSums(x, m, s)}
<1>1. 0 \in S
  <2>1. PartialSums(x, 0, [m \in 0 .. 0 |-> 0])
    BY DEF PartialSums
  <2> QED BY <2>1
<1>2. ASSUME NEW m \in Nat, m \in S PROVE m + 1 \in S
  <2> SUFFICES ASSUME m + 1 <= n PROVE \E s : PartialSums(x, m + 1, s)
    OBVIOUS
  <2>1. PICK s : PartialSums(x, m, s)
    BY <1>2
  <2> DEFINE t == [j \in 0 .. m + 1 |-> IF j = m + 1 THEN s[m] + x[m + 1] ELSE s[j]]
  <2>2. /\ s \in [0 .. m -> Int]
        /\ s[0] = 0
        /\ \A j \in 1 .. m : s[j] = s[j - 1] + x[j]
    BY <2>1 DEF PartialSums
  <2>3. x[m + 1] \in Int /\ s[m] \in Int
    BY <2>2
  <2>4. t \in [0 .. m + 1 -> Int] /\ t[0] = 0
    BY <2>2, <2>3
  <2>5. ASSUME NEW j \in 1 .. m + 1 PROVE t[j] = t[j - 1] + x[j]
    <3>1. CASE j = m + 1
      BY <3>1
    <3>2. CASE j # m + 1
      <4>1. j \in 1 .. m /\ j - 1 \in 0 .. m /\ j \in 0 .. m
        BY <3>2
      <4>2. t[j] = s[j] /\ t[j - 1] = s[j - 1]
        BY <4>1
      <4> QED BY <2>2, <4>1, <4>2
    <3> QED BY <3>1, <3>2
  <2>6. PartialSums(x, m + 1, t)
    BY <2>4, <2>5 DEF PartialSums
  <2> QED BY <2>6
<1>3. Nat \subseteq S
  <2> HIDE DEF S
  <2> QED BY <1>1, <1>2, SetInduction
<1> QED BY <1>3

\* Any list of partial sums ends in SumTo.
LEMMA SumToIsLast ==
  ASSUME NEW n \in Nat, NEW x, NEW s, PartialSums(x, n, s)
  PROVE  SumTo(x, n) = s[n]
<1> DEFINE E(g) == [m \in 0 .. n |-> IF m = 0 THEN 0 ELSE g[m - 1] + x[m]]
           g == CHOOSE f : f = E(f)
           S == {m \in Nat : m <= n => g[m] = s[m]}
<1>1. s = E(s)
  BY DEF PartialSums
<1>2. g = E(g)
  BY <1>1
<1>3. SumTo(x, n) = g[n]
  BY DEF SumTo
<1> HIDE DEF g
<1>4. 0 \in S
  BY <1>2 DEF PartialSums
<1>5. ASSUME NEW m \in Nat, m \in S PROVE m + 1 \in S
  BY <1>2, <1>5 DEF PartialSums
<1>6. Nat \subseteq S
  <2> HIDE DEF S
  <2> QED BY <1>4, <1>5, SetInduction
<1> QED BY <1>3, <1>6

\* The sum is built from the left, one element at a time.
LEMMA SumToStep ==
  ASSUME NEW n \in Nat, NEW x \in [1 .. n -> Int], NEW m \in 0 .. n
  PROVE  /\ SumTo(x, 0) = 0
         /\ m < n => SumTo(x, m + 1) = SumTo(x, m) + x[m + 1]
<1>1. PICK s : PartialSums(x, n, s)
  BY PartialSumsExist
<1>2. ASSUME NEW l \in 0 .. n PROVE SumTo(x, l) = s[l]
  <2> DEFINE t == [j \in 0 .. l |-> s[j]]
  <2>1. PartialSums(x, l, t)
    BY <1>1 DEF PartialSums
  <2>2. SumTo(x, l) = t[l]
    BY <2>1, SumToIsLast
  <2> QED BY <2>2
<1>3. SumTo(x, 0) = s[0] /\ SumTo(x, m) = s[m]
  BY <1>2
<1>4. m < n => SumTo(x, m + 1) = s[m + 1]
  BY <1>2
<1> QED BY <1>1, <1>3, <1>4 DEF PartialSums

\* The sum is an integer.
LEMMA SumToType ==
  ASSUME NEW n \in Nat, NEW x \in [1 .. n -> Int]
  PROVE  SumTo(x, n) \in Int
<1>1. PICK s : PartialSums(x, n, s)
  BY PartialSumsExist
<1>2. SumTo(x, n) = s[n]
  BY <1>1, SumToIsLast
<1> QED BY <1>1, <1>2 DEF PartialSums

\* A sum of naturals is a natural.
LEMMA SumToNat ==
  ASSUME NEW n \in Nat, NEW x \in [1 .. n -> Nat]
  PROVE  SumTo(x, n) \in Nat
<1>1. x \in [1 .. n -> Int]
  OBVIOUS
<1>2. PICK s : PartialSums(x, n, s)
  BY <1>1, PartialSumsExist
<1> DEFINE S == {m \in Nat : m <= n => s[m] \in Nat}
<1>3. 0 \in S
  BY <1>2 DEF PartialSums
<1>4. ASSUME NEW m \in Nat, m \in S PROVE m + 1 \in S
  <2> SUFFICES ASSUME m + 1 <= n PROVE s[m + 1] \in Nat
    OBVIOUS
  <2>1. s[m] \in Nat /\ x[m + 1] \in Nat
    BY <1>4
  <2>2. s[m + 1] = s[m] + x[m + 1]
    BY <1>2 DEF PartialSums
  <2> QED BY <2>1, <2>2
<1>5. Nat \subseteq S
  <2> HIDE DEF S
  <2> QED BY <1>3, <1>4, SetInduction
<1>6. SumTo(x, n) = s[n]
  BY <1>1, <1>2, SumToIsLast
<1> QED BY <1>5, <1>6

\* Changing one summand by d changes the sum by d.
LEMMA SumToUpdate ==
  ASSUME NEW n \in Nat, NEW x \in [1 .. n -> Int], NEW y \in [1 .. n -> Int],
         NEW w \in 1 .. n, NEW d \in Int, y[w] = x[w] + d,
         \A m \in 1 .. n : m # w => y[m] = x[m]
  PROVE  SumTo(y, n) = SumTo(x, n) + d
<1>1. PICK s : PartialSums(x, n, s)
  BY PartialSumsExist
<1> DEFINE t == [m \in 0 .. n |-> IF m < w THEN s[m] ELSE s[m] + d]
<1>2. PartialSums(y, n, t)
  <2>1. /\ s \in [0 .. n -> Int]
        /\ s[0] = 0
        /\ \A m \in 1 .. n : s[m] = s[m - 1] + x[m]
    BY <1>1 DEF PartialSums
  <2>2. t \in [0 .. n -> Int]
    <3>1. ASSUME NEW m \in 0 .. n PROVE t[m] \in Int
      <4>1. s[m] \in Int
        BY <2>1
      <4> QED BY <4>1
    <3> QED BY <3>1
  <2>3. t[0] = 0
    <3>1. 0 < w /\ 0 \in 0 .. n
      OBVIOUS
    <3> QED BY <2>1, <3>1
  <2>4. ASSUME NEW m \in 1 .. n PROVE t[m] = t[m - 1] + y[m]
    <3>1. m \in 0 .. n /\ m - 1 \in 0 .. n
      OBVIOUS
    <3>2. s[m] \in Int /\ s[m - 1] \in Int /\ x[m] \in Int
      BY <2>1, <3>1
    <3>3. s[m] = s[m - 1] + x[m]
      BY <2>1
    <3>4. CASE m < w
      <4>1. t[m] = s[m] /\ t[m - 1] = s[m - 1] /\ y[m] = x[m]
        BY <3>1, <3>4
      <4> QED BY <3>3, <4>1
    <3>5. CASE m = w
      <4>1. t[m] = s[m] + d
        BY <3>1, <3>5
      <4>2. t[m - 1] = s[m - 1]
        BY <3>1, <3>5
      <4>3. y[m] = x[m] + d
        BY <3>5
      <4> HIDE DEF t
      <4> QED BY <3>2, <3>3, <4>1, <4>2, <4>3
    <3>6. CASE m > w
      <4>1. t[m] = s[m] + d
        BY <3>1, <3>6
      <4>2. t[m - 1] = s[m - 1] + d
        BY <3>1, <3>6
      <4>3. y[m] = x[m]
        BY <3>6
      <4> HIDE DEF t
      <4> QED BY <3>2, <3>3, <4>1, <4>2, <4>3
    <3> QED BY <3>4, <3>5, <3>6
  <2> QED BY <2>2, <2>3, <2>4 DEF PartialSums
<1>3. SumTo(x, n) = s[n]
  BY <1>1, SumToIsLast
<1>4. SumTo(y, n) = t[n]
  BY <1>2, SumToIsLast
<1>5. t[n] = s[n] + d
  OBVIOUS
<1> QED BY <1>3, <1>4, <1>5

\* The sum of equal summands that are 0 is 0.
LEMMA SumToZero ==
  ASSUME NEW n \in Nat, NEW x \in [1 .. n -> Int], \A m \in 1 .. n : x[m] = 0
  PROVE  SumTo(x, n) = 0
<1> DEFINE s == [m \in 0 .. n |-> 0]
<1>1. PartialSums(x, n, s)
  BY DEF PartialSums
<1>2. SumTo(x, n) = s[n]
  BY <1>1, SumToIsLast
<1> QED BY <1>2

\* a summands c and then as many summands -c cancel out.
LEMMA SumToBalanced ==
  ASSUME NEW a \in Nat, NEW c \in Int, NEW x \in [1 .. a + a -> Int],
         \A m \in 1 .. a + a : x[m] = IF m <= a THEN c ELSE -c
  PROVE  SumTo(x, a + a) = 0
<1> DEFINE s == [m \in 0 .. a + a |-> IF m <= a THEN m * c ELSE (a + a - m) * c]
<1>1. s \in [0 .. a + a -> Int] /\ s[0] = 0 /\ s[a + a] = 0
  <2>1. \A j \in Int : j * c \in Int
    OBVIOUS
  <2>2. 0 * c = 0
    OBVIOUS
  <2> QED BY <2>1, <2>2
<1>2. ASSUME NEW m \in 1 .. a + a PROVE s[m] = s[m - 1] + x[m]
  <2>1. \A j \in Int : j * c = (j - 1) * c + c
    OBVIOUS
  <2>2. CASE m <= a
    <3>1. s[m] = m * c /\ s[m - 1] = (m - 1) * c
      BY <2>2
    <3> QED BY <2>1, <2>2, <3>1
  <2>3. CASE m > a
    <3>1. s[m] = (a + a - m) * c /\ s[m - 1] = (a + a - (m - 1)) * c
      <4>1. CASE m - 1 = a
        BY <2>3, <4>1
      <4>2. CASE m - 1 > a
        BY <2>3, <4>2
      <4> QED BY <2>3, <4>1, <4>2
    <3>2. (a + a - (m - 1)) * c = (a + a - m) * c + c
      <4> DEFINE j == a + a - (m - 1)
      <4>1. j \in Int /\ j - 1 = a + a - m
        OBVIOUS
      <4>2. j * c = (j - 1) * c + c
        BY <2>1, <4>1
      <4> QED BY <4>1, <4>2
    <3> QED BY <2>3, <3>1, <3>2
  <2> QED BY <2>2, <2>3
<1>3. PartialSums(x, a + a, s)
  BY <1>1, <1>2 DEF PartialSums
<1>4. SumTo(x, a + a) = s[a + a]
  BY <1>3, SumToIsLast
<1> QED BY <1>1, <1>4
==============================================================================

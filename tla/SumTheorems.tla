---------------------------- MODULE SumTheorems ----------------------------
(***************************************************************************)
(* What the proofs need of sums: that the recursive function of SumTo is   *)
(* the one that is meant, and how a sum changes with its summands; and the *)
(* same of the powers of two, and what some of them add up to. The         *)
(* induction is by sets of numbers, from the least-element principle of a  *)
(* well-founded relation.                                                  *)
(***************************************************************************)
EXTENDS Sums, SequenceTheorems, WellFoundedInduction, TLAPS

\* A set of natural numbers that has 0 and with each number the next has all.
LEMMA NatBySteps ==
  ASSUME NEW S, S \subseteq Nat, 0 \in S, \A n \in Nat : n \in S => n + 1 \in S
  PROVE  S = Nat
<1> DEFINE Less == {p \in Nat \X Nat : p[1] < p[2]}
           Out == Nat \ S
<1>1. IsWellFoundedOn(Less, Nat)
  <2>1. OpToRel(<, Nat) = Less
    BY DEF OpToRel
  <2>2. QED BY <2>1, NatLessThanWellFounded
<1>2. SUFFICES ASSUME Out # {} PROVE FALSE
  OBVIOUS
<1>3. PICK x \in Out : \A y \in Out : ~(<<y, x>> \in Less)
  <2> HIDE DEF Less, Out
  <2>1. Out \subseteq Nat
    BY DEF Out
  <2>2. QED BY <1>1, <1>2, <2>1, WFMin
<1>4. x \in Nat /\ x # 0 /\ x - 1 \in Nat
  BY <1>3
<1>5. x - 1 \in Out /\ <<x - 1, x>> \in Less
  BY <1>3, <1>4
<1>6. QED BY <1>3, <1>5

-----------------------------------------------------------------------------
(* The sums of the initial segments of f up to n. *)
PartialSums(f, n) ==
    {s \in [0..n -> Int] : s[0] = 0 /\ \A k \in 1..n : s[k] = s[k - 1] + f[k - 1]}

\* There is such a function ...
LEMMA PartialSumsExist ==
  ASSUME NEW n \in Nat, NEW f, \A i \in 0..n - 1 : f[i] \in Int
  PROVE  PartialSums(f, n) # {}
<1> DEFINE S == {m \in Nat : m <= n => PartialSums(f, m) # {}}
<1>1. 0 \in S
  <2>1. [k \in 0..0 |-> 0] \in PartialSums(f, 0)
    BY DEF PartialSums
  <2>2. QED BY <2>1
<1>2. \A m \in Nat : m \in S => m + 1 \in S
  <2> SUFFICES ASSUME NEW m \in Nat, m \in S, m + 1 <= n
               PROVE  PartialSums(f, m + 1) # {}
    OBVIOUS
  <2>1. m <= n /\ PartialSums(f, m) # {}
    OBVIOUS
  <2>2. PICK s \in PartialSums(f, m) : TRUE
    BY <2>1
  <2> DEFINE t == [k \in 0..(m + 1) |-> IF k <= m THEN s[k] ELSE s[m] + f[m]]
  <2>3. s \in [0..m -> Int] /\ s[0] = 0 /\ \A k \in 1..m : s[k] = s[k - 1] + f[k - 1]
    BY <2>2 DEF PartialSums
  <2>4. s[m] + f[m] \in Int
    BY <2>1, <2>3
  <2>5. t \in [0..(m + 1) -> Int] /\ t[0] = 0
    BY <2>3, <2>4
  <2>6. ASSUME NEW k \in 1..(m + 1) PROVE t[k] = t[k - 1] + f[k - 1]
    <3>1. CASE k <= m
      BY <2>3, <3>1
    <3>2. CASE k = m + 1
      BY <3>2
    <3>3. QED BY <3>1, <3>2
  <2>7. t \in PartialSums(f, m + 1)
    BY <2>5, <2>6 DEF PartialSums
  <2>8. QED BY <2>7
<1>3. S = Nat
  <2> HIDE DEF S
  <2>1. S \subseteq Nat
    BY DEF S
  <2>2. QED BY <1>1, <1>2, <2>1, NatBySteps
<1>4. QED BY <1>3

\* ... and only one, up to where the summands agree.
LEMMA PartialSumsAgree ==
  ASSUME NEW n \in Nat, NEW m \in Nat, n <= m, NEW f, NEW g,
         \A i \in 0..n - 1 : f[i] = g[i],
         NEW s \in PartialSums(f, n), NEW t \in PartialSums(g, m)
  PROVE  s[n] = t[n]
<1> DEFINE S == {k \in Nat : k <= n => s[k] = t[k]}
<1>1. 0 \in S
  BY DEF PartialSums
<1>2. \A k \in Nat : k \in S => k + 1 \in S
  <2> SUFFICES ASSUME NEW k \in Nat, k \in S, k + 1 <= n PROVE s[k + 1] = t[k + 1]
    OBVIOUS
  <2>1. k + 1 \in 1..n /\ k + 1 \in 1..m /\ (k + 1) - 1 = k /\ k \in 0..n - 1
    OBVIOUS
  <2>2. s[k + 1] = s[k] + f[k] /\ t[k + 1] = t[k] + g[k]
    BY <2>1 DEF PartialSums
  <2>3. QED BY <2>1, <2>2
<1>3. S = Nat
  <2> HIDE DEF S
  <2>1. S \subseteq Nat
    BY DEF S
  <2>2. QED BY <1>1, <1>2, <2>1, NatBySteps
<1>4. QED BY <1>3

\* SumTo is the last of them.
LEMMA SumIsPartial ==
  ASSUME NEW n \in Nat, NEW f, \A i \in 0..n - 1 : f[i] \in Int
  PROVE  \E s \in PartialSums(f, n) : SumTo(f, n) = s[n]
<1> DEFINE e(s) == [k \in 0..n |-> IF k = 0 THEN 0 ELSE s[k - 1] + f[k - 1]]
           g == CHOOSE s : s = e(s)
<1>1. PICK s \in PartialSums(f, n) : TRUE
  BY PartialSumsExist
<1>2. s \in [0..n -> Int] /\ s[0] = 0 /\ \A k \in 1..n : s[k] = s[k - 1] + f[k - 1]
  BY <1>1 DEF PartialSums
<1>3. s = e(s)
  BY <1>2
<1>4. g = e(g)
  BY <1>3
<1>5. \A k \in 0..n : g[k] = IF k = 0 THEN 0 ELSE g[k - 1] + f[k - 1]
  BY <1>4
<1>8. SumTo(f, n) = g[n]
  BY DEF SumTo
<1> HIDE DEF g
<1> DEFINE S == {k \in Nat : k <= n => g[k] = s[k]}
<1>6. S = Nat
  <2>1. 0 \in S
    BY <1>2, <1>5
  <2>2. ASSUME NEW k \in Nat, k \in S PROVE k + 1 \in S
    <3> SUFFICES ASSUME k + 1 <= n PROVE g[k + 1] = s[k + 1]
      OBVIOUS
    <3>1. k + 1 \in 0..n /\ k + 1 \in 1..n /\ k + 1 # 0 /\ (k + 1) - 1 = k
      OBVIOUS
    <3>2. g[k] = s[k]
      BY <2>2
    <3>3. QED BY <1>2, <1>5, <3>1, <3>2
  <2> HIDE DEF S
  <2>3. S \subseteq Nat
    BY DEF S
  <2>4. QED BY <2>1, <2>2, <2>3, NatBySteps
<1>7. g[n] = s[n]
  BY <1>6
<1>9. QED BY <1>1, <1>7, <1>8

-----------------------------------------------------------------------------
(* How to reckon with sums. *)

\* The empty sum, and a sum with one summand more.
LEMMA SumStep ==
  ASSUME NEW f
  PROVE  /\ SumTo(f, 0) = 0
         /\ \A n \in Nat : (\A i \in 0..n : f[i] \in Int) =>
                SumTo(f, n) \in Int /\ SumTo(f, n + 1) = SumTo(f, n) + f[n]
<1>1. SumTo(f, 0) = 0
  <2>1. \E s \in PartialSums(f, 0) : SumTo(f, 0) = s[0]
    BY SumIsPartial
  <2>2. QED BY <2>1 DEF PartialSums
<1>2. ASSUME NEW n \in Nat, \A i \in 0..n : f[i] \in Int
      PROVE  SumTo(f, n) \in Int /\ SumTo(f, n + 1) = SumTo(f, n) + f[n]
  <2>1. PICK s \in PartialSums(f, n) : SumTo(f, n) = s[n]
    BY <1>2, SumIsPartial
  <2>2. PICK t \in PartialSums(f, n + 1) : SumTo(f, n + 1) = t[n + 1]
    BY <1>2, SumIsPartial
  <2>3. t \in PartialSums(f, n + 1) /\ t[n + 1] = t[n] + f[n]
    BY <2>2 DEF PartialSums
  <2>4. s[n] = t[n]
    BY <2>1, <2>2, PartialSumsAgree
  <2>5. s[n] \in Int
    BY <2>1 DEF PartialSums
  <2>6. QED BY <2>1, <2>2, <2>3, <2>4, <2>5
<1>3. QED BY <1>1, <1>2

\* A sum of integers is one.
LEMMA SumInt ==
  ASSUME NEW n \in Nat, NEW f, \A i \in 0..n - 1 : f[i] \in Int
  PROVE  SumTo(f, n) \in Int
<1>1. PICK s \in PartialSums(f, n) : SumTo(f, n) = s[n]
  BY SumIsPartial
<1>2. QED BY <1>1 DEF PartialSums

\* A sum depends on its summands only.
LEMMA SumSame ==
  ASSUME NEW n \in Nat, NEW f, NEW g,
         \A i \in 0..n - 1 : f[i] \in Int /\ g[i] = f[i]
  PROVE  SumTo(g, n) = SumTo(f, n)
<1>1. PICK s \in PartialSums(f, n) : SumTo(f, n) = s[n]
  BY SumIsPartial
<1>2. PICK t \in PartialSums(g, n) : SumTo(g, n) = t[n]
  BY SumIsPartial
<1>3. QED BY <1>1, <1>2, PartialSumsAgree

\* n summands that are all c.
LEMMA SumOfEqual ==
  ASSUME NEW n \in Nat, NEW c \in Int, NEW f, \A i \in 0..n - 1 : f[i] = c
  PROVE  SumTo(f, n) = n * c
<1> DEFINE S == {m \in Nat : m <= n => SumTo(f, m) = m * c}
<1>1. 0 \in S
  BY SumStep
<1>2. ASSUME NEW m \in Nat, m \in S PROVE m + 1 \in S
  <2> SUFFICES ASSUME m + 1 <= n PROVE SumTo(f, m + 1) = (m + 1) * c
    OBVIOUS
  <2>1. \A i \in 0..m : f[i] = c /\ f[i] \in Int
    OBVIOUS
  <2>2. SumTo(f, m + 1) = SumTo(f, m) + f[m]
    BY <2>1, SumStep
  <2>3. (m + 1) * c = m * c + c /\ m * c \in Int
    OBVIOUS
  <2>4. QED BY <1>2, <2>1, <2>2, <2>3
<1>3. S = Nat
  <2> HIDE DEF S
  <2>1. S \subseteq Nat
    BY DEF S
  <2>2. QED BY <1>1, <1>2, <2>1, NatBySteps
<1>4. QED BY <1>3

\* If one summand changes, the sum changes by as much.
LEMMA SumChange ==
  ASSUME NEW n \in Nat, NEW f, NEW g, NEW p \in 0..n - 1,
         \A i \in 0..n - 1 : f[i] \in Int /\ g[i] \in Int,
         \A i \in 0..n - 1 : i # p => g[i] = f[i]
  PROVE  SumTo(g, n) = SumTo(f, n) + (g[p] - f[p])
<1> DEFINE d(m) == IF p < m THEN g[p] - f[p] ELSE 0
           S == {m \in Nat : m <= n => SumTo(g, m) = SumTo(f, m) + d(m)}
<1>1. 0 \in S
  <2>1. SumTo(f, 0) = 0 /\ SumTo(g, 0) = 0
    BY SumStep
  <2>2. QED BY <2>1
<1>2. ASSUME NEW m \in Nat, m \in S PROVE m + 1 \in S
  <2> SUFFICES ASSUME m + 1 <= n PROVE SumTo(g, m + 1) = SumTo(f, m + 1) + d(m + 1)
    OBVIOUS
  <2>1. m \in 0..n - 1 /\ \A i \in 0..m : i \in 0..n - 1
    OBVIOUS
  <2>2. SumTo(f, m) \in Int /\ SumTo(f, m + 1) = SumTo(f, m) + f[m]
    BY <2>1, SumStep
  <2>3. SumTo(g, m) \in Int /\ SumTo(g, m + 1) = SumTo(g, m) + g[m]
    BY <2>1, SumStep
  <2>4. SumTo(g, m) = SumTo(f, m) + d(m)
    BY <1>2, <2>1
  <2>5. f[m] \in Int /\ g[m] \in Int /\ f[p] \in Int /\ g[p] \in Int
    BY <2>1
  <2>6. CASE m = p
    BY <2>2, <2>3, <2>4, <2>5, <2>6
  <2>7. CASE m # p
    <3>1. g[m] = f[m] /\ (p < m + 1 <=> p < m)
      BY <2>1, <2>7
    <3>2. QED BY <2>2, <2>3, <2>4, <2>5, <3>1
  <2>8. QED BY <2>6, <2>7
<1>3. S = Nat
  <2> HIDE DEF S
  <2>1. S \subseteq Nat
    BY DEF S
  <2>2. QED BY <1>1, <1>2, <2>1, NatBySteps
<1>4. QED BY <1>3

\* A sum can be taken in two parts.
LEMMA SumInParts ==
  ASSUME NEW a \in Nat, NEW b \in Nat, NEW f, NEW g,
         \A i \in 0..a + b - 1 : f[i] \in Int,
         \A i \in 0..b - 1 : g[i] = f[a + i]
  PROVE  SumTo(f, a + b) = SumTo(f, a) + SumTo(g, b)
<1> DEFINE S == {m \in Nat : m <= b => SumTo(f, a + m) = SumTo(f, a) + SumTo(g, m)}
<1>1. SumTo(f, a) \in Int
  BY SumInt
<1>2. 0 \in S
  <2>1. SumTo(g, 0) = 0
    BY SumStep
  <2>2. QED BY <1>1, <2>1
<1>3. ASSUME NEW m \in Nat, m \in S PROVE m + 1 \in S
  <2> SUFFICES ASSUME m + 1 <= b
               PROVE  SumTo(f, a + (m + 1)) = SumTo(f, a) + SumTo(g, m + 1)
    OBVIOUS
  <2>1. \A i \in 0..m : i \in 0..b - 1 /\ a + i \in 0..a + b - 1 /\ g[i] = f[a + i]
    OBVIOUS
  <2>2. \A i \in 0..a + m : f[i] \in Int
    OBVIOUS
  <2>3. SumTo(f, a + m) \in Int /\ SumTo(f, (a + m) + 1) = SumTo(f, a + m) + f[a + m]
    BY <2>2, SumStep, a + m \in Nat
  <2>4. \A i \in 0..m : g[i] \in Int
    BY <2>1, <2>2
  <2>5. SumTo(g, m) \in Int /\ SumTo(g, m + 1) = SumTo(g, m) + g[m]
    BY <2>4, SumStep
  <2>6. g[m] = f[a + m] /\ f[a + m] \in Int /\ (a + m) + 1 = a + (m + 1)
    BY <2>1, <2>2
  <2>7. SumTo(f, a + m) = SumTo(f, a) + SumTo(g, m)
    BY <1>3
  <2>8. QED BY <1>1, <2>3, <2>5, <2>6, <2>7
<1>4. S = Nat
  <2> HIDE DEF S
  <2>1. S \subseteq Nat
    BY DEF S
  <2>2. QED BY <1>2, <1>3, <2>1, NatBySteps
<1>5. QED BY <1>4

-----------------------------------------------------------------------------
(* n elements are shared out among k: everyone gets n \div k of them, and   *)
(* the first n % k one more.                                                 *)
Shares(n, k) == [i \in 0..k - 1 |-> IF i < n % k THEN n \div k + 1 ELSE n \div k]

\* The shares add up to n, and before each there are so many.
LEMMA SharesAddUp ==
  ASSUME NEW n \in Nat, NEW k \in Nat \ {0}
  PROVE  /\ \A i \in 0..k - 1 : Shares(n, k)[i] \in Nat
         /\ \A i \in 0..k : SumTo(Shares(n, k), i) \in 0..n
         /\ SumTo(Shares(n, k), k) = n
<1> DEFINE q == n \div k
           r == n % k
           before(i) == i * q + (IF i < r THEN i ELSE r)
           S == {i \in Nat : i <= k => SumTo(Shares(n, k), i) = before(i)}
<1>1. q \in Nat /\ r \in 0..k - 1 /\ n = k * q + r
  OBVIOUS
<1>2. \A i \in 0..k - 1 : Shares(n, k)[i] = (IF i < r THEN q + 1 ELSE q) /\ Shares(n, k)[i] \in Nat
  BY <1>1 DEF Shares
<1> HIDE DEF q, r
<1>3. 0 \in S
  <2>1. SumTo(Shares(n, k), 0) = 0 /\ before(0) = 0
    BY <1>1, SumStep
  <2>2. QED BY <2>1
<1>4. ASSUME NEW i \in Nat, i \in S PROVE i + 1 \in S
  <2> SUFFICES ASSUME i + 1 <= k PROVE SumTo(Shares(n, k), i + 1) = before(i + 1)
    OBVIOUS
  <2>1. \A j \in 0..i : j \in 0..k - 1 /\ Shares(n, k)[j] \in Int
    BY <1>2
  <2>2. SumTo(Shares(n, k), i + 1) = SumTo(Shares(n, k), i) + Shares(n, k)[i]
    BY <2>1, SumStep
  <2>3. SumTo(Shares(n, k), i) = before(i)
    BY <1>4
  <2>4. (i + 1) * q = i * q + q /\ i * q \in Nat
    BY <1>1
  <2>5. QED BY <1>1, <1>2, <2>1, <2>2, <2>3, <2>4
<1>5. S = Nat
  <2> HIDE DEF S
  <2>1. S \subseteq Nat
    BY DEF S
  <2>2. QED BY <1>3, <1>4, <2>1, NatBySteps
<1>6. ASSUME NEW i \in 0..k PROVE SumTo(Shares(n, k), i) = before(i) /\ before(i) \in 0..n
  <2>1. i \in Nat /\ i <= k
    OBVIOUS
  <2>2. SumTo(Shares(n, k), i) = before(i)
    BY <1>5, <2>1
  <2>3. i * q \in Nat /\ i * q <= k * q /\ k * q \in Nat
    BY <1>1, <2>1
  <2>4. QED BY <1>1, <2>1, <2>2, <2>3
<1>7. before(k) = n
  BY <1>1
<1>8. QED BY <1>2, <1>6, <1>7

-----------------------------------------------------------------------------
\* The sum of a sequence grows with what is appended, and shrinks with what is taken off.
LEMMA SumOfChanges ==
  ASSUME NEW s \in Seq(Int)
  PROVE  /\ SumOf(s) \in Int
         /\ s = <<>> => SumOf(s) = 0
         /\ \A x \in Int : SumOf(Append(s, x)) = SumOf(s) + x
         /\ s # <<>> => SumOf(s) = Head(s) + SumOf(Tail(s))
<1> DEFINE at(t) == [i \in 0..Len(t) - 1 |-> t[i + 1]]
<1>1. Len(s) \in Nat /\ \A i \in 0..Len(s) - 1 : at(s)[i] \in Int
  OBVIOUS
<1>2. SumOf(s) \in Int
  BY <1>1, SumInt DEF SumOf
<1>3. ASSUME s = <<>> PROVE SumOf(s) = 0
  <2>1. Len(s) = 0
    BY <1>3
  <2>2. QED BY <2>1, SumStep DEF SumOf
<1>4. ASSUME NEW x \in Int PROVE SumOf(Append(s, x)) = SumOf(s) + x
  <2> DEFINE t == Append(s, x)
  <2>1. t \in Seq(Int) /\ Len(t) = Len(s) + 1 /\ t[Len(s) + 1] = x
        /\ \A i \in 1..Len(s) : t[i] = s[i]
    BY AppendProperties
  <2> HIDE DEF t
  <2>2. \A i \in 0..Len(s) : at(t)[i] \in Int
    BY <2>1
  <2>3. SumTo(at(t), Len(s) + 1) = SumTo(at(t), Len(s)) + at(t)[Len(s)]
    BY <1>1, <2>2, SumStep
  <2>4. SumTo(at(t), Len(s)) = SumTo(at(s), Len(s))
    <3>1. \A i \in 0..Len(s) - 1 : at(t)[i] = at(s)[i]
      BY <1>1, <2>1
    <3>2. QED BY <1>1, <3>1, SumSame
  <2>5. at(t)[Len(s)] = x
    BY <1>1, <2>1
  <2>6. SumOf(t) = SumTo(at(t), Len(s) + 1) /\ SumOf(s) = SumTo(at(s), Len(s))
    BY <2>1 DEF SumOf
  <2>7. QED BY <2>3, <2>4, <2>5, <2>6 DEF t
<1>5. ASSUME s # <<>> PROVE SumOf(s) = Head(s) + SumOf(Tail(s))
  <2> DEFINE t == Tail(s)
  <2>1. /\ t \in Seq(Int) /\ Len(s) = 1 + Len(t) /\ Len(t) \in Nat
        /\ Head(s) = s[1] /\ s[1] \in Int
        /\ \A i \in 1..Len(t) : t[i] = s[i + 1]
    BY <1>5
  <2> HIDE DEF t
  <2>2. \A i \in 0..1 + Len(t) - 1 : at(s)[i] \in Int
    BY <1>1, <2>1
  <2>3. \A i \in 0..Len(t) - 1 : at(t)[i] = at(s)[1 + i]
    BY <2>1
  <2>4. SumTo(at(s), 1 + Len(t)) = SumTo(at(s), 1) + SumTo(at(t), Len(t))
    <3> DEFINE f == at(s)
               g == at(t)
    <3>1. (\A i \in 0..1 + Len(t) - 1 : f[i] \in Int) /\ (\A i \in 0..Len(t) - 1 : g[i] = f[1 + i])
      BY <2>2, <2>3
    <3> HIDE DEF f, g
    <3>2. SumTo(f, 1 + Len(t)) = SumTo(f, 1) + SumTo(g, Len(t))
      BY <2>1, <3>1, SumInParts, 1 \in Nat
    <3>3. QED BY <3>2 DEF f, g
  <2>5. SumTo(at(s), 1) = s[1]
    <3>1. \A i \in 0..0 : at(s)[i] \in Int
      BY <2>1, <2>2
    <3>2. SumTo(at(s), 0) = 0 /\ SumTo(at(s), 0 + 1) = SumTo(at(s), 0) + at(s)[0]
      BY <3>1, SumStep
    <3>3. at(s)[0] = s[1]
      BY <2>1
    <3>4. QED BY <2>1, <3>2, <3>3
  <2>6. QED BY <2>1, <2>4, <2>5 DEF SumOf, t
<1>6. QED BY <1>2, <1>3, <1>4, <1>5

-----------------------------------------------------------------------------
(* The powers of two up to n. *)
Doublings(n) == {d \in [0..n -> Nat] : d[0] = 1 /\ \A k \in 1..n : d[k] = 2 * d[k - 1]}

\* There are such functions.
LEMMA DoublingsExist == ASSUME NEW n \in Nat PROVE Doublings(n) # {}
<1> DEFINE S == {m \in Nat : Doublings(m) # {}}
<1>1. 0 \in S
  <2>1. [k \in 0..0 |-> 1] \in Doublings(0)
    BY DEF Doublings
  <2>2. QED BY <2>1
<1>2. ASSUME NEW m \in Nat, m \in S PROVE m + 1 \in S
  <2>1. PICK d \in Doublings(m) : TRUE
    BY <1>2
  <2>2. d \in [0..m -> Nat] /\ d[0] = 1 /\ \A k \in 1..m : d[k] = 2 * d[k - 1]
    BY <2>1 DEF Doublings
  <2> DEFINE e == [k \in 0..(m + 1) |-> IF k <= m THEN d[k] ELSE 2 * d[m]]
  <2>3. e \in [0..(m + 1) -> Nat] /\ e[0] = 1
    BY <2>2
  <2>4. ASSUME NEW k \in 1..(m + 1) PROVE e[k] = 2 * e[k - 1]
    <3>1. CASE k <= m
      BY <2>2, <3>1
    <3>2. CASE k = m + 1
      BY <3>2
    <3>3. QED BY <3>1, <3>2
  <2>5. e \in Doublings(m + 1)
    BY <2>3, <2>4 DEF Doublings
  <2>6. QED BY <2>5
<1>3. S = Nat
  <2> HIDE DEF S
  <2>1. S \subseteq Nat
    BY DEF S
  <2>2. QED BY <1>1, <1>2, <2>1, NatBySteps
<1>4. QED BY <1>3

\* TwoTo is read off any of them that is long enough.
LEMMA TwoToIsDoubling ==
  ASSUME NEW n \in Nat, NEW m \in Nat, n <= m, NEW d \in Doublings(m)
  PROVE  TwoTo(n) = d[n]
<1> DEFINE e(s) == [k \in 0..n |-> IF k = 0 THEN 1 ELSE 2 * s[k - 1]]
           g == CHOOSE s : s = e(s)
<1>1. PICK s \in Doublings(n) : TRUE
  BY DoublingsExist
<1>2. s \in [0..n -> Nat] /\ s[0] = 1 /\ \A k \in 1..n : s[k] = 2 * s[k - 1]
  BY <1>1 DEF Doublings
<1>3. s = e(s)
  BY <1>2
<1>4. g = e(g)
  BY <1>3
<1>5. \A k \in 0..n : g[k] = IF k = 0 THEN 1 ELSE 2 * g[k - 1]
  BY <1>4
<1>6. TwoTo(n) = g[n]
  BY DEF TwoTo
<1>7. d[0] = 1 /\ \A k \in 1..m : d[k] = 2 * d[k - 1]
  BY DEF Doublings
<1> HIDE DEF g
<1> DEFINE S == {k \in Nat : k <= n => g[k] = d[k]}
<1>8. S = Nat
  <2>1. 0 \in S
    BY <1>5, <1>7
  <2>2. ASSUME NEW k \in Nat, k \in S PROVE k + 1 \in S
    <3> SUFFICES ASSUME k + 1 <= n PROVE g[k + 1] = d[k + 1]
      OBVIOUS
    <3>1. k + 1 \in 0..n /\ k + 1 \in 1..m /\ k + 1 # 0 /\ (k + 1) - 1 = k
      OBVIOUS
    <3>2. g[k] = d[k]
      BY <2>2
    <3>3. QED BY <1>5, <1>7, <3>1, <3>2
  <2> HIDE DEF S
  <2>3. S \subseteq Nat
    BY DEF S
  <2>4. QED BY <2>1, <2>2, <2>3, NatBySteps
<1>9. QED BY <1>6, <1>8

\* The first power, and each from the one before.
LEMMA TwoToStep ==
  /\ TwoTo(0) = 1
  /\ \A n \in Nat : TwoTo(n) \in Nat /\ TwoTo(n + 1) = 2 * TwoTo(n)
<1>1. TwoTo(0) = 1
  <2>1. PICK d \in Doublings(0) : TRUE
    BY DoublingsExist, 0 \in Nat
  <2>2. TwoTo(0) = d[0]
    BY <2>1, TwoToIsDoubling, 0 \in Nat
  <2>3. QED BY <2>2 DEF Doublings
<1>2. ASSUME NEW n \in Nat PROVE TwoTo(n) \in Nat /\ TwoTo(n + 1) = 2 * TwoTo(n)
  <2>1. PICK d \in Doublings(n + 1) : TRUE
    BY DoublingsExist
  <2>2. TwoTo(n) = d[n] /\ TwoTo(n + 1) = d[n + 1]
    BY <2>1, TwoToIsDoubling
  <2>3. d[n] \in Nat /\ d[n + 1] = 2 * d[n]
    BY <2>1 DEF Doublings
  <2>4. QED BY <2>2, <2>3
<1>3. QED BY <1>1, <1>2

\* All of them below n add up to one less than the next.
LEMMA TwosAddUp ==
  ASSUME NEW n \in Nat, NEW f, \A i \in 0..n - 1 : f[i] = TwoTo(i)
  PROVE  SumTo(f, n) = TwoTo(n) - 1
<1> DEFINE S == {m \in Nat : m <= n => SumTo(f, m) = TwoTo(m) - 1}
<1>1. 0 \in S
  BY SumStep, TwoToStep
<1>2. ASSUME NEW m \in Nat, m \in S PROVE m + 1 \in S
  <2> SUFFICES ASSUME m + 1 <= n PROVE SumTo(f, m + 1) = TwoTo(m + 1) - 1
    OBVIOUS
  <2>1. \A i \in 0..m : f[i] = TwoTo(i) /\ f[i] \in Int
    BY TwoToStep
  <2>2. SumTo(f, m + 1) = SumTo(f, m) + f[m]
    BY <2>1, SumStep
  <2>3. SumTo(f, m) = TwoTo(m) - 1 /\ f[m] = TwoTo(m)
    BY <1>2, <2>1
  <2>4. QED BY <2>2, <2>3, TwoToStep
<1>3. S = Nat
  <2> HIDE DEF S
  <2>1. S \subseteq Nat
    BY DEF S
  <2>2. QED BY <1>1, <1>2, <2>1, NatBySteps
<1>4. QED BY <1>3

\* Without the one at 3, which is 8, n of them add up to so much less.
LEMMA TwosWithoutAdd ==
  ASSUME NEW n \in Nat, n >= 3, NEW f,
         \A i \in 0..n - 1 : f[i] = TwoTo(IF i < 3 THEN i ELSE i + 1)
  PROVE  SumTo(f, n) = TwoTo(n + 1) - 9
<1> DEFINE S == {m \in Nat : m + 3 <= n => SumTo(f, m + 3) = TwoTo(m + 4) - 9}
<1>1. 0 \in S
  <2>1. TwoTo(0) = 1 /\ TwoTo(0 + 1) = 2 /\ TwoTo(1 + 1) = 4 /\ TwoTo(2 + 1) = 8 /\ TwoTo(3 + 1) = 16
    BY TwoToStep
  <2>2. \A i \in 0..3 - 1 : f[i] = TwoTo(i)
    OBVIOUS
  <2>3. SumTo(f, 3) = TwoTo(3) - 1
    BY <2>2, TwosAddUp, 3 \in Nat
  <2>4. QED BY <2>1, <2>3
<1>2. ASSUME NEW m \in Nat, m \in S PROVE m + 1 \in S
  <2> SUFFICES ASSUME m + 4 <= n PROVE SumTo(f, (m + 3) + 1) = TwoTo((m + 4) + 1) - 9
    OBVIOUS
  <2>1. \A i \in 0..m + 3 : f[i] = TwoTo(IF i < 3 THEN i ELSE i + 1) /\ f[i] \in Int
    BY TwoToStep
  <2>2. SumTo(f, (m + 3) + 1) = SumTo(f, m + 3) + f[m + 3]
    BY <2>1, SumStep, m + 3 \in Nat
  <2>3. SumTo(f, m + 3) = TwoTo(m + 4) - 9 /\ f[m + 3] = TwoTo(m + 4)
    BY <1>2, <2>1
  <2>4. QED BY <2>2, <2>3, TwoToStep, m + 4 \in Nat
<1>3. S = Nat
  <2> HIDE DEF S
  <2>1. S \subseteq Nat
    BY DEF S
  <2>2. QED BY <1>1, <1>2, <2>1, NatBySteps
<1>4. PICK m \in Nat : m + 3 = n /\ m + 4 = n + 1
  <2>1. n - 3 \in Nat /\ (n - 3) + 3 = n /\ (n - 3) + 4 = n + 1
    OBVIOUS
  <2>2. QED BY <2>1
<1>5. m \in S
  BY <1>3
<1>6. QED BY <1>4, <1>5
=============================================================================

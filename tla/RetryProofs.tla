----------------------------- MODULE RetryProofs -----------------------------
(* Theorems about Retry, for durations of any width, any numbers of        *)
(* attempts and any delays.                                                *)
EXTENDS Retry, FiniteSetTheorems, WellFoundedInduction, FunctionTheorems, TLAPS

(* What the invariants need to know of the loop besides its types.         *)

ExactAt(n) == n = 1 \/ 2 ^ (n - 2) * cfg.BaseDelay <= MaxInt
HasDelays == 0 \notin {cfg.BaseDelay, cfg.MaxDelay}

LoopInv ==
    /\ pc # "done" => result = "none"
    /\ pc = "wait" => attempt < cfg.MaxAttempts
    /\ pc = "call" \/ result \in {"nil", "exhausted"} => left = 0

\* After a late call the timer cannot fire any more.
CancelInv ==
    /\ ~cancelled => late = 0
    /\ StopsEarly
    /\ pc = "wait" /\ late > 0 /\ HasDelays /\ ExactAt(attempt + 1) => left > 0

WaitInv ==
    /\ WaitsAddUp
    /\ pc = "wait" /\ ExactAt(attempt + 1) =>
           waited + left = Schedule(cfg)[attempt + 1]

RetryInv == TypeOK /\ LoopInv /\ CancelInv /\ WaitInv

-----------------------------------------------------------------------------
(* Induction over the naturals, as the existence of a least element.       *)

\* A set of naturals that is not empty has a least element.
LEMMA LeastElement ==
    ASSUME NEW S \in SUBSET Nat, S # {}
    PROVE  \E x \in S : \A y \in S : x <= y
  <1> DEFINE R == OpToRel(<, Nat)
  <1>1. IsWellFoundedOn(R, Nat)
    BY NatLessThanWellFounded
  <1>2. \A x, y \in Nat : <<x, y>> \in R <=> x < y
    BY DEF OpToRel
  <1> HIDE DEF R
  <1>3. PICK x \in S : \A y \in S : <<y, x>> \notin R
    BY <1>1, WFMin, Zenon
  <1>4. x \in Nat /\ \A y \in S : y \in Nat
    OBVIOUS
  <1>5. \A y \in S : ~ (y < x)
    BY <1>2, <1>3, <1>4
  <1> QED
    BY <1>4, <1>5

\* A set that contains zero and, with a natural, the next one contains
\* every natural.
LEMMA ByInduction ==
    ASSUME NEW S, 0 \in S, \A n \in Nat : n \in S => n + 1 \in S
    PROVE  Nat \subseteq S
  <1> DEFINE Others == Nat \ S
  <1>1. SUFFICES ASSUME Others # {}
                 PROVE  FALSE
    OBVIOUS
  <1>2. PICK x \in Others : \A y \in Others : x <= y
    BY <1>1, LeastElement
  <1>3. x \in Nat /\ x # 0 /\ x \notin S
    BY <1>2
  <1>4. x - 1 \in Nat /\ ~ (x <= x - 1) /\ (x - 1) + 1 = x
    BY <1>3
  <1>5. x - 1 \in S
    BY <1>2, <1>4
  <1> QED
    BY <1>3, <1>4, <1>5

-----------------------------------------------------------------------------
(* Powers of two, as the numbers of subsets of an interval.                *)

LEMMA SubsetsOfInterval ==
    ASSUME NEW n \in Nat
    PROVE  /\ IsFiniteSet(SUBSET (1 .. n))
           /\ Cardinality(SUBSET (1 .. n)) = 2 ^ n
           /\ Cardinality(SUBSET (1 .. n)) \in Nat
  <1>1. IsFiniteSet(1 .. n) /\ Cardinality(1 .. n) = n
    BY FS_Interval
  <1>2. IsFiniteSet(SUBSET (1 .. n)) /\ Cardinality(SUBSET (1 .. n)) = 2 ^ n
    BY <1>1, FS_SUBSET
  <1> QED
    BY <1>2, FS_CardinalityType

LEMMA PowerIsPositive ==
    ASSUME NEW n \in Nat
    PROVE  2 ^ n \in Nat \ {0}
  <1>1. {} \in SUBSET (1 .. n)
    OBVIOUS
  <1>2. Cardinality(SUBSET (1 .. n)) # 0
    BY <1>1, SubsetsOfInterval, FS_EmptySet
  <1> QED
    BY <1>2, SubsetsOfInterval

\* Half of the subsets of 1 .. n + 1 contain n + 1.
LEMMA PowerDoubles ==
    ASSUME NEW n \in Nat
    PROVE  2 ^ (n + 1) = 2 * 2 ^ n
  <1> DEFINE A == SUBSET (1 .. n)
             B == {x \cup {n + 1} : x \in A}
             C == SUBSET (1 .. (n + 1))
             f == [x \in A |-> x \cup {n + 1}]
  <1>1. C = A \cup B
    <2>1. ASSUME NEW x \in C
          PROVE  x \in A \cup B
      <3>1. CASE n + 1 \notin x
        BY <3>1
      <3>2. CASE n + 1 \in x
        <4>1. x \ {n + 1} \in A
          BY <3>2
        <4>2. x = (x \ {n + 1}) \cup {n + 1}
          BY <3>2
        <4> QED
          BY <4>1, <4>2
      <3> QED
        BY <3>1, <3>2
    <2>2. A \subseteq C
      OBVIOUS
    <2>3. B \subseteq C
      <3>1. \A x \in A : x \cup {n + 1} \in C
        OBVIOUS
      <3> QED
        BY <3>1
    <2> HIDE DEF A, B, C
    <2> QED
      BY <2>1, <2>2, <2>3
  <1>2. A \cap B = {}
    <2>1. \A x \in B : n + 1 \in x
      OBVIOUS
    <2>2. \A x \in A : n + 1 \notin x
      OBVIOUS
    <2> QED
      BY <2>1, <2>2
  <1>3. f \in Bijection(A, B)
    <2>1. f \in [A -> B]
      OBVIOUS
    <2>2. ASSUME NEW x \in A, NEW y \in A, f[x] = f[y]
          PROVE  x = y
      <3>1. n + 1 \notin x /\ n + 1 \notin y
        OBVIOUS
      <3>2. x \cup {n + 1} = y \cup {n + 1}
        BY <2>2
      <3> QED
        BY <3>1, <3>2
    <2>3. \A y \in B : \E x \in A : f[x] = y
      OBVIOUS
    <2> HIDE DEF A, B, f
    <2> QED
      BY <2>1, <2>2, <2>3, Fun_IsBij
  <1>4. IsFiniteSet(A) /\ Cardinality(A) = 2 ^ n /\ Cardinality(A) \in Nat
    BY SubsetsOfInterval
  <1>5. Cardinality(C) = 2 ^ (n + 1)
    <2>1. n + 1 \in Nat
      OBVIOUS
    <2>2. Cardinality(SUBSET (1 .. (n + 1))) = 2 ^ (n + 1)
      BY <2>1, SubsetsOfInterval
    <2> QED
      BY <2>2
  <1>6. ExistsBijection(A, B)
    BY <1>3, Zenon DEF ExistsBijection
  <1> HIDE DEF A, B, C, f
  <1>7. IsFiniteSet(B) /\ Cardinality(B) = Cardinality(A)
    BY <1>4, <1>6, FS_Bijection
  <1>8. Cardinality(A \cup B)
            = Cardinality(A) + Cardinality(B) - Cardinality(A \cap B)
    BY <1>4, <1>7, FS_Union
  <1>9. Cardinality(A \cap B) = 0
    BY <1>2, FS_EmptySet
  <1> DEFINE a == Cardinality(A)
             b == Cardinality(B)
             both == Cardinality(A \cap B)
             c == Cardinality(C)
  <1>10. a \in Nat /\ 2 ^ n = a /\ c = 2 ^ (n + 1)
    BY <1>4, <1>5
  <1>11. b = a /\ both = 0
    BY <1>7, <1>9
  <1>12. c = a + b - both
    BY <1>1, <1>8
  <1> HIDE DEF a, b, both, c
  <1>13. c = 2 * a
    BY <1>10, <1>11, <1>12
  <1> QED
    BY <1>10, <1>13

-----------------------------------------------------------------------------
(* Durations.                                                              *)

LEMMA IntegerRange ==
    /\ MaxInt \in Nat
    /\ MinInt = -MaxInt - 1
    /\ 2 ^ Width = 2 * (MaxInt + 1)
  <1> DEFINE half == 2 ^ (Width - 1)
  <1>1. Width - 1 \in Nat /\ (Width - 1) + 1 = Width
    BY ConstantsAssumption
  <1>2. half \in Nat \ {0} /\ 2 ^ ((Width - 1) + 1) = 2 * half
    BY <1>1, PowerIsPositive, PowerDoubles
  <1>3. 2 ^ Width = 2 * half
    BY <1>1, <1>2
  <1>4. MaxInt = half - 1 /\ MinInt = -half
    BY DEF MaxInt, MinInt
  <1> HIDE DEF half
  <1> QED
    BY <1>2, <1>3, <1>4

\* Wrapping gives an integer, and changes none that is in range.
LEMMA WrapInRange ==
    ASSUME NEW x \in Int
    PROVE  /\ Wrap(x) \in Int
           /\ x \in 0 .. MaxInt => Wrap(x) = x
  <1> DEFINE m == MaxInt
             w == 2 ^ Width
             y == x - MinInt
  <1>1. m \in Nat /\ MinInt = -m - 1 /\ w = 2 * (m + 1)
    BY IntegerRange
  <1>2. Wrap(x) = (y % w) + MinInt
    BY DEF Wrap
  <1>3. y \in Int /\ y = x + m + 1
    <2> HIDE DEF m, w
    <2> QED
      BY <1>1
  <1> HIDE DEF m, w, y
  <1>4. y % w \in Int
    BY <1>1, <1>3
  <1>5. x \in 0 .. m => y % w = y
    BY <1>1, <1>3
  <1> QED
    BY <1>1, <1>2, <1>3, <1>4, <1>5 DEF m

\* The delays of a Config are naturals in range.
LEMMA ConfigInRange ==
    ASSUME NEW c \in Configs
    PROVE  /\ c.MaxAttempts \in Nat
           /\ c.BaseDelay \in 0 .. MaxInt
           /\ c.MaxDelay \in 0 .. MaxInt
           /\ c.BaseDelay \in Nat /\ c.MaxDelay \in Nat
           /\ MaxInt \in Nat
  <1>1. c.MaxAttempts \in Attempts /\ c.BaseDelay \in Delays /\ c.MaxDelay \in Delays
    BY DEF Configs
  <1>2. c.MaxAttempts \in Nat /\ c.BaseDelay \in 0 .. MaxInt /\ c.MaxDelay \in 0 .. MaxInt
    BY <1>1, ConstantsAssumption
  <1>3. MaxInt \in Nat
    BY IntegerRange
  <1> QED
    BY <1>2, <1>3

\* The delay the schedule adds after attempt i.
DocumentedDelay(c, i) == Least(2 ^ (i - 1) * c.BaseDelay, c.MaxDelay)

\* A product of naturals, and its growth from one power to the next.
LEMMA Products ==
    ASSUME NEW a \in Nat, NEW b \in Nat
    PROVE  /\ a * b \in Nat
           /\ a * b <= (2 * a) * b
           /\ b # 0 => a <= a * b
  OBVIOUS

\* An attempt whose delay is exact comes after one whose delay is exact.
LEMMA ExactIsFirst ==
    ASSUME cfg \in Configs, NEW n \in Nat \ {0}, ExactAt(n + 1)
    PROVE  ExactAt(n)
  <1>1. CASE n = 1
    BY <1>1 DEF ExactAt
  <1>2. CASE n # 1
    <2> DEFINE p == 2 ^ (n - 2)
               b == cfg.BaseDelay
    <2>1. n - 2 \in Nat /\ (n - 2) + 1 = n - 1 /\ (n + 1) - 2 = n - 1
      BY <1>2
    <2>2. p \in Nat /\ 2 ^ (n - 1) = 2 * p
      BY <2>1, PowerIsPositive, PowerDoubles
    <2>3. b \in Nat /\ MaxInt \in Nat
      BY ConfigInRange
    <2>4. (2 * p) * b <= MaxInt
      BY <2>1, <2>2 DEF ExactAt
    <2> HIDE DEF p, b
    <2>5. p * b \in Nat /\ p * b <= (2 * p) * b /\ (2 * p) * b \in Nat
      BY <2>2, <2>3, Products
    <2>6. p * b <= MaxInt
      BY <2>3, <2>4, <2>5
    <2> QED
      BY <2>6 DEF ExactAt, p, b
  <1> QED
    BY <1>1, <1>2

\* The documented delay is a natural.
LEMMA DelayIsNatural ==
    ASSUME NEW c \in Configs, NEW i \in Nat \ {0}
    PROVE  DocumentedDelay(c, i) \in Nat
  <1>1. i - 1 \in Nat
    OBVIOUS
  <1>2. 2 ^ (i - 1) \in Nat /\ c.BaseDelay \in Nat /\ c.MaxDelay \in Nat
    BY <1>1, PowerIsPositive, ConfigInRange
  <1>3. 2 ^ (i - 1) * c.BaseDelay \in Nat
    BY <1>2, Products
  <1> QED
    BY <1>2, <1>3 DEF DocumentedDelay, Least

\* A delay is an integer no greater than the documented one, however the
\* doubling overflows, and the documented one when it does not.
LEMMA DelaysAreCapped ==
    ASSUME cfg \in Configs, NEW i \in Nat \ {0}, NEW d \in Backoffs(i)
    PROVE  /\ d \in Int
           /\ d <= DocumentedDelay(cfg, i)
           /\ ExactAt(i + 1) => d = DocumentedDelay(cfg, i)
           /\ DocumentedDelay(cfg, i) \in 0 .. cfg.MaxDelay
           /\ HasDelays => DocumentedDelay(cfg, i) > 0
  <1> DEFINE p == 2 ^ (i - 1)
             b == cfg.BaseDelay
             m == cfg.MaxDelay
             top == MaxInt
  <1>1. PICK power \in PowersOfTwo(i - 1) :
            d = IF Wrap(power * b) > m THEN m ELSE Wrap(power * b)
    BY DEF Backoffs
  <1>2. p \in Nat \ {0}
    BY PowerIsPositive
  <1>3. b \in 0 .. top /\ m \in 0 .. top /\ top \in Nat
    BY ConfigInRange
  <1>4. power \in Int /\ (p <= top => power = p)
    BY <1>2, <1>3, IntegerRange DEF PowersOfTwo
  <1>5. DocumentedDelay(cfg, i) = IF p * b < m THEN p * b ELSE m
    BY DEF DocumentedDelay, Least
  <1>6. ExactAt(i + 1) <=> p * b <= top
    <2>1. (i + 1) - 2 = i - 1 /\ i + 1 # 1
      OBVIOUS
    <2> QED
      BY <2>1 DEF ExactAt
  <1>7. HasDelays => b # 0 /\ m # 0
    BY DEF HasDelays
  <1> DEFINE x == power * b
             q == p * b
             v == Wrap(x)
  <1>8. x \in Int /\ q \in Nat /\ (b # 0 => p <= q)
    <2> HIDE DEF p, b, m, top
    <2> QED
      BY <1>2, <1>3, <1>4, Products
  <1>9. v \in Int /\ (x \in 0 .. top => v = x)
    BY <1>8, WrapInRange
  <1>10. q <= top => x = q
    <2>1. CASE b = 0
      <3> HIDE DEF p, b, m, top
      <3> QED
        BY <1>2, <1>4, <2>1
    <2>2. CASE b # 0
      <3>1. q <= top => p <= top
        <4> HIDE DEF p, b, m, top, q
        <4> QED
          BY <1>2, <1>3, <1>8, <2>2
      <3> QED
        BY <1>4, <3>1
    <2> QED
      BY <2>1, <2>2
  <1>11. d = IF v > m THEN m ELSE v
    BY <1>1
  <1>12. DocumentedDelay(cfg, i) = IF q < m THEN q ELSE m
    BY <1>5
  <1>13. ExactAt(i + 1) <=> q <= top
    BY <1>6
  <1>14. HasDelays => q > 0 /\ m > 0
    <2> HIDE DEF p, b, m, top, q
    <2> QED
      BY <1>2, <1>3, <1>7, <1>8
  <1> HIDE DEF p, b, m, top, x, q, v
  <1>15. q <= top => v = q
    BY <1>8, <1>9, <1>10
  <1> DEFINE t == DocumentedDelay(cfg, i)
  <1>16. t = IF q < m THEN q ELSE m
    BY <1>12
  <1> HIDE DEF t
  <1>17. d \in Int /\ d <= t /\ (q <= top => d = t) /\ t \in 0 .. m
    BY <1>3, <1>8, <1>9, <1>11, <1>15, <1>16
  <1>18. HasDelays => t > 0
    BY <1>8, <1>14, <1>16
  <1> QED
    BY <1>13, <1>17, <1>18 DEF t, m

-----------------------------------------------------------------------------
(* The schedule.  Its recursive definition is the choice of a function:    *)
(* the function exists, as the union of its finite beginnings.             *)

\* A sum of terms, the first two of which are left out.
IsSum(h, dom, add) ==
    \A n \in dom : h[n] = IF n <= 1 THEN 0 ELSE h[n - 1] + add[n]

Beginnings(k, add) == {h \in [0 .. k -> Nat] : IsSum(h, 0 .. k, add)}

LEMMA BeginningsExist ==
    ASSUME NEW add \in [Nat -> Nat]
    PROVE  \A k \in Nat : Beginnings(k, add) # {}
  <1> DEFINE S == {k \in Nat : Beginnings(k, add) # {}}
  <1>1. 0 \in S
    <2> DEFINE h == [n \in 0 .. 0 |-> 0]
    <2>1. h \in [0 .. 0 -> Nat]
      OBVIOUS
    <2>2. \A n \in 0 .. 0 : n <= 1 /\ h[n] = 0
      OBVIOUS
    <2> HIDE DEF h
    <2>3. h \in Beginnings(0, add)
      BY <2>1, <2>2 DEF Beginnings, IsSum
    <2> QED
      BY <2>3
  <1>2. ASSUME NEW k \in Nat, k \in S
        PROVE  k + 1 \in S
    <2>1. PICK h \in Beginnings(k, add) : TRUE
      BY <1>2
    <2>2. h \in [0 .. k -> Nat] /\ IsSum(h, 0 .. k, add)
      BY <2>1 DEF Beginnings
    <2> DEFINE last == IF k = 0 THEN 0 ELSE h[k] + add[k + 1]
               j == [n \in 0 .. (k + 1) |-> IF n = k + 1 THEN last ELSE h[n]]
    <2>3. last \in Nat
      BY <2>2
    <2>4. \A n \in 0 .. k : n \in 0 .. (k + 1) /\ n # k + 1 /\ h[n] \in Nat
      BY <2>2
    <2>5. j \in [0 .. (k + 1) -> Nat]
      BY <2>3, <2>4
    <2>6. j[k + 1] = last
      OBVIOUS
    <2>7. \A n \in 0 .. k : j[n] = h[n]
      BY <2>4
    <2> HIDE DEF j
    <2>8. ASSUME NEW n \in 0 .. (k + 1)
          PROVE  j[n] = IF n <= 1 THEN 0 ELSE j[n - 1] + add[n]
      <3>1. CASE n = k + 1
        <4>1. k # 0 => k \in 0 .. k /\ n - 1 = k /\ ~ (n <= 1)
          BY <3>1
        <4>2. k = 0 => n <= 1
          BY <3>1
        <4> QED
          BY <2>6, <2>7, <3>1, <4>1, <4>2
      <3>2. CASE n # k + 1
        <4>1. n \in 0 .. k
          BY <3>2
        <4>2. ~ (n <= 1) => n - 1 \in 0 .. k
          BY <4>1
        <4>3. h[n] = IF n <= 1 THEN 0 ELSE h[n - 1] + add[n]
          BY <2>2, <4>1 DEF IsSum
        <4> QED
          BY <2>7, <4>1, <4>2, <4>3
      <3> QED
        BY <3>1, <3>2
    <2>9. j \in Beginnings(k + 1, add)
      BY <2>5, <2>8 DEF Beginnings, IsSum
    <2> QED
      BY <2>9
  <1> HIDE DEF S
  <1>3. Nat \subseteq S
    BY <1>1, <1>2, ByInduction
  <1> QED
    BY <1>3 DEF S

\* Two beginnings agree as far as both go.
LEMMA BeginningsAgree ==
    ASSUME NEW add \in [Nat -> Nat], NEW k \in Nat, NEW l \in Nat,
           NEW h \in Beginnings(k, add), NEW j \in Beginnings(l, add)
    PROVE  \A n \in Nat : n <= k /\ n <= l => h[n] = j[n]
  <1> DEFINE T == {n \in Nat : n <= k /\ n <= l => h[n] = j[n]}
  <1>1. IsSum(h, 0 .. k, add) /\ IsSum(j, 0 .. l, add)
    BY DEF Beginnings
  <1>2. ASSUME NEW n \in Nat, n <= k, n <= l
        PROVE  /\ h[n] = IF n <= 1 THEN 0 ELSE h[n - 1] + add[n]
               /\ j[n] = IF n <= 1 THEN 0 ELSE j[n - 1] + add[n]
    <2>1. n \in 0 .. k /\ n \in 0 .. l
      BY <1>2
    <2> QED
      BY <1>1, <2>1 DEF IsSum
  <1>3. 0 \in T
    BY <1>2
  <1>4. ASSUME NEW n \in Nat, n \in T
        PROVE  n + 1 \in T
    <2>1. SUFFICES ASSUME n + 1 <= k, n + 1 <= l
                   PROVE  h[n + 1] = j[n + 1]
      OBVIOUS
    <2>2. n + 1 \in Nat /\ (n + 1) - 1 = n /\ n <= k /\ n <= l
      BY <2>1
    <2>3. h[n] = j[n]
      BY <1>4, <2>2
    <2> QED
      BY <1>2, <2>1, <2>2, <2>3
  <1> HIDE DEF T
  <1>5. Nat \subseteq T
    BY <1>3, <1>4, ByInduction
  <1> QED
    BY <1>5 DEF T

LEMMA SumExists ==
    ASSUME NEW add \in [Nat -> Nat]
    PROVE  \E f \in [Nat -> Nat] : IsSum(f, Nat, add)
  <1> DEFINE b == [n \in Nat |-> CHOOSE h \in Beginnings(n, add) : TRUE]
             f == [n \in Nat |-> b[n][n]]
  <1>1. \A n \in Nat : b[n] \in Beginnings(n, add)
    BY BeginningsExist
  <1> HIDE DEF b
  <1>2. ASSUME NEW n \in Nat
        PROVE  b[n] \in [0 .. n -> Nat] /\ IsSum(b[n], 0 .. n, add)
    BY <1>1 DEF Beginnings
  <1>3. \A n \in Nat : b[n][n] \in Nat
    <2>1. \A n \in Nat : n \in 0 .. n
      OBVIOUS
    <2> QED
      BY <1>2, <2>1
  <1>4. f \in [Nat -> Nat] /\ \A n \in Nat : f[n] = b[n][n]
    BY <1>3
  <1> HIDE DEF f
  <1>5. ASSUME NEW n \in Nat
        PROVE  f[n] = IF n <= 1 THEN 0 ELSE f[n - 1] + add[n]
    <2>1. n \in 0 .. n
      OBVIOUS
    <2>2. f[n] = IF n <= 1 THEN 0 ELSE b[n][n - 1] + add[n]
      BY <1>2, <1>4, <2>1 DEF IsSum
    <2>3. CASE n <= 1
      BY <2>2, <2>3
    <2>4. CASE ~ (n <= 1)
      <3>1. n - 1 \in Nat /\ n - 1 <= n /\ n - 1 <= n - 1
        BY <2>4
      <3>2. b[n][n - 1] = b[n - 1][n - 1]
        BY <1>1, <3>1, BeginningsAgree
      <3> QED
        BY <1>4, <2>2, <2>4, <3>1, <3>2
    <2> QED
      BY <2>3, <2>4
  <1>6. IsSum(f, Nat, add)
    BY <1>5 DEF IsSum
  <1> QED
    BY <1>4, <1>6

\* The documented time before an attempt is that before the one before it and
\* the delay between the two.
LEMMA ScheduleAdds ==
    ASSUME NEW c \in Configs
    PROVE  /\ Schedule(c) \in [Nat -> Nat]
           /\ Schedule(c)[1] = 0
           /\ \A i \in Nat \ {0} :
                  Schedule(c)[i + 1] = Schedule(c)[i] + DocumentedDelay(c, i)
  <1> DEFINE term(n) == Least(2 ^ (n - 2) * c.BaseDelay, c.MaxDelay)
             add == [n \in Nat |-> IF n <= 1 THEN 0 ELSE term(n)]
             F(f) == [n \in Nat |-> IF n <= 1 THEN 0 ELSE f[n - 1] + term(n)]
  <1>1. ASSUME NEW n \in Nat, ~ (n <= 1)
        PROVE  term(n) \in Nat
    <2>1. n - 2 \in Nat
      BY <1>1
    <2>2. 2 ^ (n - 2) \in Nat /\ c.BaseDelay \in Nat /\ c.MaxDelay \in Nat
      BY <2>1, PowerIsPositive, ConfigInRange
    <2>3. 2 ^ (n - 2) * c.BaseDelay \in Nat
      BY <2>2, Products
    <2> QED
      BY <2>2, <2>3 DEF Least
  <1> HIDE DEF term
  <1>2. add \in [Nat -> Nat]
    BY <1>1
  <1>3. \A n \in Nat : ~ (n <= 1) => add[n] = term(n)
    OBVIOUS
  <1> HIDE DEF add
  <1>4. PICK f \in [Nat -> Nat] : IsSum(f, Nat, add)
    BY <1>2, SumExists
  <1>5. \A n \in Nat : f[n] = IF n <= 1 THEN 0 ELSE f[n - 1] + term(n)
    BY <1>3, <1>4 DEF IsSum
  <1>6. f = F(f)
    BY <1>5
  <1>7. Schedule(c) = F(Schedule(c))
    BY <1>6, Zenon DEF Schedule, term
  <1> DEFINE s == Schedule(c)
  <1>8. s = F(s)
    BY <1>7
  <1> HIDE DEF s
  <1>9. \A n \in Nat : s[n] = IF n <= 1 THEN 0 ELSE s[n - 1] + term(n)
    BY <1>8
  <1>10. s \in [Nat -> Nat]
    <2> DEFINE T == {n \in Nat : s[n] \in Nat}
    <2>1. 0 \in T
      BY <1>9
    <2>2. ASSUME NEW n \in Nat, n \in T
          PROVE  n + 1 \in T
      <3>1. n + 1 \in Nat /\ (n + 1) - 1 = n
        OBVIOUS
      <3>2. s[n + 1] = IF n + 1 <= 1 THEN 0 ELSE s[n] + term(n + 1)
        BY <1>9, <3>1
      <3>3. ~ (n + 1 <= 1) => term(n + 1) \in Nat
        BY <1>1, <3>1
      <3> QED
        BY <2>2, <3>2, <3>3
    <2> HIDE DEF T
    <2>3. Nat \subseteq T
      BY <2>1, <2>2, ByInduction
    <2>4. \A n \in Nat : s[n] \in Nat
      BY <2>3 DEF T
    <2> QED
      BY <1>8, <2>4
  <1>11. s[1] = 0
    BY <1>9
  <1>12. ASSUME NEW i \in Nat \ {0}
         PROVE  s[i + 1] = s[i] + DocumentedDelay(c, i)
    <2>1. i + 1 \in Nat /\ ~ (i + 1 <= 1) /\ (i + 1) - 1 = i /\ (i + 1) - 2 = i - 1
      OBVIOUS
    <2>2. s[i + 1] = s[i] + term(i + 1)
      BY <1>9, <2>1
    <2>3. term(i + 1) = DocumentedDelay(c, i)
      BY <2>1 DEF term, DocumentedDelay
    <2> QED
      BY <2>2, <2>3
  <1> QED
    BY <1>10, <1>11, <1>12 DEF s

-----------------------------------------------------------------------------
(* The invariants.                                                         *)

\* The attempt the loop is at, as a number from one on.
LEMMA AttemptInRange ==
    ASSUME TypeOK
    PROVE  /\ cfg \in Configs /\ cfg.MaxAttempts \in Nat /\ cfg.MaxDelay \in Nat
           /\ attempt \in Nat \ {0} /\ attempt + 1 \in Nat \ {0}
           /\ left \in Nat /\ waited \in Nat /\ late \in Nat
  <1>1. cfg \in Configs
    BY DEF TypeOK
  <1>2. cfg.MaxAttempts \in Nat /\ cfg.MaxDelay \in Nat
    BY <1>1, ConfigInRange
  <1> QED
    BY <1>1, <1>2 DEF TypeOK

LEMMA InitEstablishes == Init => RetryInv
  <1> SUFFICES ASSUME Init
               PROVE  RetryInv
    OBVIOUS
  <1>1. /\ cfg \in Configs /\ cfg.MaxAttempts \in Nat /\ cfg.MaxDelay \in Nat
    BY ConfigInRange DEF Init
  <1>2. TypeOK
    <2>1. attempt \in {1} /\ left \in 0 .. cfg.MaxDelay
      BY <1>1 DEF Init
    <2>2. /\ pc \in {"call", "done"} /\ result \in {"none", "exhausted"}
          /\ waited = 0 /\ late = 0 /\ cancelled = FALSE
      BY DEF Init
    <2> QED
      BY <1>1, <2>1, <2>2 DEF TypeOK
  <1>3. LoopInv
    BY DEF Init, LoopInv
  <1>4. CancelInv
    BY DEF Init, CancelInv, StopsEarly
  <1>5. WaitInv
    <2> DEFINE s == Schedule(cfg)
               t == DocumentedDelay(cfg, 1)
    <2>1. s[1] = 0 /\ s[1 + 1] = s[1] + t /\ s \in [Nat -> Nat]
      BY <1>1, ScheduleAdds
    <2> HIDE DEF s
    <2>2. attempt = 1 /\ waited = 0 /\ left = 0 /\ pc # "wait" /\ s[2] \in Nat
      BY <2>1 DEF Init
    <2>3. /\ waited <= s[attempt]
          /\ waited = s[attempt]
          /\ waited + left <= s[attempt + 1]
      BY <2>1, <2>2
    <2> QED
      BY <2>2, <2>3 DEF WaitInv, WaitsAddUp, s
  <1> QED
    BY <1>2, <1>3, <1>4, <1>5 DEF RetryInv

\* The timer is set to a delay no longer than the documented one.
LEMMA TimerIsSet ==
    ASSUME TypeOK, Fails
    PROVE  /\ left' \in 0 .. DocumentedDelay(cfg, attempt)
           /\ DocumentedDelay(cfg, attempt) \in 0 .. cfg.MaxDelay
           /\ ExactAt(attempt + 1) => left' = DocumentedDelay(cfg, attempt)
           /\ HasDelays => DocumentedDelay(cfg, attempt) > 0
  <1> DEFINE t == DocumentedDelay(cfg, attempt)
  <1>1. cfg \in Configs /\ attempt \in Nat \ {0} /\ cfg.MaxDelay \in Nat
    BY AttemptInRange
  <1>2. PICK d \in Backoffs(attempt) : left' = IF d > 0 THEN d ELSE 0
    BY DEF Fails
  <1>3. /\ d \in Int /\ d <= t
        /\ ExactAt(attempt + 1) => d = t
        /\ t \in 0 .. cfg.MaxDelay
        /\ HasDelays => t > 0
    BY <1>1, <1>2, DelaysAreCapped
  <1> HIDE DEF t
  <1> QED
    BY <1>1, <1>2, <1>3 DEF t

LEMMA TypesKept ==
    ASSUME TypeOK, LoopInv, [Next]_vars
    PROVE  TypeOK' /\ LoopInv'
  <1> USE DEF TypeOK, LoopInv
  <1>1. /\ cfg \in Configs /\ cfg.MaxAttempts \in Nat /\ cfg.MaxDelay \in Nat
        /\ attempt \in Nat \ {0} /\ left \in Nat /\ waited \in Nat /\ late \in Nat
    BY AttemptInRange
  <1>2. CASE Succeeds
    BY <1>2 DEF Succeeds, Return
  <1>3. CASE FailsLast
    BY <1>3 DEF FailsLast, Return
  <1>4. CASE Fails
    <2>1. left' \in 0 .. cfg.MaxDelay
      <3>1. /\ left' \in 0 .. DocumentedDelay(cfg, attempt)
            /\ DocumentedDelay(cfg, attempt) \in 0 .. cfg.MaxDelay
        BY <1>4, TimerIsSet
      <3> QED
        BY <1>1, <3>1
    <2> QED
      BY <1>4, <2>1 DEF Fails
  <1>5. CASE Elapses
    BY <1>1, <1>5 DEF Elapses, NextAttempt
  <1>6. CASE Cancelled
    BY <1>6 DEF Cancelled, Return
  <1>7. CASE Tick
    BY <1>1, <1>7 DEF Tick
  <1>8. CASE Cancel
    BY <1>8 DEF Cancel
  <1>9. CASE UNCHANGED vars
    BY <1>9 DEF vars
  <1> QED
    BY <1>2, <1>3, <1>4, <1>5, <1>6, <1>7, <1>8, <1>9 DEF Next, Do, Finished

\* A late call leaves the timer of the next wait running, and nobody waits
\* for it.
LEMMA CancelKept ==
    ASSUME TypeOK, LoopInv, CancelInv, [Next]_vars
    PROVE  CancelInv'
  <1>1. /\ cfg \in Configs /\ attempt \in Nat \ {0} /\ attempt + 1 \in Nat \ {0}
        /\ left \in Nat /\ late \in Nat
    BY AttemptInRange
  <1>2. Exact <=> ExactAt(attempt)
    BY DEF Exact, ExactAt
  <1> DEFINE Kept == UNCHANGED <<cfg, attempt, left, late>>
  <1>3. ASSUME Kept, pc' # "wait" \/ pc' = pc, cancelled => cancelled'
        PROVE  CancelInv'
    <2>1. /\ HasDelays' <=> HasDelays
          /\ Exact' <=> Exact
          /\ ExactAt(attempt + 1)' <=> ExactAt(attempt + 1)
      BY <1>3 DEF HasDelays, Exact, ExactAt
    <2> QED
      BY <1>3, <2>1 DEF CancelInv, StopsEarly, HasDelays
  <1>4. CASE Succeeds
    BY <1>3, <1>4 DEF Succeeds, Return
  <1>5. CASE FailsLast
    BY <1>3, <1>5 DEF FailsLast, Return
  <1>6. CASE Fails
    <2>1. /\ HasDelays' <=> HasDelays
          /\ Exact' <=> Exact
          /\ ExactAt(attempt + 1)' <=> ExactAt(attempt + 1)
      BY <1>6 DEF Fails, HasDelays, Exact, ExactAt
    <2>2. HasDelays /\ ExactAt(attempt + 1) => left' > 0
      BY <1>6, TimerIsSet
    <2>3. cancelled' = cancelled /\ late' = late /\ cfg' = cfg
      BY <1>6 DEF Fails
    <2> QED
      BY <2>1, <2>2, <2>3 DEF CancelInv, StopsEarly, HasDelays
  <1>7. CASE Elapses
    <2>1. /\ HasDelays' <=> HasDelays
          /\ Exact' <=> ExactAt(attempt + 1)
      BY <1>7 DEF Elapses, NextAttempt, HasDelays, Exact, ExactAt
    <2>2. /\ pc = "wait" /\ left = 0 /\ pc' = "call" /\ cancelled' = cancelled
          /\ late' = IF cancelled THEN late + 1 ELSE late
      BY <1>7 DEF Elapses, NextAttempt
    <2>3. ~cancelled => late = 0
      BY DEF CancelInv
    <2>4. HasDelays /\ ExactAt(attempt + 1) => late = 0
      BY <1>1, <2>2 DEF CancelInv
    <2>5. (HasDelays /\ Exact)' => late' <= 1
      BY <1>1, <2>1, <2>2, <2>4
    <2>6. StopsEarly'
      BY <2>5 DEF StopsEarly, HasDelays
    <2> QED
      BY <2>2, <2>3, <2>6 DEF CancelInv
  <1>8. CASE Cancelled
    BY <1>3, <1>8 DEF Cancelled, Return
  <1>9. CASE Tick
    <2>1. /\ HasDelays' <=> HasDelays
          /\ Exact' <=> Exact
      BY <1>9 DEF Tick, HasDelays, Exact
    <2>2. ~cancelled /\ cancelled' = cancelled /\ late' = late /\ cfg' = cfg
      BY <1>9 DEF Tick
    <2>3. late' = 0
      BY <2>2 DEF CancelInv
    <2> QED
      BY <2>2, <2>3 DEF CancelInv, StopsEarly
  <1>10. CASE Cancel
    BY <1>3, <1>10 DEF Cancel
  <1>11. CASE UNCHANGED vars
    BY <1>3, <1>11 DEF vars
  <1> QED
    BY <1>4, <1>5, <1>6, <1>7, <1>8, <1>9, <1>10, <1>11 DEF Next, Do, Finished

\* What has been waited and what is left of the current wait add up to what
\* the schedule allows up to the next attempt.
LEMMA WaitsKept ==
    ASSUME TypeOK, LoopInv, WaitInv, [Next]_vars
    PROVE  WaitInv'
  <1> DEFINE s == Schedule(cfg)
             t == DocumentedDelay(cfg, attempt)
             here == s[attempt]
             next == s[attempt + 1]
  <1>1. /\ cfg \in Configs /\ cfg.MaxDelay \in Nat
        /\ attempt \in Nat \ {0} /\ attempt + 1 \in Nat \ {0}
        /\ left \in Nat /\ waited \in Nat
    BY AttemptInRange
  <1>2. s \in [Nat -> Nat] /\ next = here + t
    BY <1>1, ScheduleAdds
  <1>3. here \in Nat /\ next \in Nat
    BY <1>1, <1>2
  <1>4. Exact <=> ExactAt(attempt)
    BY DEF Exact, ExactAt
  <1>5. ExactAt(attempt + 1) => Exact
    BY <1>1, <1>4, ExactIsFirst
  <1>6. /\ pc = "call" \/ result \in {"nil", "exhausted"} =>
               waited <= here /\ (Exact => waited = here)
        /\ waited + left <= next
        /\ pc = "wait" /\ ExactAt(attempt + 1) => waited + left = next
    BY DEF WaitInv, WaitsAddUp
  <1> HIDE DEF s, t, here, next
  <1>7. ASSUME UNCHANGED <<cfg, attempt>>
        PROVE  /\ Schedule(cfg)'[attempt'] = here
               /\ Schedule(cfg)'[attempt' + 1] = next
               /\ Exact' <=> Exact
               /\ ExactAt(attempt + 1)' <=> ExactAt(attempt + 1)
    BY <1>7 DEF s, here, next, Exact, ExactAt
  <1>8. ASSUME UNCHANGED <<cfg, attempt, left, waited>>,
               pc' = "call" \/ result' \in {"nil", "exhausted"} =>
                   pc = "call" \/ result \in {"nil", "exhausted"},
               pc' = "wait" => pc = "wait"
        PROVE  WaitInv'
    BY <1>6, <1>7, <1>8 DEF WaitInv, WaitsAddUp
  <1>9. CASE Succeeds
    BY <1>8, <1>9 DEF Succeeds, Return
  <1>10. CASE FailsLast
    BY <1>8, <1>10 DEF FailsLast, Return
  <1>11. CASE Fails
    <2>1. UNCHANGED <<cfg, attempt, waited, result>> /\ pc = "call" /\ pc' = "wait"
      BY <1>11 DEF Fails
    <2>2. result = "none"
      BY <2>1 DEF LoopInv
    <2>3. left' \in 0 .. t /\ t \in Nat /\ (ExactAt(attempt + 1) => left' = t)
      <3>1. /\ left' \in 0 .. t /\ t \in 0 .. cfg.MaxDelay
            /\ ExactAt(attempt + 1) => left' = t
        BY <1>11, TimerIsSet DEF t
      <3> QED
        BY <1>1, <3>1
    <2>4. waited <= here /\ (Exact => waited = here)
      BY <1>6, <2>1
    <2> DEFINE exact == ExactAt(attempt + 1)
               set == left'
    <2>5. waited \in Nat /\ here \in Nat /\ next = here + t
      BY <1>1, <1>2, <1>3
    <2>6. /\ set \in Nat /\ set <= t /\ (exact => set = t)
          /\ waited <= here /\ (exact => waited = here)
      BY <1>5, <2>3, <2>4
    <2> HIDE DEF exact, set
    <2>7. waited + set <= next /\ (exact => waited + set = next)
      BY <2>3, <2>5, <2>6
    <2> QED
      BY <1>7, <2>1, <2>2, <2>7 DEF WaitInv, WaitsAddUp, exact, set
  <1>12. CASE Elapses
    <2>1. /\ UNCHANGED <<cfg, left, waited, result>>
          /\ pc = "wait" /\ left = 0 /\ pc' = "call" /\ attempt' = attempt + 1
      BY <1>12 DEF Elapses, NextAttempt
    <2> DEFINE after == s[attempt + 2]
    <2>2. after \in Nat /\ next <= after
      <3> DEFINE i == attempt + 1
                 t2 == DocumentedDelay(cfg, i)
      <3>1. i \in Nat \ {0} /\ i + 1 = attempt + 2
        BY <1>1
      <3>2. s[i + 1] = s[i] + t2
        BY <1>1, <3>1, ScheduleAdds DEF s
      <3>3. t2 \in Nat
        BY <1>1, <3>1, DelayIsNatural
      <3>4. s[i + 1] \in Nat /\ s[i] \in Nat
        BY <1>2, <3>1
      <3> HIDE DEF t2
      <3>5. s[i] <= s[i + 1]
        BY <3>2, <3>3, <3>4
      <3> QED
        BY <3>1, <3>4, <3>5 DEF next
    <2>3. /\ Schedule(cfg)'[attempt'] = next
          /\ Schedule(cfg)'[attempt' + 1] = after
      <3>1. attempt' + 1 = attempt + 2
        BY <1>1, <2>1
      <3> QED
        BY <2>1, <3>1 DEF s, next
    <2>4. Exact' <=> ExactAt(attempt + 1)
      BY <2>1 DEF Exact, ExactAt
    <2>5. waited <= next /\ (ExactAt(attempt + 1) => waited = next)
      BY <1>1, <1>6, <2>1
    <2>6. waited + left <= after
      BY <1>1, <1>3, <2>1, <2>2, <2>5
    <2> QED
      BY <2>1, <2>3, <2>4, <2>5, <2>6 DEF WaitInv, WaitsAddUp
  <1>13. CASE Cancelled
    BY <1>8, <1>13 DEF Cancelled, Return
  <1>14. CASE Tick
    <2>1. /\ UNCHANGED <<cfg, pc, attempt, result>> /\ pc = "wait"
          /\ left' = left - 1 /\ waited' = waited + 1
      BY <1>14 DEF Tick
    <2>2. result = "none"
      BY <2>1 DEF LoopInv
    <2>3. waited' + left' = waited + left
      BY <1>1, <2>1
    <2> QED
      BY <1>6, <1>7, <2>1, <2>2, <2>3 DEF WaitInv, WaitsAddUp
  <1>15. CASE Cancel
    BY <1>8, <1>15 DEF Cancel
  <1>16. CASE UNCHANGED vars
    BY <1>8, <1>16 DEF vars
  <1> QED
    BY <1>9, <1>10, <1>11, <1>12, <1>13, <1>14, <1>15, <1>16 DEF Next, Do, Finished

\* Every behaviour keeps the invariant.
LEMMA RetryInvHolds == Spec => []RetryInv
  <1>1. RetryInv /\ [Next]_vars => RetryInv'
    BY TypesKept, CancelKept, WaitsKept DEF RetryInv
  <1> QED
    BY InitEstablishes, <1>1, PTL DEF Spec

\* Type correctness: the loop counter never passes MaxAttempts and a wait is
\* never longer than MaxDelay, also when the doubling of the delay overflows.
THEOREM RetryTypeCorrect == Spec => []TypeOK
  <1>1. RetryInv => TypeOK
    BY DEF RetryInv
  <1> QED
    BY RetryInvHolds, <1>1, PTL

\* The waits of Do add up to the documented schedule as long as the doubling
\* does not overflow, and never to more, for every Config and every width.
THEOREM WaitsAlwaysAddUp == Spec => []WaitsAddUp
  <1>1. RetryInv => WaitsAddUp
    BY DEF RetryInv, WaitInv
  <1> QED
    BY RetryInvHolds, <1>1, PTL

\* A cancellation of the context lets the select begin at most one more
\* call of fn, as long as the Config has delays that do not overflow.
THEOREM AlwaysStopsEarly == Spec => []StopsEarly
  <1>1. RetryInv => StopsEarly
    BY DEF RetryInv, CancelInv
  <1> QED
    BY RetryInvHolds, <1>1, PTL
=============================================================================

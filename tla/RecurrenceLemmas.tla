-------------------------- MODULE RecurrenceLemmas --------------------------
(***************************************************************************)
(* What the proofs about Recurrence rest on: numbers, the calendar, the    *)
(* days of a period of a rule, and the zones.                              *)
(***************************************************************************)
EXTENDS Recurrence, FiniteSetTheorems, NaturalsInduction, WellFoundedInduction, TLAPS

----------------------------------------------------------------------------
(* Numbers and sets of numbers.                                             *)

(* A nonempty set of numbers has a least one.                               *)
LEMMA LeastOne ==
  ASSUME NEW S \in SUBSET Nat, S # {}
  PROVE  \E x \in S : \A y \in S : x <= y
<1>1. PICK x \in S : \A y \in S : <<y, x>> \notin OpToRel(<, Nat)
  BY NatLessThanWellFounded, WFMin
<1>2. ASSUME NEW y \in S PROVE x <= y
  <2>1. <<y, x>> \notin {ss \in Nat \X Nat : ss[1] < ss[2]} BY <1>1 DEF OpToRel
  <2>2. <<y, x>> \in Nat \X Nat /\ <<y, x>>[1] = y /\ <<y, x>>[2] = x OBVIOUS
  <2>3. ~(y < x) BY <2>1, <2>2
  <2> QED BY <2>3
<1> QED BY <1>2

(* So has one that is bounded from below.                                   *)
LEMMA EarliestOne ==
  ASSUME NEW S \in SUBSET Int, S # {}, NEW b \in Int, \A x \in S : b <= x
  PROVE  Earliest(S) \in S /\ \A y \in S : Earliest(S) <= y
<1> DEFINE T == {n \in Nat : n + b \in S}
<1>1. T # {}
  <2>1. PICK x \in S : TRUE OBVIOUS
  <2>2. x - b \in Nat /\ (x - b) + b = x BY <2>1
  <2>3. x - b \in T BY <2>1, <2>2
  <2> QED BY <2>3
<1>2. PICK n \in T : \A m \in T : n <= m BY <1>1, LeastOne
<1>3. ASSUME NEW y \in S PROVE n + b <= y
  <2>1. y - b \in Nat /\ (y - b) + b = y OBVIOUS
  <2>2. y - b \in T BY <2>1
  <2> QED BY <1>2, <2>2
<1>4. n + b \in S BY <1>2
<1> QED BY <1>3, <1>4 DEF Earliest

(* There is one way to divide with a remainder.                             *)
LEMMA DivisionIsUnique ==
  ASSUME NEW n \in Nat \ {0}, NEW q \in Int, NEW r \in 0..(n - 1)
  PROVE  (n * q + r) \div n = q /\ (n * q + r) % n = r
OBVIOUS

(* Multiples of a number, and what lies between.                            *)
LEMMA Multiples ==
  ASSUME NEW n \in Nat \ {0}, NEW p \in Nat, NEW q \in Nat, p < q
  PROVE  p * n + n <= q * n
<1>1. q = p + 1 + (q - p - 1) /\ q - p - 1 \in Nat OBVIOUS
<1>2. q * n = p * n + n + (q - p - 1) * n BY <1>1
<1>3. (q - p - 1) * n >= 0 BY <1>1
<1> QED BY <1>2, <1>3

LEMMA Division ==
  ASSUME NEW n \in Nat \ {0}, NEW x \in Nat
  PROVE  x \div n \in Nat /\ x % n \in 0..(n - 1) /\ x = n * (x \div n) + (x % n)
<1> DEFINE T == {q \in Nat : x < n * q + n}
<1>1. T # {}
  <2>1. x <= n * x OBVIOUS
  <2>2. x \in T BY <2>1
  <2> QED BY <2>2
<1>2. PICK q \in T : \A p \in T : q <= p BY <1>1, LeastOne
<1>3. n * q <= x
  <2>1. CASE q = 0 BY <2>1
  <2>2. CASE q # 0
    <3>1. q - 1 \in Nat /\ q - 1 \notin T BY <1>2, <2>2
    <3>2. n * (q - 1) + n <= x BY <3>1
    <3> QED BY <3>2
  <2> QED BY <2>1, <2>2
<1>4. x - n * q \in 0..(n - 1) /\ x = n * q + (x - n * q) BY <1>2, <1>3
<1>5. q \in Nat /\ x \div n = q /\ x % n = x - n * q BY <1>2, <1>4, DivisionIsUnique
<1>6. x % n \in 0..(n - 1) BY <1>4, <1>5
<1>7. x = n * q + (x % n) BY <1>4, <1>5
<1> QED BY <1>5, <1>6, <1>7, Zenon

LEMMA Multiple ==
  ASSUME NEW n \in Nat \ {0}, NEW x \in Nat
  PROVE  x % n = 0 <=> \E p \in Nat : x = p * n
<1>1. ASSUME x % n = 0 PROVE \E p \in Nat : x = p * n
  <2>1. x \div n \in Nat /\ x = n * (x \div n) BY <1>1, Division
  <2> QED BY <2>1
<1>2. ASSUME NEW p \in Nat, x = p * n PROVE x % n = 0
  <2>1. x = n * p + 0 /\ 0 \in 0..(n - 1) BY <1>2
  <2> QED BY <2>1, DivisionIsUnique
<1> QED BY <1>1, <1>2

----------------------------------------------------------------------------
(* The calendar.                                                            *)

Leaps(year) == (year \div 4) - (year \div 100) + (year \div 400)

(* A leap year is counted once.                                             *)
LEMMA LeapYears ==
  ASSUME NEW year \in Int
  PROVE  /\ Leaps(year) \in Int
         /\ Leaps(year + 1) - Leaps(year) = IF Leap(year + 1) THEN 1 ELSE 0
<1>1. ((year + 1) \div 4) - (year \div 4) = IF (year + 1) % 4 = 0 THEN 1 ELSE 0 OBVIOUS
<1>2. ((year + 1) \div 100) - (year \div 100) = IF (year + 1) % 100 = 0 THEN 1 ELSE 0 OBVIOUS
<1>3. ((year + 1) \div 400) - (year \div 400) = IF (year + 1) % 400 = 0 THEN 1 ELSE 0 OBVIOUS
<1>4. (year + 1) % 100 = 0 => (year + 1) % 4 = 0 OBVIOUS
<1>5. (year + 1) % 400 = 0 => (year + 1) % 100 = 0 OBVIOUS
<1> QED BY <1>1, <1>2, <1>3, <1>4, <1>5 DEF Leaps, Leap

LEMMA Dozens ==
  ASSUME NEW i \in Int
  PROVE  i \div 12 \in Int /\ i % 12 \in 0..11 /\ i = 12 * (i \div 12) + (i % 12)
OBVIOUS

LEMMA NextMonth ==
  ASSUME NEW i \in Int
  PROVE  /\ i % 12 \in 0..11 /\ i \div 12 \in Int
         /\ i % 12 < 11 => (i + 1) \div 12 = i \div 12 /\ (i + 1) % 12 = (i % 12) + 1
         /\ i % 12 = 11 => (i + 1) \div 12 = i \div 12 + 1 /\ (i + 1) % 12 = 0
<1>1. i \div 12 \in Int /\ i % 12 \in 0..11 /\ i = 12 * (i \div 12) + (i % 12) BY Dozens
<1>3. ASSUME i % 12 < 11 PROVE (i + 1) \div 12 = i \div 12 /\ (i + 1) % 12 = (i % 12) + 1
  <2>1. i + 1 = 12 * (i \div 12) + ((i % 12) + 1) BY <1>1
  <2> QED BY <1>1, <1>3, <2>1, DivisionIsUnique
<1>4. ASSUME i % 12 = 11 PROVE (i + 1) \div 12 = i \div 12 + 1 /\ (i + 1) % 12 = 0
  <2>1. i + 1 = 12 * (i \div 12 + 1) + 0 BY <1>1, <1>4
  <2> QED BY <1>1, <2>1, DivisionIsUnique
<1> QED BY <1>1, <1>3, <1>4

(* Where a month of a year starts.                                          *)
MonthOfYear(year, month) ==
    365 * year + Leaps(2023 + year) - 490 + DaysBefore[month + 1]
      + (IF Leap(2024 + year) /\ month > 1 THEN 1 ELSE 0)

LEMMA MonthStarts ==
  ASSUME NEW i \in Int
  PROVE  MonthStart(i) = MonthOfYear(i \div 12, i % 12)
<1>1. 2024 + (i \div 12) - 1 = 2023 + (i \div 12) OBVIOUS
<1> QED BY <1>1 DEF MonthStart, YearOf, Leaps, MonthOfYear

LEMMA MonthsOfYear ==
  ASSUME NEW year \in Int
  PROVE  /\ \A month \in 0..11 : MonthOfYear(year, month) \in Int
         /\ \A month \in 0..10 :
               MonthOfYear(year, month + 1) - MonthOfYear(year, month) \in 28..31
         /\ MonthOfYear(year + 1, 0) - MonthOfYear(year, 11) = 31
<1> DEFINE leap == Leap(2024 + year)
           extra(month) == IF leap /\ month > 1 THEN 1 ELSE 0
<1>1. Leaps(2023 + year) \in Int /\ Leaps(2024 + year) \in Int
      /\ Leaps(2024 + year) - Leaps(2023 + year) = IF leap THEN 1 ELSE 0
  <2>1. (2023 + year) + 1 = 2024 + year /\ 2023 + year \in Int /\ 2024 + year \in Int OBVIOUS
  <2> QED BY <2>1, LeapYears
<1>2. \A month \in 0..11 :
         MonthOfYear(year, month)
           = 365 * year + Leaps(2023 + year) - 490 + DaysBefore[month + 1] + extra(month)
  BY DEF MonthOfYear
<1>3. \A month \in 0..11 : DaysBefore[month + 1] \in Int BY DEF DaysBefore
<1> HIDE DEF leap
<1>4. \A month \in 0..11 : MonthOfYear(year, month) \in Int BY <1>1, <1>2, <1>3
<1>5. ASSUME NEW month \in 0..10
      PROVE  MonthOfYear(year, month + 1) - MonthOfYear(year, month) \in 28..31
  <2>1. month + 1 \in 0..11 /\ month \in 0..11 OBVIOUS
  <2>2. /\ DaysBefore[(month + 1) + 1] - DaysBefore[month + 1] \in 28..31
        /\ month = 1 => DaysBefore[(month + 1) + 1] - DaysBefore[month + 1] = 28
    BY DEF DaysBefore
  <2>3. extra(month + 1) - extra(month) = IF month = 1 /\ leap THEN 1 ELSE 0 OBVIOUS
  <2>4. MonthOfYear(year, month + 1) - MonthOfYear(year, month)
          = (DaysBefore[(month + 1) + 1] - DaysBefore[month + 1]) + (extra(month + 1) - extra(month))
    <3>1. MonthOfYear(year, month + 1)
            = 365 * year + Leaps(2023 + year) - 490 + DaysBefore[(month + 1) + 1] + extra(month + 1)
      BY <1>2, <2>1
    <3>2. MonthOfYear(year, month)
            = 365 * year + Leaps(2023 + year) - 490 + DaysBefore[month + 1] + extra(month)
      BY <1>2, <2>1
    <3>3. DaysBefore[(month + 1) + 1] \in Int /\ DaysBefore[month + 1] \in Int BY <1>3, <2>1
    <3>4. extra(month) \in Int /\ extra(month + 1) \in Int OBVIOUS
    <3> HIDE DEF extra
    <3> QED BY <1>1, <3>1, <3>2, <3>3, <3>4
  <2> QED BY <2>2, <2>3, <2>4
<1>6. MonthOfYear(year + 1, 0) - MonthOfYear(year, 11) = 31
  <2>1. MonthOfYear(year + 1, 0) = 365 * (year + 1) + Leaps(2024 + year) - 490
    <3>1. DaysBefore[0 + 1] = 0 /\ 2023 + (year + 1) = 2024 + year BY DEF DaysBefore
    <3> QED BY <1>1, <3>1 DEF MonthOfYear
  <2>2. MonthOfYear(year, 11) = 365 * year + Leaps(2023 + year) - 490 + 334 + extra(11)
    <3>1. DaysBefore[11 + 1] = 334 BY DEF DaysBefore
    <3> QED BY <1>2, <3>1
  <2>3. extra(11) = IF leap THEN 1 ELSE 0 OBVIOUS
  <2> HIDE DEF extra
  <2> QED BY <1>1, <2>1, <2>2, <2>3
<1> QED BY <1>4, <1>5, <1>6

(* A month has 28 to 31 days.                                               *)
LEMMA MonthLengths ==
  ASSUME NEW i \in Int
  PROVE  MonthStart(i) \in Int /\ MonthLength(i) \in 28..31
<1> DEFINE y == i \div 12  m == i % 12
<1>1. m \in 0..11 /\ y \in Int /\ i + 1 \in Int BY NextMonth
<1>2. MonthStart(i) = MonthOfYear(y, m) /\ MonthStart(i) \in Int BY <1>1, MonthStarts, MonthsOfYear
<1>3. CASE m < 11
  <2>1. MonthStart(i + 1) = MonthOfYear(y, m + 1) BY <1>1, <1>3, NextMonth, MonthStarts
  <2>2. m \in 0..10 BY <1>1, <1>3
  <2> HIDE DEF y, m
  <2> QED BY <1>1, <1>2, <2>1, <2>2, MonthsOfYear DEF MonthLength
<1>4. CASE m = 11
  <2>1. MonthStart(i + 1) = MonthOfYear(y + 1, 0) BY <1>1, <1>4, NextMonth, MonthStarts
  <2>2. MonthStart(i) = MonthOfYear(y, 11) BY <1>2, <1>4
  <2> HIDE DEF y, m
  <2> QED BY <1>1, <1>2, <2>1, <2>2, MonthsOfYear DEF MonthLength
<1> QED BY <1>1, <1>3, <1>4

(* Months follow each other.                                                *)
LEMMA MonthsAhead ==
  ASSUME NEW i \in Int, NEW k \in Nat
  PROVE  MonthStart(i + k) - MonthStart(i) \in (28 * k)..(31 * k)
<1> DEFINE T == {n \in Nat : MonthStart(i + n) - MonthStart(i) \notin (28 * n)..(31 * n)}
<1>1. ASSUME T # {} PROVE FALSE
  <2>1. PICK n \in T : \A m \in T : n <= m BY <1>1, LeastOne
  <2>2. n # 0
    <3>1. i + 0 = i /\ MonthStart(i) \in Int BY MonthLengths
    <3>2. MonthStart(i + 0) - MonthStart(i) = 0 BY <3>1
    <3> QED BY <2>1, <3>2
  <2> DEFINE m == n - 1
  <2>3. m \in Nat /\ m \notin T /\ n = m + 1 BY <2>1, <2>2
  <2>4. MonthStart(i + m) - MonthStart(i) \in (28 * m)..(31 * m) BY <2>3
  <2>5. MonthStart((i + m) + 1) - MonthStart(i + m) \in 28..31 /\ MonthStart(i + m) \in Int
        /\ MonthStart((i + m) + 1) \in Int
    BY <2>3, MonthLengths DEF MonthLength
  <2>6. (i + m) + 1 = i + n BY <2>3
  <2>7. MonthStart(i + n) - MonthStart(i + m) \in 28..31 /\ MonthStart(i + n) \in Int BY <2>5, <2>6
  <2>8. MonthStart(i) \in Int BY MonthLengths
  <2>9. MonthStart(i + n) - MonthStart(i) \in (28 * n)..(31 * n)
    <3> HIDE DEF m
    <3> QED BY <2>3, <2>4, <2>5, <2>7, <2>8
  <2> QED BY <2>1, <2>9
<1> QED BY <1>1

LEMMA MonthsInOrder ==
  ASSUME NEW i \in Int, NEW j \in Int, i < j
  PROVE  MonthStart(i + 1) <= MonthStart(j) /\ MonthStart(i) < MonthStart(j)
<1> DEFINE k == j - (i + 1)  n == i + 1
<1>1. k \in Nat /\ n + k = j /\ n \in Int OBVIOUS
<1>3. MonthStart(n) - MonthStart(i) \in 28..31 BY MonthLengths DEF MonthLength
<1> HIDE DEF k
<1>2. MonthStart(j) - MonthStart(n) \in (28 * k)..(31 * k)
  <2> HIDE DEF n
  <2>1. MonthStart(n + k) - MonthStart(n) \in (28 * k)..(31 * k) BY <1>1, MonthsAhead
  <2> QED BY <1>1, <2>1
<1>4. MonthStart(i) \in Int /\ MonthStart(n) \in Int /\ MonthStart(j) \in Int BY <1>1, MonthLengths
<1> QED BY <1>1, <1>2, <1>3, <1>4

(* The months of the walk are counted from the first one, which starts on   *)
(* day 0.                                                                   *)
LEMMA FirstMonth == MonthStart(0) = 0
<1>1. 0 \div 12 = 0 /\ 0 % 12 = 0 /\ 2024 + 0 - 1 = 2023 OBVIOUS
<1>2. 2023 \div 4 = 505 /\ 2023 \div 100 = 20 /\ 2023 \div 400 = 5 OBVIOUS
<1>3. DaysBefore[0 + 1] = 0 BY DEF DaysBefore
<1> QED BY <1>1, <1>2, <1>3 DEF MonthStart, YearOf

LEMMA MonthBounds ==
  ASSUME NEW i \in Nat
  PROVE  MonthStart(i) \in (28 * i)..(31 * i)
<1> DEFINE first == 0
<1>1. first \in Int /\ first + i = i /\ MonthStart(i) \in Int /\ MonthStart(first) = 0
  BY MonthLengths, FirstMonth
<1> HIDE DEF first
<1>2. MonthStart(first + i) - MonthStart(first) \in (28 * i)..(31 * i) BY <1>1, MonthsAhead
<1> QED BY <1>1, <1>2

(* Every day is in one month.                                               *)
LEMMA MonthIsUnique ==
  ASSUME NEW i \in Int, NEW j \in Int, NEW d \in Int,
         MonthStart(i) <= d, d < MonthStart(i + 1), MonthStart(j) <= d, d < MonthStart(j + 1)
  PROVE  i = j
<1>1. \A k \in Int : MonthStart(k) \in Int BY MonthLengths
<1>2. CASE i < j
  <2>1. MonthStart(i + 1) <= MonthStart(j) BY <1>2, MonthsInOrder
  <2> QED BY <1>1, <2>1
<1>3. CASE j < i
  <2>1. MonthStart(j + 1) <= MonthStart(i) BY <1>3, MonthsInOrder
  <2> QED BY <1>1, <2>1
<1> QED BY <1>2, <1>3

LEMMA MonthExists ==
  ASSUME NEW d \in Nat
  PROVE  \E i \in Nat : MonthStart(i) <= d /\ d < MonthStart(i + 1)
<1> DEFINE T == {i \in Nat : d < MonthStart(i + 1)}
<1>1. T # {}
  <2>1. MonthStart(d + 1) \in (28 * (d + 1))..(31 * (d + 1)) BY MonthBounds
  <2>2. d < MonthStart(d + 1) BY <2>1
  <2>3. d \in T BY <2>2
  <2> QED BY <2>3
<1>2. PICK i \in T : \A j \in T : i <= j BY <1>1, LeastOne
<1>3. MonthStart(i) <= d
  <2>1. CASE i = 0 BY <2>1, FirstMonth
  <2>2. CASE i # 0
    <3>1. i - 1 \in Nat /\ (i - 1) + 1 = i /\ ~(i <= i - 1) BY <2>2
    <3>2. ~(d < MonthStart((i - 1) + 1)) BY <1>2, <3>1
    <3>3. MonthStart(i) \in Int BY MonthLengths
    <3> QED BY <3>1, <3>2, <3>3
  <2> QED BY <2>1, <2>2
<1> QED BY <1>2, <1>3

LEMMA MonthOfDay ==
  ASSUME NEW d \in Nat
  PROVE  /\ MonthAt(d) \in Nat
         /\ MonthStart(MonthAt(d)) <= d /\ d < MonthStart(MonthAt(d) + 1)
         /\ \A i \in Int : MonthStart(i) <= d /\ d < MonthStart(i + 1) => i = MonthAt(d)
<1>1. PICK i \in Nat : MonthStart(i) <= d /\ d < MonthStart(i + 1) BY MonthExists
<1>2. i \in (d \div 31)..(d \div 28)
  <2>1. MonthStart(i) \in (28 * i)..(31 * i) BY MonthBounds
  <2>2. MonthStart(i + 1) \in (28 * (i + 1))..(31 * (i + 1)) BY MonthBounds
  <2>3. 28 * i <= d /\ d < 31 * (i + 1) BY <1>1, <2>1, <2>2
  <2> QED BY <2>3
<1>3. /\ MonthAt(d) \in (d \div 31)..(d \div 28)
      /\ MonthStart(MonthAt(d)) <= d /\ d < MonthStart(MonthAt(d) + 1)
  BY <1>1, <1>2 DEF MonthAt
<1>4. MonthAt(d) \in Int BY <1>3
<1>5. \A j \in Int : MonthStart(j) <= d /\ d < MonthStart(j + 1) => j = MonthAt(d)
  BY <1>3, <1>4, MonthIsUnique
<1>6. MonthAt(d) = i BY <1>1, <1>5
<1> QED BY <1>3, <1>5, <1>6

(* A year has 365 or 366 days.                                              *)
LEMMA YearLengths ==
  ASSUME NEW year \in Int
  PROVE  MonthStart(12 * (year + 1)) - MonthStart(12 * year) \in 365..366
<1>1. \A y \in Int : MonthStart(12 * y) = 365 * y + Leaps(2023 + y) - 490
  <2> TAKE y \in Int
  <2>1. (12 * y) \div 12 = y /\ (12 * y) % 12 = 0 OBVIOUS
  <2>2. MonthStart(12 * y) = MonthOfYear(y, 0) BY <2>1, MonthStarts
  <2>3. DaysBefore[0 + 1] = 0 BY DEF DaysBefore
  <2>4. Leaps(2023 + y) \in Int BY LeapYears
  <2> QED BY <2>2, <2>3, <2>4 DEF MonthOfYear
<1>2. 2023 + (year + 1) = (2023 + year) + 1 OBVIOUS
<1>3. Leaps((2023 + year) + 1) - Leaps(2023 + year) \in 0..1 /\ Leaps(2023 + year) \in Int
      /\ Leaps((2023 + year) + 1) \in Int
  BY LeapYears
<1>4. MonthStart(12 * (year + 1)) = 365 * (year + 1) + Leaps((2023 + year) + 1) - 490
  <2> DEFINE next == year + 1
  <2>1. next \in Int /\ 2023 + next = (2023 + year) + 1 OBVIOUS
  <2> HIDE DEF next
  <2>2. MonthStart(12 * next) = 365 * next + Leaps(2023 + next) - 490 BY <1>1, <2>1
  <2>3. MonthStart(12 * next) = 365 * next + Leaps((2023 + year) + 1) - 490 BY <2>1, <2>2
  <2> QED BY <2>3 DEF next
<1> QED BY <1>1, <1>3, <1>4

----------------------------------------------------------------------------
(* Counting days.                                                           *)

(* A weekday comes once a week.                                             *)
LEMMA EverySeventh ==
  ASSUME NEW a \in Int, NEW n \in Nat
  PROVE  LET T == {y \in a..(a + n) : (y - a) % 7 = 0}
         IN IsFiniteSet(T) /\ Cardinality(T) = (n \div 7) + 1
<1> DEFINE T == {y \in a..(a + n) : (y - a) % 7 = 0}
           k == n \div 7
           f == [i \in 1..(k + 1) |-> a + 7 * (i - 1)]
<1>1. k \in Nat /\ 7 * k <= n /\ n < 7 * k + 7 OBVIOUS
<1>2. \A i \in 1..(k + 1) : f[i] \in T
  <2> TAKE i \in 1..(k + 1)
  <2>1. f[i] = a + 7 * (i - 1) OBVIOUS
  <2>2. 7 * (i - 1) \in 0..n /\ (7 * (i - 1)) % 7 = 0
    <3> HIDE DEF k
    <3> QED BY <1>1
  <2>3. f[i] \in a..(a + n) /\ f[i] - a = 7 * (i - 1) BY <2>1, <2>2
  <2> QED BY <2>2, <2>3
<1>3. \A y \in T : \E i \in 1..(k + 1) : f[i] = y
  <2> TAKE y \in T
  <2> DEFINE m == (y - a) \div 7
  <2>1. m \in Nat /\ y - a = 7 * m /\ y - a <= n OBVIOUS
  <2>2. m + 1 \in 1..(k + 1)
    <3> HIDE DEF k, m
    <3> QED BY <1>1, <2>1
  <2>3. f[m + 1] = y
    <3>1. f[m + 1] = a + 7 * ((m + 1) - 1) BY <2>2
    <3> HIDE DEF m, f
    <3> QED BY <2>1, <3>1
  <2> QED BY <2>2, <2>3
<1>4. \A i, j \in 1..(k + 1) : f[i] = f[j] => i = j
  <2> HIDE DEF k
  <2> QED BY <1>1
<1> HIDE DEF T
<1>5. ExistsBijection(1..(k + 1), T)
  <2>1. f \in [1..(k + 1) -> T] BY <1>2
  <2> HIDE DEF f, k
  <2>2. f \in Injection(1..(k + 1), T) BY <1>4, <2>1 DEF Injection, IsInjective
  <2>3. f \in Surjection(1..(k + 1), T) BY <1>3, <2>1 DEF Surjection
  <2> QED BY <2>2, <2>3 DEF ExistsBijection, Bijection
<1>6. k + 1 \in Nat BY <1>1
<1>7. IsFiniteSet(T) /\ Cardinality(T) = k + 1 BY <1>5, <1>6, FS_CountingElements, FS_NatBijection
<1> QED BY <1>7 DEF T

(* Also counted backwards.                                                  *)
LEMMA EverySeventhBefore ==
  ASSUME NEW a \in Int, NEW n \in Nat
  PROVE  LET T == {y \in (a - n)..a : (y - a) % 7 = 0}
         IN IsFiniteSet(T) /\ Cardinality(T) = (n \div 7) + 1
<1> DEFINE k == n \div 7
           m == 7 * k
           b == a - m
<1>1. k \in Nat /\ m \in Nat /\ m <= n /\ n < m + 7 /\ m \div 7 = k OBVIOUS
<1>2. b \in Int /\ b + m = a BY <1>1
<1>3. {y \in (a - n)..a : (y - a) % 7 = 0} = {y \in b..(b + m) : (y - b) % 7 = 0}
  <2>1. ASSUME NEW y \in Int
        PROVE  y \in (a - n)..a /\ (y - a) % 7 = 0 <=> y \in b..(b + m) /\ (y - b) % 7 = 0
    OBVIOUS
  <2> QED BY <2>1
<1> HIDE DEF k, m, b
<1>4. IsFiniteSet({y \in b..(b + m) : (y - b) % 7 = 0})
      /\ Cardinality({y \in b..(b + m) : (y - b) % 7 = 0}) = (m \div 7) + 1
  BY <1>1, <1>2, EverySeventh
<1> QED BY <1>1, <1>3, <1>4 DEF k

(* A place is counted from either end.                                      *)
LEMMA Ends ==
  ASSUME NEW S \in SUBSET Int, IsFiniteSet(S), NEW x \in S
  PROVE  LET low == Cardinality({y \in S : y <= x})
             high == Cardinality({y \in S : y >= x})
         IN low \in Nat \ {0} /\ high \in Nat \ {0} /\ Cardinality(S) = low + high - 1
<1> DEFINE L == {y \in S : y <= x}
           H == {y \in S : y >= x}
<1>1. L \in SUBSET S /\ H \in SUBSET S /\ x \in L /\ x \in H OBVIOUS
<1>2. L \cup H = S /\ L \cap H = {x}
  <2>1. \A y \in S : y <= x \/ y >= x OBVIOUS
  <2>2. \A y \in S : y <= x /\ y >= x => y = x OBVIOUS
  <2>3. L \cup H = S BY <2>1
  <2>4. L \cap H = {x} BY <1>1, <2>2
  <2> QED BY <2>3, <2>4
<1> HIDE DEF L, H
<1>3. IsFiniteSet(L) /\ IsFiniteSet(H) BY <1>1, FS_Subset
<1>4. Cardinality(S) = Cardinality(L) + Cardinality(H) - Cardinality({x}) BY <1>2, <1>3, FS_Union
<1>5. Cardinality({x}) = 1 BY FS_Singleton
<1>6. Cardinality(L) \in Nat /\ Cardinality(L) # 0 /\ Cardinality(H) \in Nat /\ Cardinality(H) # 0
  BY <1>1, <1>3, FS_CardinalityType, FS_EmptySet
<1> QED BY <1>4, <1>5, <1>6 DEF L, H

(* What At picks.                                                           *)
LEMMA Picked ==
  ASSUME NEW S \in SUBSET Int, IsFiniteSet(S), NEW positions \in SUBSET Int, NEW x \in S
  PROVE  x \in At(positions, S) <=>
           {Cardinality({y \in S : y <= x}), -Cardinality({y \in S : y >= x})} \cap positions # {}
<1> DEFINE low == Cardinality({y \in S : y <= x})
           high == Cardinality({y \in S : y >= x})
           index(pos) == IF pos > 0 THEN pos ELSE Cardinality(S) + pos + 1
<1>1. low \in Nat \ {0} /\ high \in Nat \ {0} /\ Cardinality(S) = low + high - 1 BY Ends
<1>2. x \in At(positions, S) <=> \E pos \in positions : index(pos) = low BY DEF At
<1> HIDE DEF low, high
<1>3. \A pos \in positions : index(pos) = low <=> pos = low \/ pos = -high BY <1>1
<1>4. x \in At(positions, S) <=> \E pos \in positions : pos = low \/ pos = -high BY <1>2, <1>3, Zenon
<1>5. (\E pos \in positions : pos = low \/ pos = -high) <=> {low, -high} \cap positions # {}
  OBVIOUS
<1> QED BY <1>4, <1>5 DEF low, high

----------------------------------------------------------------------------
(* The days of a month.                                                     *)

LEMMA InputTypes ==
  ASSUME input \in Case
  PROVE  /\ input.day \in Nat /\ input.hour \in 0..23
         /\ input.zone \in DOMAIN Transition \cup {"none"}
         /\ input.from \in Int /\ input.to \in Int
         /\ input.rdates \in SUBSET Int /\ input.exdates \in SUBSET Int
         /\ rule.freq \in Frequencies /\ rule.interval \in Nat \ {0} /\ rule.count \in Nat
         /\ rule.until.kind \in {"none", "wall", "date", "utc"} /\ rule.until.at \in Int
         /\ rule.byDay \in SUBSET [weekday : Weekdays, ordinal : Int]
         /\ rule.byMonthDay \in SUBSET Int /\ rule.byMonth \in SUBSET (1..12)
         /\ rule.bySetPos \in SUBSET Int /\ rule.wkst \in Weekdays
<1>1. input \in [rule : Rules, day : Nat, hour : 0..23, zone : DOMAIN Transition \cup {"none"},
                 from : Int, to : Int, rdates : SUBSET Int, exdates : SUBSET Int]
  BY RecurrenceAssumption
<1>2. rule \in Rules BY <1>1 DEF rule
<1>3. rule.until \in [kind : {"none", "wall", "date", "utc"}, at : Int] BY <1>2 DEF Rules
<1>4. rule.freq \in Frequencies /\ rule.interval \in Nat \ {0} /\ rule.count \in Nat
      /\ rule.byDay \in SUBSET [weekday : Weekdays, ordinal : Int]
      /\ rule.byMonthDay \in SUBSET Int /\ rule.byMonth \in SUBSET (1..12)
      /\ rule.bySetPos \in SUBSET Int /\ rule.wkst \in Weekdays
  BY <1>2 DEF Rules
<1> QED BY <1>1, <1>3, <1>4

LEMMA DayInItsMonth ==
  ASSUME NEW d \in Nat
  PROVE  /\ MonthLength(MonthAt(d)) \in 28..31
         /\ DayOfMonth(d) \in 1..MonthLength(MonthAt(d))
         /\ d = MonthStart(MonthAt(d)) + DayOfMonth(d) - 1
<1>1. MonthAt(d) \in Nat /\ MonthStart(MonthAt(d)) <= d /\ d < MonthStart(MonthAt(d) + 1)
  BY MonthOfDay
<1>2. MonthStart(MonthAt(d)) \in Int /\ MonthStart(MonthAt(d) + 1) \in Int
      /\ MonthLength(MonthAt(d)) \in 28..31
  BY <1>1, MonthLengths
<1> QED BY <1>1, <1>2 DEF MonthLength, DayOfMonth

(* BYMONTHDAY counts from either end of a month.                            *)
LEMMA Resolved ==
  ASSUME NEW length \in Nat, NEW day \in 1..length, NEW monthDay \in Int
  PROVE  ResolveMonthDay(monthDay, length) = day <=> monthDay \in {day, day - length - 1}
BY DEF ResolveMonthDay

(* An ordinal of BYDAY picks what lies so many weeks from an end.           *)
OrdinalPlaces(day, length) == {((day - 1) \div 7) + 1, -(((length - day) \div 7) + 1)}

LEMMA OrdinalDays ==
  ASSUME NEW first \in Int, NEW length \in Nat, NEW day \in 1..length, NEW ordinal \in Int,
         NEW S \in SUBSET (1..length),
         \A x \in 1..length : x \in S <=> Weekday(first + x - 1) = Weekday(first + day - 1)
  PROVE  day \in At({ordinal}, S) <=> ordinal \in OrdinalPlaces(day, length)
<1> DEFINE L == {y \in S : y <= day}
           H == {y \in S : y >= day}
<1>1. \A x \in 1..length : Weekday(first + x - 1) = Weekday(first + day - 1) <=> (x - day) % 7 = 0
  BY DEF Weekday
<1>0. S = {x \in 1..length : (x - day) % 7 = 0} BY <1>1, Zenon
<1>2. L = {y \in (day - (day - 1))..day : (y - day) % 7 = 0}
  <2>1. L = {y \in 1..length : (y - day) % 7 = 0 /\ y <= day} BY <1>0
  <2>2. \A y \in Int : y \in 1..length /\ y <= day <=> y \in (day - (day - 1))..day OBVIOUS
  <2> HIDE DEF L
  <2> QED BY <2>1, <2>2
<1>3. H = {y \in day..(day + (length - day)) : (y - day) % 7 = 0}
  <2>1. H = {y \in 1..length : (y - day) % 7 = 0 /\ y >= day} BY <1>0
  <2>2. \A y \in Int : y \in 1..length /\ y >= day <=> y \in day..(day + (length - day)) OBVIOUS
  <2> HIDE DEF H
  <2> QED BY <2>1, <2>2
<1>4. S \in SUBSET Int /\ IsFiniteSet(S) /\ day \in S
  <2>1. IsFiniteSet(1..length) BY FS_Interval
  <2>3. IsFiniteSet(S) BY <2>1, FS_Subset
  <2>4. S \in SUBSET Int /\ day \in S OBVIOUS
  <2> QED BY <2>3, <2>4
<1>5. day \in Int /\ day - 1 \in Nat /\ length - day \in Nat OBVIOUS
<1> HIDE DEF L, H
<1>6. Cardinality(L) = ((day - 1) \div 7) + 1 BY <1>2, <1>5, EverySeventhBefore
<1>7. Cardinality(H) = ((length - day) \div 7) + 1 BY <1>3, <1>5, EverySeventh
<1>8. day \in At({ordinal}, S) <=> {Cardinality(L), -Cardinality(H)} \cap {ordinal} # {}
  <2>1. {ordinal} \in SUBSET Int OBVIOUS
  <2> QED BY <1>4, <2>1, Picked DEF L, H
<1>9. {Cardinality(L), -Cardinality(H)} \cap {ordinal} # {}
        <=> ordinal = Cardinality(L) \/ ordinal = -Cardinality(H)
  OBVIOUS
<1> QED BY <1>6, <1>7, <1>8, <1>9 DEF OrdinalPlaces

(* The days found in a month are those that the rule allows in it.          *)
LEMMA ExpandedDays ==
  ASSUME input \in Case, NEW i \in Int
  PROVE  /\ ExpandMonthDays(i) \in SUBSET (MonthStart(i)..(MonthStart(i + 1) - 1))
         /\ \A d \in Nat : d \in ExpandMonthDays(i) <=> MonthAt(d) = i /\ DayInMonth(d)
<1> DEFINE length == MonthLength(i)
           first == MonthStart(i)
           weekday(day) == Weekday(first + day - 1)
           matches(e) == {day \in 1..length : weekday(day) = e.weekday}
           picked(e) == IF e.ordinal = 0 THEN matches(e) ELSE At({e.ordinal}, matches(e))
           byMonthDay == {day \in {ResolveMonthDay(m, length) : m \in rule.byMonthDay} \cap 1..length :
                            rule.byDay # {} => \E e \in rule.byDay : day \in matches(e)}
           byDay == UNION {picked(e) : e \in rule.byDay}
           days == IF rule.byMonthDay # {} THEN byMonthDay
                   ELSE IF rule.byDay # {} THEN byDay
                   ELSE {DayOfMonth(input.day)} \cap 1..length
<1>1. ExpandMonthDays(i) = {first + day - 1 : day \in days} BY DEF ExpandMonthDays
<1>2. first \in Int /\ length \in 28..31 /\ MonthStart(i + 1) \in Int /\ MonthStart(i + 1) = first + length
  BY MonthLengths DEF MonthLength
<1>3. /\ rule.byMonthDay \in SUBSET Int
      /\ \A e \in rule.byDay : e.weekday \in Weekdays /\ e.ordinal \in Int
  BY InputTypes
<1>4. days \in SUBSET (1..length)
  <2>1. \A e : picked(e) \in SUBSET (1..length) BY DEF At
  <2>2. byDay \in SUBSET (1..length)
    <3> HIDE DEF picked
    <3> QED BY <2>1
  <2>3. byMonthDay \in SUBSET (1..length) OBVIOUS
  <2> HIDE DEF byDay, byMonthDay
  <2> QED BY <2>2, <2>3
<1>5. ASSUME NEW d \in Nat, MonthAt(d) = i
      PROVE  DayOfMonth(d) \in days <=> DayInMonth(d)
  <2> DEFINE day == DayOfMonth(d)
  <2>1. day \in 1..length /\ d = first + day - 1 BY <1>5, DayInItsMonth
  <2>2. weekday(day) = Weekday(d) BY <2>1
  <2>3. \A e : day \in matches(e) <=> e.weekday = Weekday(d) BY <2>1, <2>2
  <2>4. MonthDayOf(d) = {day, day - length - 1} BY <1>5 DEF MonthDayOf
  <2>5. OrdinalOf(d) = {0, ((day - 1) \div 7) + 1, -(((length - day) \div 7) + 1)}
    BY <1>5 DEF OrdinalOf
  <2>6. \A e \in rule.byDay : day \in picked(e) <=> e.weekday = Weekday(d) /\ e.ordinal \in OrdinalOf(d)
    <3> TAKE e \in rule.byDay
    <3>1. CASE e.ordinal = 0 BY <2>3, <2>5, <3>1
    <3>2. CASE e.ordinal # 0 /\ e.weekday # Weekday(d)
      <4>1. day \notin matches(e) BY <2>3, <3>2
      <4> QED BY <3>2, <4>1 DEF At
    <3>3. CASE e.ordinal # 0 /\ e.weekday = Weekday(d)
      <4>1. /\ matches(e) \in SUBSET (1..length)
            /\ \A x \in 1..length : x \in matches(e) <=> Weekday(first + x - 1) = Weekday(first + day - 1)
        BY <2>1, <3>3
      <4>2. length \in Nat /\ e.ordinal \in Int BY <1>2, <1>3
      <4> HIDE DEF day, first, length, matches
      <4>3. day \in At({e.ordinal}, matches(e)) <=> e.ordinal \in OrdinalPlaces(day, length)
        BY <1>2, <2>1, <4>1, <4>2, OrdinalDays
      <4>4. day \in picked(e) <=> day \in At({e.ordinal}, matches(e)) BY <3>3
      <4> HIDE DEF picked
      <4> QED BY <2>5, <3>3, <4>3, <4>4 DEF OrdinalPlaces
    <3> QED BY <3>1, <3>2, <3>3
  <2>7. CASE rule.byMonthDay # {}
    <3>1. (\E m \in rule.byMonthDay : ResolveMonthDay(m, length) = day) <=> MonthDayOf(d) \cap rule.byMonthDay # {}
      <4>1. \A m \in rule.byMonthDay : ResolveMonthDay(m, length) = day <=> m \in MonthDayOf(d)
        <5> HIDE DEF day, length
        <5> QED BY <1>2, <1>3, <2>1, <2>4, Resolved
      <4> HIDE DEF day, length
      <4> QED BY <4>1
    <3>2. (\E e \in rule.byDay : day \in matches(e)) <=> ByDayAllows(d) BY <2>3 DEF ByDayAllows
    <3>3. day \in byMonthDay <=> /\ \E m \in rule.byMonthDay : ResolveMonthDay(m, length) = day
                                 /\ rule.byDay # {} => \E e \in rule.byDay : day \in matches(e)
      <4> HIDE DEF day, length, matches
      <4> QED BY <2>1
    <3> HIDE DEF day, byMonthDay, byDay, matches
    <3> QED BY <2>7, <3>1, <3>2, <3>3 DEF DayInMonth, day
  <2>8. CASE rule.byMonthDay = {} /\ rule.byDay # {}
    <3>1. day \in byDay <=> \E e \in rule.byDay : day \in picked(e)
      <4> HIDE DEF day, picked
      <4> QED OBVIOUS
    <3>2. day \in byDay <=> \E e \in rule.byDay : e.weekday = Weekday(d) /\ e.ordinal \in OrdinalOf(d)
      <4> HIDE DEF day, picked, byDay
      <4> QED BY <2>6, <3>1
    <3> HIDE DEF day, byMonthDay, byDay
    <3> QED BY <2>8, <3>2 DEF DayInMonth, day
  <2>9. CASE rule.byMonthDay = {} /\ rule.byDay = {}
    <3> HIDE DEF byMonthDay, byDay, length
    <3> QED BY <2>1, <2>9 DEF DayInMonth
  <2> QED BY <2>7, <2>8, <2>9
<1> HIDE DEF days
<1>6. ExpandMonthDays(i) \in SUBSET (first..(MonthStart(i + 1) - 1)) BY <1>1, <1>2, <1>4
<1>7. ASSUME NEW d \in Nat
      PROVE  d \in ExpandMonthDays(i) <=> MonthAt(d) = i /\ DayInMonth(d)
  <2>1. ASSUME d \in ExpandMonthDays(i) PROVE MonthAt(d) = i
    <3>1. first <= d /\ d < MonthStart(i + 1) BY <1>2, <1>6, <2>1
    <3> QED BY <3>1, MonthOfDay
  <2>2. ASSUME MonthAt(d) = i PROVE d \in ExpandMonthDays(i) <=> DayOfMonth(d) \in days
    <3>1. d = first + DayOfMonth(d) - 1 /\ DayOfMonth(d) \in Int BY <2>2, DayInItsMonth
    <3>2. \A day \in days : day \in Int /\ (d = first + day - 1 => day = DayOfMonth(d))
      <4> HIDE DEF first
      <4> QED BY <1>2, <1>4, <3>1
    <3> HIDE DEF first
    <3> QED BY <1>1, <3>1, <3>2
  <2> QED BY <1>5, <2>1, <2>2
<1> QED BY <1>6, <1>7

----------------------------------------------------------------------------
(* The periods of a rule.                                                   *)

PeriodStart(p) == CandidatesForPeriod(p).start
Candidates(p) == CandidatesForPeriod(p).days

(* The first day after a period.                                            *)
PeriodEnd(p) ==
    CASE rule.freq = "DAILY" -> PeriodStart(p) + 1
      [] rule.freq = "WEEKLY" -> PeriodStart(p) + 7
      [] rule.freq = "MONTHLY" -> MonthStart(MonthAt(input.day) + p * rule.interval + 1)
      [] rule.freq = "YEARLY" ->
            MonthStart(12 * ((MonthAt(input.day) \div 12) + p * rule.interval + 1))

(* A period holds the days that are its own and that the rule allows.       *)
PeriodHolds(p) ==
    /\ PeriodStart(p) \in Int /\ PeriodEnd(p) \in Int
    /\ Candidates(p) \in SUBSET (PeriodStart(p)..(PeriodEnd(p) - 1))
    /\ \A d \in Nat : d \in Candidates(p) <=> PeriodOf(d) = p * rule.interval /\ Allowed(d)

LEMMA Frequency ==
  ASSUME NEW p
  PROVE  /\ rule.freq = "DAILY" => CandidatesForPeriod(p) = Daily(p)
         /\ rule.freq = "WEEKLY" => CandidatesForPeriod(p) = Weekly(p)
         /\ rule.freq = "MONTHLY" => CandidatesForPeriod(p) = Monthly(p)
         /\ rule.freq = "YEARLY" => CandidatesForPeriod(p) = Yearly(p)
BY DEF CandidatesForPeriod

LEMMA Offsets ==
  ASSUME input \in Case, NEW p \in Nat
  PROVE  p * rule.interval \in Nat
<1>1. rule.interval \in Nat BY InputTypes
<1> QED BY <1>1

LEMMA DailyPeriods ==
  ASSUME input \in Case, rule.freq = "DAILY", NEW p \in Nat
  PROVE  PeriodStart(p) = input.day + p * rule.interval /\ PeriodHolds(p)
<1> DEFINE n == p * rule.interval
           day == input.day + n
           matches == /\ InMonth(day)
                      /\ rule.byMonthDay = {} \/ MatchesMonthDay(day)
                      /\ rule.byDay = {} \/ \E e \in rule.byDay : e.weekday = Weekday(day)
<1>1. n \in Nat /\ input.day \in Nat BY Offsets, InputTypes
<1>2. Daily(p) = [start |-> day, days |-> IF matches THEN {day} ELSE {}] BY DEF Daily
<1>3. PeriodStart(p) = day /\ Candidates(p) = IF matches THEN {day} ELSE {}
  <2> HIDE DEF matches, day
  <2> QED BY <1>2, Frequency DEF PeriodStart, Candidates
<1>4. day \in Nat BY <1>1
<1>5. matches <=> Allowed(day)
  <2>1. MatchesMonthDay(day) <=> MonthDayOf(day) \cap rule.byMonthDay # {}
    <3> DEFINE length == MonthLength(MonthAt(day))
    <3>1. DayOfMonth(day) \in 1..length /\ length \in Nat
      <4> HIDE DEF day
      <4> QED BY <1>4, DayInItsMonth
    <3>2. \A m \in rule.byMonthDay : m \in Int BY InputTypes
    <3> HIDE DEF day
    <3>3. MonthDayOf(day) = {DayOfMonth(day), DayOfMonth(day) - length - 1} BY DEF MonthDayOf
    <3>4. MatchesMonthDay(day) <=> \E m \in rule.byMonthDay : ResolveMonthDay(m, length) = DayOfMonth(day)
      BY DEF MatchesMonthDay
    <3> HIDE DEF length
    <3>5. \A m \in rule.byMonthDay : ResolveMonthDay(m, length) = DayOfMonth(day) <=> m \in MonthDayOf(day)
      BY <3>1, <3>2, <3>3, Resolved
    <3> QED BY <3>4, <3>5
  <2>2. Allowed(day) <=> /\ rule.byMonth # {} => MonthOf(day) \in rule.byMonth
                         /\ rule.byMonthDay # {} => MonthDayOf(day) \cap rule.byMonthDay # {}
                         /\ rule.byDay # {} => ByDayAllows(day)
    BY DEF Allowed
  <2> HIDE DEF day
  <2> QED BY <2>1, <2>2 DEF InMonth, ByDayAllows
<1>6. \A d \in Nat : PeriodOf(d) = d - input.day BY DEF PeriodOf
<1>7. PeriodEnd(p) = day + 1 BY <1>3 DEF PeriodEnd
<1> HIDE DEF matches
<1>8. Candidates(p) \in SUBSET (day..(day + 1 - 1)) BY <1>3, <1>4
<1>9. ASSUME NEW d \in Nat
      PROVE  d \in Candidates(p) <=> PeriodOf(d) = n /\ Allowed(d)
  <2>1. PeriodOf(d) = n <=> d = day BY <1>1, <1>6
  <2>2. d \in Candidates(p) <=> d = day /\ matches BY <1>3
  <2> HIDE DEF day
  <2> QED BY <1>5, <2>1, <2>2
<1> QED BY <1>3, <1>4, <1>7, <1>8, <1>9 DEF PeriodHolds

(* A week starts at one of seven days.                                      *)
LEMMA WeekOf ==
  ASSUME NEW d \in Int, NEW first \in 0..6, NEW s \in Int
  PROVE  d - ((Weekday(d) - first) % 7) = s <=> (s + 1 - first) % 7 = 0 /\ s <= d /\ d <= s + 6
BY DEF Weekday

LEMMA WeeksApart ==
  ASSUME NEW s \in Int, NEW t \in Int, NEW first \in Int,
         (s + 1 - first) % 7 = 0, (t + 1 - first) % 7 = 0
  PROVE  (t - s) % 7 = 0
OBVIOUS

LEMMA WeeklyPeriods ==
  ASSUME input \in Case, rule.freq = "WEEKLY", NEW p \in Nat
  PROVE  PeriodStart(p) = StartOfWeek(input.day) + 7 * (p * rule.interval) /\ PeriodHolds(p)
<1> DEFINE n == p * rule.interval
           s == StartOfWeek(input.day)
           week == s + p * rule.interval * 7
           wanted == IF rule.byDay = {} THEN {Weekday(input.day)} ELSE {e.weekday : e \in rule.byDay}
<1>1. n \in Nat /\ input.day \in Nat /\ rule.wkst \in 0..6 BY Offsets, InputTypes DEF Weekdays
<1>2. s \in Int /\ (s + 1 - rule.wkst) % 7 = 0
  <2>1. s \in Int BY <1>1 DEF StartOfWeek, Weekday
  <2>2. input.day - ((Weekday(input.day) - rule.wkst) % 7) = s BY DEF StartOfWeek
  <2> QED BY <1>1, <2>1, <2>2, WeekOf
<1>3. week = s + 7 * n /\ week \in Int
  <2>1. p * rule.interval * 7 = n * 7 OBVIOUS
  <2> HIDE DEF n, s
  <2> QED BY <1>1, <1>2, <2>1
<1>4. PeriodStart(p) = week
      /\ Candidates(p) = {d \in week..(week + 6) : Weekday(d) \in wanted /\ InMonth(d)}
  <2>1. Weekly(p) = [start |-> week, days |-> {d \in week..(week + 6) : Weekday(d) \in wanted /\ InMonth(d)}]
    BY DEF Weekly
  <2> HIDE DEF week, wanted
  <2> QED BY <2>1, Frequency DEF PeriodStart, Candidates
<1>5. PeriodEnd(p) = week + 7 BY <1>4 DEF PeriodEnd
<1> HIDE DEF week
<1>6. ASSUME NEW d \in Nat PROVE PeriodOf(d) = n <=> d \in week..(week + 6)
  <2>1. PeriodOf(d) = (WeekStart(d) - WeekStart(input.day)) \div 7 BY DEF PeriodOf
  <2>2. WeekStart(input.day) = s BY DEF WeekStart, StartOfWeek
  <2> DEFINE t == WeekStart(d)
  <2>3. t \in Int /\ \A u \in Int : t = u <=> (u + 1 - rule.wkst) % 7 = 0 /\ u <= d /\ d <= u + 6
    <3>1. t = d - ((Weekday(d) - rule.wkst) % 7) BY DEF WeekStart
    <3>2. t \in Int BY <1>1, <3>1 DEF Weekday
    <3> HIDE DEF t
    <3> QED BY <1>1, <3>1, <3>2, WeekOf
  <2>4. (t + 1 - rule.wkst) % 7 = 0 /\ t <= d /\ d <= t + 6 BY <2>3
  <2>5. t = week <=> d \in week..(week + 6)
    <3>1. (week + 1 - rule.wkst) % 7 = 0
      <4> HIDE DEF s, n
      <4> QED BY <1>1, <1>2, <1>3
    <3> HIDE DEF t
    <3> QED BY <1>3, <2>3, <3>1
  <2>6. (t - s) \div 7 = n <=> t = week
    <3>1. (t - s) % 7 = 0
      <4> HIDE DEF t, s
      <4>1. s \in Int /\ t \in Int /\ rule.wkst \in Int BY <1>1, <1>2, <2>3
      <4> QED BY <1>2, <2>4, <4>1, WeeksApart
    <3> HIDE DEF t, s, n
    <3> QED BY <1>1, <1>2, <1>3, <2>3, <3>1
  <2> QED BY <2>1, <2>2, <2>5, <2>6
<1>7. ASSUME NEW d \in Nat PROVE Allowed(d) <=> Weekday(d) \in wanted /\ InMonth(d)
  <2>1. Allowed(d) <=> /\ rule.byMonth # {} => MonthOf(d) \in rule.byMonth
                       /\ IF rule.byDay # {} THEN ByDayAllows(d) ELSE Weekday(d) = Weekday(input.day)
    BY DEF Allowed
  <2>2. CASE rule.byDay = {} BY <2>1, <2>2 DEF InMonth
  <2>3. CASE rule.byDay # {} BY <2>1, <2>3 DEF InMonth, ByDayAllows
  <2> QED BY <2>2, <2>3
<1> HIDE DEF wanted, n
<1>8. Candidates(p) \in SUBSET (week..(week + 7 - 1)) BY <1>3, <1>4
<1>9. ASSUME NEW d \in Nat
      PROVE  d \in Candidates(p) <=> PeriodOf(d) = n /\ Allowed(d)
  BY <1>4, <1>6, <1>7
<1>10. week \in Int /\ week + 7 \in Int BY <1>3
<1> QED BY <1>3, <1>4, <1>5, <1>8, <1>9, <1>10 DEF PeriodHolds, n

LEMMA MonthlyPeriods ==
  ASSUME input \in Case, rule.freq = "MONTHLY", NEW p \in Nat
  PROVE  /\ PeriodStart(p) = MonthStart(MonthAt(input.day) + p * rule.interval)
         /\ PeriodEnd(p) = MonthStart(MonthAt(input.day) + p * rule.interval + 1)
         /\ PeriodHolds(p)
<1> DEFINE n == p * rule.interval
           first == MonthAt(input.day)
           i == first + n
           skipped == rule.byMonth # {} /\ (i % 12) + 1 \notin rule.byMonth
<1>1. n \in Nat /\ first \in Nat /\ i \in Int
  <2>1. n \in Nat /\ input.day \in Nat BY Offsets, InputTypes
  <2>2. first \in Nat BY <2>1, MonthOfDay
  <2> HIDE DEF n, first
  <2> QED BY <2>1, <2>2
<1>2. PeriodStart(p) = MonthStart(i) /\ Candidates(p) = IF skipped THEN {} ELSE ExpandMonthDays(i)
  <2>1. Monthly(p) = [start |-> MonthStart(i), days |-> IF skipped THEN {} ELSE ExpandMonthDays(i)]
    BY DEF Monthly
  <2> HIDE DEF i, skipped
  <2> QED BY <2>1, Frequency DEF PeriodStart, Candidates
<1>3. PeriodEnd(p) = MonthStart(i + 1) BY DEF PeriodEnd
<1>4. MonthStart(i) \in Int /\ MonthStart(i + 1) \in Int
  <2> HIDE DEF i
  <2> QED BY <1>1, MonthLengths
<1>5. /\ ExpandMonthDays(i) \in SUBSET (MonthStart(i)..(MonthStart(i + 1) - 1))
      /\ \A d \in Nat : d \in ExpandMonthDays(i) <=> MonthAt(d) = i /\ DayInMonth(d)
  <2> HIDE DEF i
  <2> QED BY <1>1, ExpandedDays
<1>6. ASSUME NEW d \in Nat
      PROVE  d \in Candidates(p) <=> PeriodOf(d) = n /\ Allowed(d)
  <2>1. PeriodOf(d) = MonthAt(d) - first /\ MonthAt(d) \in Nat BY MonthOfDay DEF PeriodOf
  <2>2. PeriodOf(d) = n <=> MonthAt(d) = i
    <3> HIDE DEF n, first
    <3> QED BY <1>1, <2>1
  <2>3. Allowed(d) <=> (rule.byMonth # {} => MonthOf(d) \in rule.byMonth) /\ DayInMonth(d) BY DEF Allowed
  <2>4. MonthAt(d) = i => MonthOf(d) = (i % 12) + 1 BY DEF MonthOf
  <2> HIDE DEF i, n
  <2> QED BY <1>2, <1>5, <2>2, <2>3, <2>4
<1> HIDE DEF skipped
<1>7. Candidates(p) \in SUBSET (MonthStart(i)..(MonthStart(i + 1) - 1)) BY <1>2, <1>5
<1>8. PeriodHolds(p) BY <1>2, <1>3, <1>4, <1>6, <1>7 DEF PeriodHolds
<1> QED BY <1>2, <1>3, <1>8

LEMMA YearlyPeriods ==
  ASSUME input \in Case, rule.freq = "YEARLY", NEW p \in Nat
  PROVE  LET year == (MonthAt(input.day) \div 12) + p * rule.interval
         IN /\ PeriodStart(p) = MonthStart(12 * year)
            /\ PeriodEnd(p) = MonthStart(12 * (year + 1))
            /\ PeriodHolds(p)
<1> DEFINE n == p * rule.interval
           first == MonthAt(input.day) \div 12
           year == first + n
           january == 12 * year
           months == IF rule.byMonth = {} THEN {MonthOf(input.day)} ELSE rule.byMonth
<1>1. n \in Nat /\ first \in Int /\ year \in Int
  <2>1. n \in Nat /\ MonthAt(input.day) \in Nat BY Offsets, InputTypes, MonthOfDay
  <2> HIDE DEF n
  <2> QED BY <2>1
<1>2. months \in SUBSET (1..12)
  <2>1. \A i \in Int : (i % 12) + 1 \in 1..12 OBVIOUS
  <2>2. MonthOf(input.day) \in 1..12
    <3>1. MonthAt(input.day) \in Int BY InputTypes, MonthOfDay
    <3> QED BY <2>1, <3>1 DEF MonthOf
  <2> QED BY <2>2, InputTypes
<1>3. PeriodStart(p) = MonthStart(january)
      /\ Candidates(p) = UNION {ExpandMonthDays(january + month - 1) : month \in months}
  <2>1. Yearly(p) = [start |-> MonthStart(january),
                     days |-> UNION {ExpandMonthDays(january + month - 1) : month \in months}]
    BY DEF Yearly
  <2> HIDE DEF january, months
  <2> QED BY <2>1, Frequency DEF PeriodStart, Candidates
<1>4. PeriodEnd(p) = MonthStart(12 * (year + 1)) BY DEF PeriodEnd
<1> HIDE DEF year
<1>5. january \in Int /\ 12 * (year + 1) = january + 12 BY <1>1
<1>6. MonthStart(january) \in Int /\ MonthStart(january + 12) \in Int
  <2> HIDE DEF january
  <2> QED BY <1>5, MonthLengths
<1> HIDE DEF january
<1>7. ASSUME NEW month \in months
      PROVE  /\ ExpandMonthDays(january + month - 1) \in SUBSET (MonthStart(january)..(MonthStart(january + 12) - 1))
             /\ \A d \in Nat : d \in ExpandMonthDays(january + month - 1)
                                 <=> MonthAt(d) = january + month - 1 /\ DayInMonth(d)
  <2> DEFINE i == january + month - 1
             before == month - 1
             after == 12 - month
             next == i + 1
  <2>1. i \in Int /\ before \in Nat /\ after \in Nat /\ next \in Int /\ january + before = i
        /\ next + after = january + 12
    BY <1>2, <1>5
  <2>2. /\ ExpandMonthDays(i) \in SUBSET (MonthStart(i)..(MonthStart(i + 1) - 1))
        /\ \A d \in Nat : d \in ExpandMonthDays(i) <=> MonthAt(d) = i /\ DayInMonth(d)
    <3> HIDE DEF i
    <3> QED BY <2>1, ExpandedDays
  <2>3. MonthStart(i) - MonthStart(january) >= 0
    <3> HIDE DEF i, before
    <3>1. MonthStart(january + before) - MonthStart(january) \in (28 * before)..(31 * before)
      BY <1>5, <2>1, MonthsAhead
    <3> QED BY <2>1, <3>1
  <2>4. MonthStart(january + 12) - MonthStart(next) >= 0
    <3> HIDE DEF next, after
    <3>1. MonthStart(next + after) - MonthStart(next) \in (28 * after)..(31 * after)
      BY <2>1, MonthsAhead
    <3> QED BY <2>1, <3>1
  <2>5. MonthStart(i) \in Int /\ MonthStart(i + 1) \in Int
    <3> HIDE DEF i
    <3> QED BY <2>1, MonthLengths
  <2>6. MonthStart(i)..(MonthStart(i + 1) - 1) \subseteq MonthStart(january)..(MonthStart(january + 12) - 1)
    <3> HIDE DEF i
    <3> QED BY <1>6, <2>3, <2>4, <2>5 DEF next
  <2>7. ExpandMonthDays(i) \in SUBSET (MonthStart(january)..(MonthStart(january + 12) - 1))
    <3> HIDE DEF i
    <3> QED BY <2>2, <2>6
  <2> QED BY <2>2, <2>7
<1>8. ASSUME NEW d \in Nat
      PROVE  d \in Candidates(p) <=> PeriodOf(d) = n /\ Allowed(d)
  <2> DEFINE m == MonthAt(d)
  <2>1. PeriodOf(d) = (m \div 12) - first BY DEF PeriodOf
  <2>2. m \in Nat BY MonthOfDay
  <2> HIDE DEF m
  <2>3. PeriodOf(d) = n <=> m \div 12 = year
    <3>1. m \div 12 \in Int BY <2>2
    <3> HIDE DEF n, first
    <3> QED BY <1>1, <2>1, <3>1 DEF year
  <2>4. \A month \in 1..12 : m = january + month - 1 <=> m \div 12 = year /\ (m % 12) + 1 = month
    BY <1>1, <2>2 DEF january
  <2>5. Allowed(d) <=> /\ rule.byMonth # {} => MonthOf(d) \in rule.byMonth
                       /\ DayInMonth(d) /\ (rule.byMonth = {} => MonthOf(d) = MonthOf(input.day))
    BY DEF Allowed
  <2>6. Allowed(d) <=> MonthOf(d) \in months /\ DayInMonth(d) BY <2>5
  <2>7. MonthOf(d) = (m % 12) + 1 BY DEF MonthOf, m
  <2> HIDE DEF months
  <2>8. d \in Candidates(p) <=> \E month \in months : d \in ExpandMonthDays(january + month - 1)
    BY <1>3
  <2>9. d \in Candidates(p) <=> \E month \in months : m = january + month - 1 /\ DayInMonth(d)
    BY <1>7, <2>8 DEF m
  <2>10. d \in Candidates(p) <=> \E month \in months : m \div 12 = year /\ MonthOf(d) = month /\ DayInMonth(d)
    BY <1>2, <2>4, <2>7, <2>9
  <2> QED BY <2>3, <2>6, <2>10
<1> HIDE DEF months
<1>9. Candidates(p) \in SUBSET (MonthStart(january)..(MonthStart(january + 12) - 1)) BY <1>3, <1>7
<1>10. PeriodHolds(p) BY <1>3, <1>4, <1>5, <1>6, <1>8, <1>9 DEF PeriodHolds
<1> QED BY <1>3, <1>4, <1>10 DEF january, year

LEMMA PeriodsHold ==
  ASSUME input \in Case, rule.freq # "NONE", NEW p \in Nat
  PROVE  PeriodHolds(p)
<1>1. rule.freq \in {"DAILY", "WEEKLY", "MONTHLY", "YEARLY"} BY InputTypes DEF Frequencies
<1> QED BY <1>1, DailyPeriods, WeeklyPeriods, MonthlyPeriods, YearlyPeriods

(* Where a period starts and ends, in the units of its frequency.           *)
LEMMA MonthsAsFar ==
  ASSUME NEW i \in Int, NEW j \in Int, i <= j
  PROVE  MonthStart(i) <= MonthStart(j)
<1>1. MonthStart(i) \in Int BY MonthLengths
<1>2. CASE i = j BY <1>1, <1>2
<1>3. CASE i < j
  <2>1. MonthStart(i) < MonthStart(j) BY <1>3, MonthsInOrder
  <2>2. MonthStart(j) \in Int BY MonthLengths
  <2> QED BY <1>1, <2>1, <2>2
<1> QED BY <1>2, <1>3

LEMMA PeriodsInOrder ==
  ASSUME input \in Case, rule.freq # "NONE", NEW p \in Nat, NEW q \in Nat, p < q
  PROVE  PeriodEnd(p) <= PeriodStart(q)
<1> DEFINE n == p * rule.interval
           m == q * rule.interval
<1>1. n \in Nat /\ m \in Nat BY Offsets
<1>2. n + 1 <= m
  <2>1. rule.interval \in Nat \ {0} BY InputTypes
  <2>2. n + rule.interval <= m BY <2>1, Multiples
  <2> HIDE DEF n, m
  <2> QED BY <1>1, <2>1, <2>2
<1>3. input.day \in Nat /\ MonthAt(input.day) \in Nat BY InputTypes, MonthOfDay
<1>4. CASE rule.freq = "DAILY"
  <2>1. PeriodStart(p) = input.day + n /\ PeriodStart(q) = input.day + m BY <1>4, DailyPeriods
  <2>2. PeriodEnd(p) = PeriodStart(p) + 1 BY <1>4 DEF PeriodEnd
  <2> HIDE DEF n, m
  <2> QED BY <1>1, <1>2, <1>3, <2>1, <2>2
<1>5. CASE rule.freq = "WEEKLY"
  <2> DEFINE s == StartOfWeek(input.day)
  <2>1. PeriodStart(p) = s + 7 * n /\ PeriodStart(q) = s + 7 * m BY <1>5, WeeklyPeriods
  <2>2. PeriodEnd(p) = PeriodStart(p) + 7 BY <1>5 DEF PeriodEnd
  <2>3. s \in Int
    <3>1. rule.wkst \in 0..6 BY InputTypes DEF Weekdays
    <3> QED BY <1>3, <3>1 DEF StartOfWeek, Weekday
  <2> HIDE DEF n, m, s
  <2> QED BY <1>1, <1>2, <2>1, <2>2, <2>3
<1>6. CASE rule.freq = "MONTHLY"
  <2> DEFINE first == MonthAt(input.day)
             i == first + n + 1
             j == first + m
  <2>1. PeriodEnd(p) = MonthStart(i) /\ PeriodStart(q) = MonthStart(j) BY <1>6, MonthlyPeriods
  <2>2. i \in Int /\ j \in Int /\ i <= j
    <3> HIDE DEF n, m
    <3> QED BY <1>1, <1>2, <1>3
  <2> HIDE DEF i, j
  <2> QED BY <2>1, <2>2, MonthsAsFar
<1>7. CASE rule.freq = "YEARLY"
  <2> DEFINE first == MonthAt(input.day) \div 12
             i == 12 * (first + n + 1)
             j == 12 * (first + m)
  <2>1. PeriodEnd(p) = MonthStart(i) /\ PeriodStart(q) = MonthStart(j) BY <1>7, YearlyPeriods
  <2>2. i \in Int /\ j \in Int /\ i <= j
    <3>1. first \in Int BY <1>3
    <3> HIDE DEF n, m, first
    <3> QED BY <1>1, <1>2, <3>1
  <2> HIDE DEF i, j
  <2> QED BY <2>1, <2>2, MonthsAsFar
<1>8. rule.freq \in {"DAILY", "WEEKLY", "MONTHLY", "YEARLY"} BY InputTypes DEF Frequencies
<1> QED BY <1>4, <1>5, <1>6, <1>7, <1>8

(* A period has a day at least, a month at most 31 and a year at most 366.  *)
LEMMA PeriodLengths ==
  ASSUME input \in Case, rule.freq # "NONE", NEW p \in Nat
  PROVE  /\ PeriodStart(p) < PeriodEnd(p)
         /\ rule.freq = "MONTHLY" => PeriodStart(p) \in Nat /\ PeriodEnd(p) - PeriodStart(p) <= 31
         /\ rule.freq = "YEARLY" => PeriodStart(p) \in Nat /\ PeriodEnd(p) - PeriodStart(p) <= 366
<1> DEFINE n == p * rule.interval
<1>1. n \in Nat BY Offsets
<1>2. MonthAt(input.day) \in Nat BY InputTypes, MonthOfDay
<1>3. PeriodStart(p) \in Int /\ PeriodEnd(p) \in Int BY PeriodsHold DEF PeriodHolds
<1>4. CASE rule.freq = "DAILY"
  <2>1. PeriodEnd(p) = PeriodStart(p) + 1 BY <1>4 DEF PeriodEnd
  <2> QED BY <1>3, <1>4, <2>1
<1>5. CASE rule.freq = "WEEKLY"
  <2>1. PeriodEnd(p) = PeriodStart(p) + 7 BY <1>5 DEF PeriodEnd
  <2> QED BY <1>3, <1>5, <2>1
<1>6. CASE rule.freq = "MONTHLY"
  <2> DEFINE i == MonthAt(input.day) + n
  <2>1. PeriodStart(p) = MonthStart(i) /\ PeriodEnd(p) = MonthStart(i + 1) BY <1>6, MonthlyPeriods
  <2>2. i \in Nat
    <3> HIDE DEF n
    <3> QED BY <1>1, <1>2
  <2> HIDE DEF i
  <2>3. MonthStart(i) >= 0 /\ MonthStart(i) \in Int BY <2>2, MonthBounds
  <2>4. MonthStart(i + 1) - MonthStart(i) \in 28..31 BY <2>2, MonthLengths DEF MonthLength
  <2> QED BY <1>3, <1>6, <2>1, <2>3, <2>4
<1>7. CASE rule.freq = "YEARLY"
  <2> DEFINE year == (MonthAt(input.day) \div 12) + n
  <2>1. PeriodStart(p) = MonthStart(12 * year) /\ PeriodEnd(p) = MonthStart(12 * (year + 1))
    BY <1>7, YearlyPeriods
  <2>2. year \in Nat
    <3>1. MonthAt(input.day) \div 12 \in Nat BY <1>2
    <3> HIDE DEF n
    <3> QED BY <1>1, <3>1
  <2> HIDE DEF year
  <2>3. MonthStart(12 * year) >= 0 /\ MonthStart(12 * year) \in Int
    <3>1. 12 * year \in Nat BY <2>2
    <3>2. MonthStart(12 * year) \in (28 * (12 * year))..(31 * (12 * year)) BY <3>1, MonthBounds
    <3> QED BY <2>2, <3>2
  <2>4. MonthStart(12 * (year + 1)) - MonthStart(12 * year) \in 365..366 BY <2>2, YearLengths
  <2> QED BY <1>3, <1>7, <2>1, <2>3, <2>4
<1>8. rule.freq \in {"DAILY", "WEEKLY", "MONTHLY", "YEARLY"} BY InputTypes DEF Frequencies
<1> QED BY <1>4, <1>5, <1>6, <1>7, <1>8

(* The first period is that of DTSTART.                                     *)
LEMMA FirstPeriod ==
  ASSUME input \in Case, rule.freq # "NONE"
  PROVE  PeriodStart(0) <= input.day /\ input.day < PeriodEnd(0) /\ input.day - 365 <= PeriodStart(0)
<1> DEFINE n == 0 * rule.interval
           month == MonthAt(input.day)
<1>1. n = 0 /\ 0 \in Nat
  <2>1. rule.interval \in Nat BY InputTypes
  <2> QED BY <2>1
<1>2. input.day \in Nat BY InputTypes
<1>3. month \in Nat /\ MonthStart(month) <= input.day /\ input.day < MonthStart(month + 1)
  BY <1>2, MonthOfDay
<1>4. PeriodStart(0) \in Int /\ PeriodEnd(0) \in Int BY <1>1, PeriodsHold DEF PeriodHolds
<1>5. CASE rule.freq = "DAILY"
  <2>1. PeriodStart(0) = input.day + n BY <1>1, <1>5, DailyPeriods
  <2>2. PeriodEnd(0) = PeriodStart(0) + 1 BY <1>5 DEF PeriodEnd
  <2> HIDE DEF n
  <2> QED BY <1>1, <1>2, <2>1, <2>2
<1>6. CASE rule.freq = "WEEKLY"
  <2> DEFINE s == StartOfWeek(input.day)
  <2>1. PeriodStart(0) = s + 7 * n BY <1>1, <1>6, WeeklyPeriods
  <2>2. PeriodEnd(0) = PeriodStart(0) + 7 BY <1>6 DEF PeriodEnd
  <2>3. s \in Int /\ s <= input.day /\ input.day <= s + 6
    <3>1. rule.wkst \in 0..6 BY InputTypes DEF Weekdays
    <3> QED BY <1>2, <3>1 DEF StartOfWeek, Weekday
  <2> HIDE DEF n, s
  <2> QED BY <1>1, <1>2, <2>1, <2>2, <2>3
<1>7. CASE rule.freq = "MONTHLY"
  <2>1. PeriodStart(0) = MonthStart(month + n) /\ PeriodEnd(0) = MonthStart(month + n + 1)
    BY <1>1, <1>7, MonthlyPeriods
  <2> HIDE DEF n
  <2>2. month + n = month BY <1>1, <1>3
  <2>3. MonthStart(month + 1) - MonthStart(month) \in 28..31 /\ MonthStart(month) \in Int
        /\ MonthStart(month + 1) \in Int
    BY <1>3, MonthLengths DEF MonthLength
  <2> HIDE DEF month
  <2> QED BY <1>2, <1>3, <2>1, <2>2, <2>3
<1>8. CASE rule.freq = "YEARLY"
  <2> DEFINE year == month \div 12
             start == 12 * year
             end == 12 * (year + 1)
  <2>1. PeriodStart(0) = MonthStart(12 * (year + n)) /\ PeriodEnd(0) = MonthStart(12 * (year + n + 1))
    BY <1>1, <1>8, YearlyPeriods
  <2>2. year \in Int /\ start \in Int /\ end \in Int /\ start <= month /\ month + 1 <= end
    <3> HIDE DEF month
    <3> QED BY <1>3
  <2>3. year + n = year
    <3> HIDE DEF n, year
    <3> QED BY <1>1, <2>2
  <2>4. MonthStart(start) <= MonthStart(month)
    <3> HIDE DEF start, month
    <3> QED BY <1>3, <2>2, MonthsAsFar
  <2>5. MonthStart(month + 1) <= MonthStart(end)
    <3> HIDE DEF end, month
    <3> QED BY <1>3, <2>2, MonthsAsFar
  <2>6. MonthStart(end) - MonthStart(start) \in 365..366
    <3> HIDE DEF year
    <3> QED BY <2>2, YearLengths
  <2>7. PeriodStart(0) = MonthStart(start) /\ PeriodEnd(0) = MonthStart(end)
    <3> HIDE DEF n, year
    <3> QED BY <2>1, <2>3
  <2>8. MonthStart(month) \in Int /\ MonthStart(month + 1) \in Int BY <1>3, MonthLengths
  <2> HIDE DEF start, end, month
  <2> QED BY <1>2, <1>3, <1>4, <2>4, <2>5, <2>6, <2>7, <2>8
<1>9. rule.freq \in {"DAILY", "WEEKLY", "MONTHLY", "YEARLY"} BY InputTypes DEF Frequencies
<1> QED BY <1>5, <1>6, <1>7, <1>8, <1>9

----------------------------------------------------------------------------
(* The days of the series.                                                  *)

PeriodDays(p) == ApplySetPos(Candidates(p))

LEMMA PeriodDaysAreCandidates ==
  ASSUME NEW p
  PROVE  PeriodDays(p) \in SUBSET Candidates(p)
BY DEF PeriodDays, ApplySetPos, At

(* Time goes on by periods.                                                 *)
LEMMA PeriodsOfDays ==
  ASSUME input \in Case, rule.freq # "NONE", NEW d \in Nat
  PROVE  PeriodOf(d) \in Int /\ (input.day <= d => PeriodOf(d) \in Nat)
<1> DEFINE m == MonthAt(d)
           first == MonthAt(input.day)
<1>1. input.day \in Nat /\ rule.wkst \in 0..6 BY InputTypes DEF Weekdays
<1>2. m \in Nat /\ first \in Nat BY <1>1, MonthOfDay
<1>3. input.day <= d => first <= m
  <2> SUFFICES ASSUME input.day <= d, m < first PROVE FALSE BY <1>2
  <2>1. MonthStart(m + 1) <= MonthStart(first) BY <1>2, MonthsInOrder
  <2>2. d < MonthStart(m + 1) /\ MonthStart(first) <= input.day BY <1>1, MonthOfDay
  <2>3. MonthStart(m + 1) \in Int /\ MonthStart(first) \in Int BY <1>2, MonthLengths
  <2> QED BY <1>1, <2>1, <2>2, <2>3
<1>4. CASE rule.freq = "DAILY"
  <2>1. PeriodOf(d) = d - input.day BY <1>4 DEF PeriodOf
  <2> QED BY <1>1, <2>1
<1>5. CASE rule.freq = "WEEKLY"
  <2> DEFINE s == WeekStart(input.day)
             t == WeekStart(d)
  <2>1. PeriodOf(d) = (t - s) \div 7 BY <1>5 DEF PeriodOf
  <2>2. s \in Int /\ (s + 1 - rule.wkst) % 7 = 0 /\ s <= input.day /\ input.day <= s + 6
    <3>1. s = input.day - ((Weekday(input.day) - rule.wkst) % 7) BY DEF WeekStart
    <3>2. s \in Int BY <1>1, <3>1 DEF Weekday
    <3> HIDE DEF s
    <3> QED BY <1>1, <3>1, <3>2, WeekOf
  <2>3. t \in Int /\ (t + 1 - rule.wkst) % 7 = 0 /\ t <= d /\ d <= t + 6
    <3>1. t = d - ((Weekday(d) - rule.wkst) % 7) BY DEF WeekStart
    <3>2. t \in Int BY <1>1, <3>1 DEF Weekday
    <3> HIDE DEF t
    <3> QED BY <1>1, <3>1, <3>2, WeekOf
  <2> HIDE DEF s, t
  <2>4. (t - s) % 7 = 0
    <3>1. s \in Int /\ t \in Int /\ rule.wkst \in Int BY <1>1, <2>2, <2>3
    <3> QED BY <2>2, <2>3, <3>1, WeeksApart
  <2> QED BY <1>1, <2>1, <2>2, <2>3, <2>4
<1>6. CASE rule.freq = "MONTHLY"
  <2>1. PeriodOf(d) = m - first BY <1>6 DEF PeriodOf
  <2> HIDE DEF m, first
  <2> QED BY <1>2, <1>3, <2>1
<1>7. CASE rule.freq = "YEARLY"
  <2>1. PeriodOf(d) = (m \div 12) - (first \div 12) BY <1>7 DEF PeriodOf
  <2> HIDE DEF m, first
  <2> QED BY <1>2, <1>3, <2>1
<1>8. rule.freq \in {"DAILY", "WEEKLY", "MONTHLY", "YEARLY"} BY InputTypes DEF Frequencies
<1> QED BY <1>4, <1>5, <1>6, <1>7, <1>8

(* Up to the end of the window, the series has the days of the periods.     *)
LEMMA DaysOfTheSeries ==
  ASSUME input \in Case, rule.freq # "NONE",
         NEW d \in Nat, input.day < d, d <= (input.to \div 24) + 1
  PROVE  d \in SeriesDays <=> \E p \in Nat : d \in PeriodDays(p)
<1> DEFINE horizon == (input.to \div 24) + (IF rule.freq = "YEARLY" THEN 366 ELSE 31)
           days == {e \in 0..horizon : PeriodOf(e) % rule.interval = 0 /\ Allowed(e)}
           everyDay == rule.bySetPos = {} \/ rule.freq \notin {"MONTHLY", "YEARLY"}
           kept == IF everyDay THEN days ELSE {e \in days : Places(e, days) \cap rule.bySetPos # {}}
<1>1. input.day \in Nat /\ input.to \in Int /\ rule.interval \in Nat \ {0}
      /\ rule.freq \in {"DAILY", "WEEKLY", "MONTHLY", "YEARLY"} /\ rule.bySetPos \in SUBSET Int
  BY InputTypes DEF Frequencies
<1>2. d \in SeriesDays <=> d \in kept
  <2>1. SeriesDays = {input.day} \cup {e \in kept : e > input.day} BY DEF SeriesDays
  <2> HIDE DEF kept
  <2> QED BY <1>1, <2>1
<1>3. horizon \in Int /\ d <= horizon BY <1>1
<1>4. d \in days <=> PeriodOf(d) % rule.interval = 0 /\ Allowed(d)
  <2> HIDE DEF horizon
  <2> QED BY <1>3
<1>5. PeriodOf(d) % rule.interval = 0 <=> \E p \in Nat : PeriodOf(d) = p * rule.interval
  <2>1. PeriodOf(d) \in Nat BY <1>1, PeriodsOfDays
  <2> QED BY <1>1, <2>1, Multiple
<1>6. \A p \in Nat : PeriodHolds(p) BY PeriodsHold
<1>7. \A p \in Nat : d \in Candidates(p) <=> PeriodOf(d) = p * rule.interval /\ Allowed(d)
  BY <1>6 DEF PeriodHolds
<1>8. d \in days <=> \E p \in Nat : d \in Candidates(p)
  <2> HIDE DEF days
  <2> QED BY <1>4, <1>5, <1>7
<1>9. CASE everyDay
  <2>1. \A p : PeriodDays(p) = Candidates(p) BY <1>1, <1>9 DEF PeriodDays, ApplySetPos
  <2> HIDE DEF days, everyDay
  <2> QED BY <1>2, <1>8, <1>9, <2>1
<1>10. CASE ~everyDay
  <2>1. \A p : PeriodDays(p) = At(rule.bySetPos, Candidates(p))
    BY <1>1, <1>10 DEF PeriodDays, ApplySetPos
  <2>2. ASSUME NEW p \in Nat, d \in Candidates(p)
        PROVE  d \in PeriodDays(p) <=> Places(d, days) \cap rule.bySetPos # {}
    <3> DEFINE C == Candidates(p)
               mates == {e \in days : PeriodOf(e) = PeriodOf(d)}
    <3>1. PeriodOf(d) = p * rule.interval BY <1>7, <2>2
    <3>2. /\ C \in SUBSET (PeriodStart(p)..(PeriodEnd(p) - 1))
          /\ PeriodStart(p) \in Int /\ PeriodEnd(p) \in Int
          /\ \A e \in Nat : e \in C <=> PeriodOf(e) = p * rule.interval /\ Allowed(e)
      BY <1>6 DEF PeriodHolds
    <3>3. PeriodStart(p) \in Nat
          /\ PeriodEnd(p) - PeriodStart(p) <= IF rule.freq = "YEARLY" THEN 366 ELSE 31
      <4>1. rule.freq = "MONTHLY" => PeriodStart(p) \in Nat /\ PeriodEnd(p) - PeriodStart(p) <= 31
        BY PeriodLengths
      <4>2. rule.freq = "YEARLY" => PeriodStart(p) \in Nat /\ PeriodEnd(p) - PeriodStart(p) <= 366
        BY PeriodLengths
      <4>3. rule.freq = "MONTHLY" \/ rule.freq = "YEARLY" BY <1>10
      <4> QED BY <4>1, <4>2, <4>3
    <3>4. PeriodStart(p) <= d
      <4> HIDE DEF C
      <4> QED BY <2>2, <3>2 DEF C
    <3>5. PeriodEnd(p) - 1 <= horizon BY <1>1, <3>2, <3>3, <3>4
    <3>6. C \in SUBSET (0..horizon)
      <4> HIDE DEF C, horizon
      <4> QED BY <1>3, <3>2, <3>3, <3>5
    <3>7. PeriodOf(d) % rule.interval = 0 BY <1>5, <3>1
    <3>8. mates = C
      <4>1. ASSUME NEW e \in 0..horizon PROVE e \in mates <=> e \in C
        <5>1. e \in Nat BY <1>3
        <5>2. e \in mates <=> PeriodOf(e) % rule.interval = 0 /\ Allowed(e) /\ PeriodOf(e) = PeriodOf(d)
          <6> HIDE DEF horizon
          <6> QED OBVIOUS
        <5> HIDE DEF mates, C
        <5> QED BY <3>1, <3>2, <3>7, <5>1, <5>2
      <4>2. mates \in SUBSET (0..horizon) OBVIOUS
      <4> HIDE DEF mates, C, horizon
      <4> QED BY <3>6, <4>1, <4>2
    <3>9. Places(d, days) = {Cardinality({e \in mates : e <= d}), -Cardinality({e \in mates : e >= d})}
      <4> HIDE DEF days
      <4> QED BY DEF Places
    <3> HIDE DEF mates, days
    <3>10. IsFiniteSet(C) /\ C \in SUBSET Int
      <4>1. IsFiniteSet(PeriodStart(p)..(PeriodEnd(p) - 1)) BY <3>2, FS_Interval
      <4>2. IsFiniteSet(C)
        <5> HIDE DEF C
        <5> QED BY <3>2, <4>1, FS_Subset
      <4> HIDE DEF C
      <4> QED BY <3>2, <4>2
    <3>11. d \in At(rule.bySetPos, C) <=>
             {Cardinality({e \in C : e <= d}), -Cardinality({e \in C : e >= d})} \cap rule.bySetPos # {}
      <4>1. d \in C BY <2>2
      <4> HIDE DEF C
      <4> QED BY <1>1, <3>10, <4>1, Picked
    <3> QED BY <2>1, <3>8, <3>9, <3>11
  <2>3. \A p \in Nat : d \in PeriodDays(p) => d \in Candidates(p) BY PeriodDaysAreCandidates
  <2>4. d \in kept <=> d \in days /\ Places(d, days) \cap rule.bySetPos # {}
    <3> HIDE DEF days, everyDay
    <3> QED BY <1>10
  <2> HIDE DEF days, kept
  <2> QED BY <1>2, <1>8, <2>2, <2>3, <2>4
<1> QED BY <1>9, <1>10

----------------------------------------------------------------------------
(* The zones.                                                               *)

(* A set of numbers bounded from above has a latest one.                    *)
LEMMA LatestOne ==
  ASSUME NEW S \in SUBSET Int, S # {}, NEW b \in Int, \A x \in S : x <= b
  PROVE  Latest(S) \in S /\ \A y \in S : Latest(S) >= y
<1> DEFINE T == {n \in Nat : b - n \in S}
<1>1. T # {}
  <2>1. PICK x \in S : TRUE OBVIOUS
  <2>2. b - x \in Nat /\ b - (b - x) = x BY <2>1
  <2>3. b - x \in T BY <2>1, <2>2
  <2> QED BY <2>3
<1>2. PICK n \in T : \A m \in T : n <= m BY <1>1, LeastOne
<1>3. ASSUME NEW y \in S PROVE b - n >= y
  <2>1. b - y \in Nat /\ b - (b - y) = y OBVIOUS
  <2>2. b - y \in T BY <2>1
  <2> QED BY <1>2, <2>2
<1>4. b - n \in S BY <1>2
<1> QED BY <1>3, <1>4 DEF Latest

Past(zone, utc) == {i \in 1..Len(Transition[zone].at) : Transition[zone].at[i].utc <= utc}

ZoneOffsets(zone) ==
    {Transition[zone].before} \cup {Transition[zone].at[i].offset : i \in 1..Len(Transition[zone].at)}

LEMMA ZoneFacts ==
  ASSUME NEW zone \in DOMAIN Transition
  PROVE  /\ Len(Transition[zone].at) \in Nat
         /\ \A i \in 1..Len(Transition[zone].at) : Transition[zone].at[i].utc \in Int
         /\ ZoneOffsets(zone) \in SUBSET (-14..14)
         /\ \A o, p \in ZoneOffsets(zone) : o - p <= 24
         /\ \A i, j \in 1..Len(Transition[zone].at) :
               i < j => Transition[zone].at[j].utc - Transition[zone].at[i].utc >= 48
<1>1. Transition[zone].at \in Seq([utc : Int, offset : Int]) BY ZoneAssumption
<1>2. /\ ZoneOffsets(zone) \subseteq -14..14
      /\ \A o, p \in ZoneOffsets(zone) : o - p <= 24
      /\ \A i, j \in 1..Len(Transition[zone].at) :
            i < j => Transition[zone].at[j].utc - Transition[zone].at[i].utc >= 48
  BY ZoneAssumption DEF ZoneOffsets
<1>3. \A i \in 1..Len(Transition[zone].at) : Transition[zone].at[i] \in [utc : Int, offset : Int]
  <2> DEFINE at == Transition[zone].at
             changes == [utc : Int, offset : Int]
  <2>1. at \in Seq(changes) BY <1>1
  <2> HIDE DEF at, changes
  <2>2. \A i \in 1..Len(at) : at[i] \in changes BY <2>1
  <2> QED BY <2>2 DEF at, changes
<1>4. \A i \in 1..Len(Transition[zone].at) : Transition[zone].at[i].utc \in Int BY <1>3
<1>5. Len(Transition[zone].at) \in Nat BY <1>1
<1> QED BY <1>2, <1>4, <1>5

(* The offset is one of the zone's, and depends on the changes past.        *)
LEMMA OffsetOfZone ==
  ASSUME NEW zone \in DOMAIN Transition, NEW utc \in Int
  PROVE  /\ Offset(zone, utc) \in ZoneOffsets(zone) /\ Offset(zone, utc) \in -14..14
         /\ \A v : Past(zone, utc) = Past(zone, v) => Offset(zone, utc) = Offset(zone, v)
<1> DEFINE past == Past(zone, utc)
           i == CHOOSE i \in past : \A j \in past : j <= i
<1>1. \A v : Offset(zone, v) =
        IF Past(zone, v) = {} THEN Transition[zone].before
        ELSE Transition[zone].at[CHOOSE k \in Past(zone, v) : \A j \in Past(zone, v) : j <= k].offset
  BY DEF Offset, Past
<1>2. past # {} => i \in past
  <2> SUFFICES ASSUME past # {} PROVE i \in past OBVIOUS
  <2>1. past \in SUBSET Int /\ \A j \in past : j <= Len(Transition[zone].at)
        /\ Len(Transition[zone].at) \in Int
    BY ZoneFacts DEF Past
  <2> HIDE DEF past
  <2>2. Latest(past) \in past /\ \A j \in past : Latest(past) >= j BY <2>1, LatestOne
  <2>3. \A j \in past : j <= Latest(past)
    <3>1. Latest(past) \in Int BY <2>1, <2>2
    <3> QED BY <2>1, <2>2, <3>1
  <2> QED BY <2>2, <2>3
<1>3. Offset(zone, utc) \in ZoneOffsets(zone)
  <2>1. CASE past = {} BY <1>1, <2>1 DEF ZoneOffsets
  <2>2. CASE past # {}
    <3>1. i \in 1..Len(Transition[zone].at) BY <1>2, <2>2 DEF Past
    <3>2. Offset(zone, utc) = Transition[zone].at[i].offset BY <1>1, <2>2
    <3> HIDE DEF i
    <3> QED BY <3>1, <3>2 DEF ZoneOffsets
  <2> QED BY <2>1, <2>2
<1>4. Offset(zone, utc) \in -14..14 BY <1>3, ZoneFacts
<1>5. \A v : Past(zone, utc) = Past(zone, v) => Offset(zone, utc) = Offset(zone, v) BY <1>1
<1> QED BY <1>3, <1>4, <1>5

(* Within two days a clock is changed once at most.                         *)
LEMMA OneChange ==
  ASSUME NEW zone \in DOMAIN Transition, NEW a \in Int
  PROVE  \E c \in Int : \A u \in a..(a + 48) :
            Offset(zone, u) = IF u < c THEN Offset(zone, a) ELSE Offset(zone, a + 48)
<1> DEFINE n == Len(Transition[zone].at)
           utc(i) == Transition[zone].at[i].utc
<1>1. /\ \A i \in 1..n : utc(i) \in Int
      /\ \A i, j \in 1..n : i < j => utc(j) - utc(i) >= 48
      /\ n \in Nat
  BY ZoneFacts
<1>2. \A u : Past(zone, u) = {i \in 1..n : utc(i) <= u} BY DEF Past
<1> HIDE DEF utc, n
<1>3. CASE \A i \in 1..n : ~(a < utc(i) /\ utc(i) <= a + 48)
  <2>1. ASSUME NEW u \in a..(a + 48) PROVE Past(zone, u) = Past(zone, a + 48)
    <3>1. \A i \in 1..n : utc(i) <= u <=> utc(i) <= a + 48 BY <1>1, <1>3
    <3> QED BY <1>2, <3>1
  <2>2. \A u \in a..(a + 48) : Offset(zone, u) = Offset(zone, a + 48) BY <2>1, OffsetOfZone
  <2>3. \A u \in a..(a + 48) : ~(u < a) OBVIOUS
  <2> QED BY <2>2, <2>3
<1>4. CASE \E i \in 1..n : a < utc(i) /\ utc(i) <= a + 48
  <2>1. PICK i \in 1..n : a < utc(i) /\ utc(i) <= a + 48 BY <1>4
  <2>2. \A j \in 1..n : j # i => ~(a < utc(j) /\ utc(j) <= a + 48)
    <3> TAKE j \in 1..n
    <3>1. i < j => utc(j) - utc(i) >= 48 BY <1>1
    <3>2. j < i => utc(i) - utc(j) >= 48 BY <1>1
    <3>3. utc(i) \in Int /\ utc(j) \in Int BY <1>1
    <3>4. j # i => i < j \/ j < i OBVIOUS
    <3> QED BY <2>1, <3>1, <3>2, <3>3, <3>4
  <2>3. ASSUME NEW u \in a..(a + 48), u < utc(i) PROVE Past(zone, u) = Past(zone, a)
    <3>1. ASSUME NEW j \in 1..n PROVE utc(j) <= u <=> utc(j) <= a
      <4>1. utc(j) \in Int /\ utc(i) \in Int BY <1>1
      <4>2. CASE j = i BY <2>1, <2>3, <4>1, <4>2
      <4>3. CASE j # i BY <2>2, <4>1, <4>3
      <4> QED BY <4>2, <4>3
    <3> QED BY <1>2, <3>1
  <2>4. ASSUME NEW u \in a..(a + 48), ~(u < utc(i)) PROVE Past(zone, u) = Past(zone, a + 48)
    <3>1. ASSUME NEW j \in 1..n PROVE utc(j) <= u <=> utc(j) <= a + 48
      <4>1. utc(j) \in Int /\ utc(i) \in Int BY <1>1
      <4>2. CASE j = i BY <2>1, <2>4, <4>1, <4>2
      <4>3. CASE j # i BY <2>2, <4>1, <4>3
      <4> QED BY <4>2, <4>3
    <3> QED BY <1>2, <3>1
  <2>5. \A u \in a..(a + 48) : Offset(zone, u) = IF u < utc(i) THEN Offset(zone, a) ELSE Offset(zone, a + 48)
    BY <2>3, <2>4, OffsetOfZone
  <2>6. utc(i) \in Int BY <1>1
  <2> QED BY <2>5, <2>6
<1> QED BY <1>3, <1>4

(* A wall clock and its instant differ by an offset of the zone, also where *)
(* the clock is changed.                                                    *)
LEMMA WallClocks ==
  ASSUME input \in Case, input.zone # "none", NEW w \in Int
  PROVE  /\ ToUtc(w) = Instant(w)
         /\ \E o \in ZoneOffsets(input.zone) : Instant(w) = w - o
<1> DEFINE zone == input.zone
           o1 == Offset(zone, w - 24)
           o2 == Offset(zone, w + 24)
           candidates == {o1, o2}
           valid == {o \in candidates : Offset(zone, w - o) = o}
           instants == Instants(w)
<1>1. zone \in DOMAIN Transition BY InputTypes
<1>2. PICK c \in Int : \A u \in (w - 24)..(w + 24) : Offset(zone, u) = IF u < c THEN o1 ELSE o2
  <2> DEFINE a == w - 24
  <2>1. a \in Int /\ a + 48 = w + 24 OBVIOUS
  <2> HIDE DEF a, zone
  <2>2. \E c \in Int : \A u \in a..(a + 48) :
            Offset(zone, u) = IF u < c THEN Offset(zone, a) ELSE Offset(zone, a + 48)
    BY <1>1, <2>1, OneChange
  <2> QED BY <2>1, <2>2 DEF a
<1>3. o1 \in -14..14 /\ o2 \in -14..14 /\ o1 \in ZoneOffsets(zone) /\ o2 \in ZoneOffsets(zone)
  <2>1. w - 24 \in Int /\ w + 24 \in Int OBVIOUS
  <2> HIDE DEF zone
  <2> QED BY <1>1, <2>1, OffsetOfZone
<1>4. ToUtc(w) = w - (IF valid # {} THEN Latest(valid) ELSE Earliest(candidates))
  BY DEF ToUtc, WallClockToUtc
<1>5. Instant(w) = IF instants # {} THEN Earliest(instants) ELSE w - Offset(zone, w - 14)
  BY DEF Instant
<1>6. instants = {utc \in (w - 14)..(w + 14) : utc + Offset(zone, utc) = w} BY DEF Instants
<1>7. \A o \in candidates : Offset(zone, w - o) = (IF w - o < c THEN o1 ELSE o2)
  <2> TAKE o \in candidates
  <2>1. w - o \in (w - 24)..(w + 24) BY <1>3
  <2> HIDE DEF o1, o2, candidates
  <2> QED BY <1>2, <2>1
<1>8. \A t : t \in instants <=> \E o \in valid : t = w - o
  <2> TAKE t
  <2>1. ASSUME t \in instants PROVE \E o \in valid : t = w - o
    <3>1. t \in (w - 14)..(w + 14) /\ t + Offset(zone, t) = w
      <4> HIDE DEF instants
      <4> QED BY <1>6, <2>1
    <3>2. Offset(zone, t) \in candidates
      <4>1. t \in (w - 24)..(w + 24) BY <3>1
      <4> HIDE DEF o1, o2
      <4> QED BY <1>2, <4>1
    <3> DEFINE o == Offset(zone, t)
    <3>3. o \in Int BY <1>3, <3>2
    <3>4. t = w - o
      <4> HIDE DEF o, instants
      <4> QED BY <3>1, <3>3 DEF o
    <3>5. o \in valid BY <3>2, <3>4
    <3> HIDE DEF o, valid
    <3> QED BY <3>4, <3>5
  <2>2. ASSUME NEW o \in valid, t = w - o PROVE t \in instants
    <3>1. o \in candidates /\ Offset(zone, w - o) = o OBVIOUS
    <3>2. o \in -14..14 BY <1>3, <3>1
    <3> HIDE DEF instants, valid, candidates, zone
    <3> QED BY <1>6, <2>2, <3>1, <3>2
  <2> QED BY <2>1, <2>2
<1>9. valid \in SUBSET candidates /\ candidates \in SUBSET ZoneOffsets(zone) /\ candidates \in SUBSET Int
      /\ \A o \in candidates : -14 <= o /\ o <= 14
  BY <1>3
<1> HIDE DEF instants
<1>10. CASE valid # {}
  <2> HIDE DEF candidates, valid
  <2> DEFINE m == Latest(valid)
             e == Earliest(instants)
  <2>1. m \in valid /\ \A o \in valid : m >= o
    <3>1. valid \in SUBSET Int /\ \A o \in valid : o <= 14 BY <1>9
    <3> QED BY <1>10, <3>1, LatestOne
  <2>2. instants # {} /\ w - m \in instants BY <1>8, <2>1
  <2>3. instants \in SUBSET Int /\ \A t \in instants : w - 14 <= t BY <1>6
  <2>4. e \in instants /\ \A t \in instants : e <= t
    <3>1. w - 14 \in Int OBVIOUS
    <3> QED BY <2>2, <2>3, <3>1, EarliestOne
  <2> HIDE DEF m, e
  <2>5. PICK o \in valid : e = w - o BY <1>8, <2>4
  <2>6. e = w - m
    <3>1. e <= w - m BY <2>2, <2>4
    <3>2. m >= o BY <2>1
    <3>3. m \in Int /\ o \in Int BY <1>9, <2>1
    <3> QED BY <2>5, <3>1, <3>2, <3>3
  <2>7. ToUtc(w) = w - m BY <1>4, <1>10 DEF m
  <2>8. Instant(w) = e BY <1>5, <2>2 DEF e
  <2>9. m \in ZoneOffsets(zone) BY <1>9, <2>1
  <2> QED BY <2>6, <2>7, <2>8, <2>9
<1>11. CASE valid = {}
  <2>1. Offset(zone, w - o1) # o1 /\ Offset(zone, w - o2) # o2 BY <1>11
  <2>2. Offset(zone, w - o1) = (IF w - o1 < c THEN o1 ELSE o2)
        /\ Offset(zone, w - o2) = (IF w - o2 < c THEN o1 ELSE o2)
    BY <1>7
  <2>3. c <= w - o1 /\ w - o2 < c
    <3> HIDE DEF o1, o2
    <3> QED BY <1>3, <2>1, <2>2
  <2>4. Offset(zone, w - 14) = o1
    <3>1. w - 14 \in (w - 24)..(w + 24) OBVIOUS
    <3> HIDE DEF o1, o2
    <3>2. w - 14 < c BY <1>3, <2>3
    <3> QED BY <1>2, <3>1, <3>2
  <2>5. Earliest(candidates) = o1
    <3> HIDE DEF o1, o2
    <3>1. o1 < o2 BY <1>3, <2>3
    <3>2. Earliest(candidates) \in candidates /\ \A y \in candidates : Earliest(candidates) <= y
      <4>1. candidates # {} /\ -14 \in Int OBVIOUS
      <4> HIDE DEF candidates
      <4> QED BY <1>9, <4>1, EarliestOne
    <3> QED BY <1>3, <3>1, <3>2
  <2>6. instants = {} BY <1>8, <1>11
  <2>7. ToUtc(w) = w - o1 BY <1>4, <1>11, <2>5
  <2>8. Instant(w) = w - o1 BY <1>5, <2>4, <2>6
  <2> QED BY <1>3, <2>7, <2>8
<1> QED BY <1>10, <1>11

(* An instant is near its wall clock, and a day later is not earlier.       *)
LEMMA InstantsOfWallClocks ==
  ASSUME input \in Case, NEW w \in Int
  PROVE  /\ ToUtc(w) = Instant(w)
         /\ Instant(w) \in (w - 14)..(w + 14)
         /\ \A v \in Int : w + 24 <= v => Instant(w) <= Instant(v)
<1>1. CASE input.zone = "none"
  <2>1. \A v : ToUtc(v) = v /\ Instant(v) = v BY <1>1 DEF ToUtc, Instant
  <2> QED BY <2>1
<1>2. CASE input.zone # "none"
  <2>1. PICK o \in ZoneOffsets(input.zone) : Instant(w) = w - o BY <1>2, WallClocks
  <2>2. input.zone \in DOMAIN Transition BY <1>2, InputTypes
  <2>3. o \in -14..14 BY <2>2, ZoneFacts
  <2>4. ASSUME NEW v \in Int, w + 24 <= v PROVE Instant(w) <= Instant(v)
    <3>1. PICK p \in ZoneOffsets(input.zone) : Instant(v) = v - p BY <1>2, WallClocks
    <3>2. p - o <= 24 /\ p \in -14..14 BY <2>2, ZoneFacts
    <3> QED BY <2>1, <2>3, <2>4, <3>1, <3>2
  <2>5. ToUtc(w) = Instant(w) BY <1>2, WallClocks
  <2> QED BY <2>1, <2>3, <2>4, <2>5
<1> QED BY <1>1, <1>2
=============================================================================

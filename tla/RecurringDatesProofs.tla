------------------------ MODULE RecurringDatesProofs ------------------------
(***************************************************************************)
(* The calendar, for every date of our era: days are numbered in the order *)
(* of the dates, occurrences counted from the anchor are the days of the   *)
(* schedule, and looking often makes the same days as looking once.  The   *)
(* argument numbers the months: one starts where the one before it ends.   *)
(***************************************************************************)
EXTENDS SavingsGoals, WellFoundedInduction, TLAPS

-----------------------------------------------------------------------------
(* Induction on numbers. *)

\* A non-empty set of numbers has a first one.
LEMMA FirstOfSome ==
  ASSUME NEW S, S \subseteq Nat, S # {}
  PROVE  \E n \in S : \A k \in S : n <= k
  <1> DEFINE Below == OpToRel(<, Nat)
  <1>1. IsWellFoundedOn(Below, Nat)
    BY NatLessThanWellFounded
  <1> HIDE DEF Below
  <1>2. PICK n \in S : \A k \in S : ~(<<k, n>> \in Below)
    BY <1>1, WFMin
  <1>3. \A k \in S : ~(k < n)
    BY <1>2, Zenon DEF Below, OpToRel
  <1>4. QED
    BY <1>3

\* What holds of 0, and of n + 1 when it does of n, holds of every number.
LEMMA Counting ==
  ASSUME NEW S, 0 \in S, \A n \in Nat : n \in S => n + 1 \in S
  PROVE  \A n \in Nat : n \in S
  <1> DEFINE Bad == {n \in Nat : n \notin S}
  <1>1. SUFFICES ASSUME Bad # {} PROVE FALSE
    OBVIOUS
  <1>2. PICK n \in Bad : \A k \in Bad : n <= k
    BY <1>1, FirstOfSome
  <1>3. n # 0 /\ n - 1 \in Nat /\ n - 1 \notin Bad
    BY <1>2
  <1>4. QED
    BY <1>2, <1>3

-----------------------------------------------------------------------------
(* Months. *)

\* A date of our era has a number, and a positive one.
LEMMA NumberType ==
  ASSUME NEW t \in Date
  PROVE  Number(t) \in Nat \ {0}
  <1>1. /\ t.year \in Nat \ {0} /\ t.month \in 1..12 /\ t.day \in 1..31
    BY DEF Date
  <1> DEFINE y == IF t.month < 3 THEN t.year - 1 ELSE t.year
             m == (t.month + 9) % 12
  <1>2. y \in Nat /\ m \in 0..11
    BY <1>1
  <1> HIDE DEF y, m
  <1>3. y \div 4 >= y \div 100 /\ y \div 400 \in Nat /\ y \div 4 \in Nat /\ y \div 100 \in Nat
    BY <1>2
  <1>4. (153 * m + 2) \div 5 \in Nat
    BY <1>2
  <1>5. 365 * y + y \div 4 - y \div 100 + y \div 400 + (153 * m + 2) \div 5 + t.day \in Nat \ {0}
    BY <1>1, <1>2, <1>3, <1>4
  <1>6. QED
    BY <1>5 DEF Number, y, m

\* Months are numbered from the year 0; MonthStart(i) is the day before month i.
Index(t) == 12 * t.year + t.month - 1
Year(i) == i \div 12
Month(i) == (i % 12) + 1
MonthStart(i) == Number(At(Year(i), Month(i), 1)) - 1
Length(i) == DaysInMonth(Year(i), Month(i))

LEMMA LengthType ==
  ASSUME NEW i \in Nat
  PROVE  Length(i) \in 28..31
  BY DEF Length, DaysInMonth

LEMMA MonthParts ==
  ASSUME NEW i \in Nat
  PROVE  Year(i) \in Nat /\ Month(i) \in 1..12 /\ i = 12 * Year(i) + Month(i) - 1
  BY DEF Year, Month

LEMMA MonthOf ==
  ASSUME NEW y \in Nat, NEW m \in 1..12
  PROVE  /\ Year(12 * y + m - 1) = y /\ Month(12 * y + m - 1) = m
         /\ 12 * y + m - 1 \in Nat
  BY DEF Year, Month

\* The days up to the end of February, counting leap days.
Leaps(y) == y \div 4 - y \div 100 + y \div 400
LEMMA LeapsGrow ==
  ASSUME NEW y \in Nat
  PROVE  /\ Leaps(y) \in Int
         /\ Leaps(y + 1) = Leaps(y) + IF Leap(y + 1) THEN 1 ELSE 0
  <1>1. (y + 1) \div 4 = y \div 4 + IF (y + 1) % 4 = 0 THEN 1 ELSE 0
    OBVIOUS
  <1>2. (y + 1) \div 100 = y \div 100 + IF (y + 1) % 100 = 0 THEN 1 ELSE 0
    OBVIOUS
  <1>3. (y + 1) \div 400 = y \div 400 + IF (y + 1) % 400 = 0 THEN 1 ELSE 0
    OBVIOUS
  <1>4. (y + 1) % 400 = 0 => (y + 1) % 100 = 0
    OBVIOUS
  <1>5. (y + 1) % 100 = 0 => (y + 1) % 4 = 0
    OBVIOUS
  <1>6. y \div 4 \in Nat /\ y \div 100 \in Nat /\ y \div 400 \in Nat
    OBVIOUS
  <1>7. QED
    BY <1>1, <1>2, <1>3, <1>4, <1>5, <1>6 DEF Leaps, Leap

\* The days of a year before a month, from March to February.
Before(m) == (153 * ((m + 9) % 12) + 2) \div 5
Opening(y, m) ==
  (IF m < 3 THEN 365 * (y - 1) + Leaps(y - 1) ELSE 365 * y + Leaps(y)) + Before(m)
LEMMA OpeningType ==
  ASSUME NEW y \in Nat \ {0}, NEW m \in 1..12
  PROVE  Opening(y, m) \in Int
  <1>1. Leaps(y) \in Int /\ Leaps(y - 1) \in Int /\ Before(m) \in Int
    BY DEF Leaps, Before
  <1>2. QED
    BY <1>1 DEF Opening

LEMMA NumberParts ==
  ASSUME NEW y \in Nat \ {0}, NEW m \in 1..12, NEW d \in Int
  PROVE  Number(At(y, m, d)) = Opening(y, m) + d
  <1>1. Leaps(y) \in Int /\ Leaps(y - 1) \in Int /\ Before(m) \in Int
    BY DEF Leaps, Before
  <1>2. At(y, m, d).year = y /\ At(y, m, d).month = m /\ At(y, m, d).day = d
    BY DEF At
  <1>3. CASE m < 3
    BY <1>1, <1>2, <1>3 DEF Number, Leaps, Before, Opening
  <1>4. CASE ~(m < 3)
    BY <1>1, <1>2, <1>4 DEF Number, Leaps, Before, Opening
  <1>5. QED
    BY <1>3, <1>4

\* A month starts where the one before it ends.
LEMMA NextMonth ==
  ASSUME NEW y \in Nat \ {0}, NEW m \in 1..12
  PROVE  Number(At(IF m = 12 THEN y + 1 ELSE y, IF m = 12 THEN 1 ELSE m + 1, 1)) =
           Number(At(y, m, 1)) + DaysInMonth(y, m)
  <1>1. Leaps(y) \in Int /\ Leaps(y - 1) \in Int
    BY DEF Leaps
  <1>2. Leaps(y) = Leaps(y - 1) + IF Leap(y) THEN 1 ELSE 0
    <2>1. y - 1 \in Nat /\ (y - 1) + 1 = y
      OBVIOUS
    <2>2. QED
      BY <2>1, LeapsGrow
  <1>3. /\ Before(3) = 0 /\ Before(4) = 31 /\ Before(5) = 61 /\ Before(6) = 92
        /\ Before(7) = 122 /\ Before(8) = 153 /\ Before(9) = 184 /\ Before(10) = 214
        /\ Before(11) = 245 /\ Before(12) = 275 /\ Before(1) = 306 /\ Before(2) = 337
    BY DEF Before
  <1>4. CASE m = 12
    <2>1. /\ Opening(y + 1, 1) = 365 * y + Leaps(y) + 306
          /\ Opening(y, 12) = 365 * y + Leaps(y) + 275
      BY <1>1, <1>3 DEF Opening
    <2>2. DaysInMonth(y, 12) = 31
      BY DEF DaysInMonth
    <2>3. /\ Number(At(y + 1, 1, 1)) = Opening(y + 1, 1) + 1
          /\ Number(At(y, 12, 1)) = Opening(y, 12) + 1
      BY NumberParts
    <2>4. QED
      BY <1>1, <1>4, <2>1, <2>2, <2>3
  <1>5. CASE m # 12
    <2>1. Opening(y, m + 1) = Opening(y, m) + DaysInMonth(y, m)
      BY <1>1, <1>2, <1>3, <1>5 DEF Opening, DaysInMonth
    <2>2. DaysInMonth(y, m) \in Int /\ m + 1 \in 1..12
      BY <1>5 DEF DaysInMonth
    <2>3. /\ Number(At(y, m + 1, 1)) = Opening(y, m + 1) + 1
          /\ Number(At(y, m, 1)) = Opening(y, m) + 1
      BY <2>2, NumberParts
    <2>4. Opening(y, m) \in Int /\ Opening(y, m + 1) \in Int
      BY <2>2, OpeningType
    <2>5. QED
      BY <1>5, <2>1, <2>2, <2>3, <2>4
  <1>6. QED
    BY <1>4, <1>5

LEMMA MonthsMeet ==
  ASSUME NEW i \in Nat, i >= 12
  PROVE  /\ MonthStart(i) \in Nat
         /\ MonthStart(i + 1) = MonthStart(i) + Length(i)
  <1>1. PICK y, m : y = Year(i) /\ m = Month(i)
    OBVIOUS
  <1>2. y \in Nat \ {0} /\ m \in 1..12 /\ i = 12 * y + m - 1
    BY <1>1 DEF Year, Month
  <1>3. /\ Year(i + 1) = IF m = 12 THEN y + 1 ELSE y
        /\ Month(i + 1) = IF m = 12 THEN 1 ELSE m + 1
    BY <1>2 DEF Year, Month
  <1>4. Number(At(Year(i + 1), Month(i + 1), 1)) =
          Number(At(y, m, 1)) + DaysInMonth(y, m)
    BY <1>2, <1>3, NextMonth
  <1>5. Number(At(y, m, 1)) \in Nat \ {0}
    BY <1>2, NumberType DEF At, Date
  <1>6. DaysInMonth(y, m) \in 28..31
    BY DEF DaysInMonth
  <1>7. MonthStart(i) = Number(At(y, m, 1)) - 1 /\ Length(i) = DaysInMonth(y, m)
    BY <1>1 DEF MonthStart, Length
  <1>8. QED
    BY <1>4, <1>5, <1>6, <1>7 DEF MonthStart

\* The months after a month start later, 28 days each at least.
LEMMA MonthsApart ==
  ASSUME NEW i \in Nat, i >= 12, NEW k \in Nat
  PROVE  MonthStart(i + k) >= MonthStart(i) + 28 * k
  <1> DEFINE Far == {n \in Nat : MonthStart(i + n) >= MonthStart(i) + 28 * n}
  <1>1. MonthStart(i) \in Nat
    BY MonthsMeet
  <1>2. 0 \in Far
    <2>1. i + 0 = i
      OBVIOUS
    <2>2. QED
      BY <1>1, <2>1
  <1>3. \A n \in Nat : n \in Far => n + 1 \in Far
    <2>1. SUFFICES ASSUME NEW n \in Nat, n \in Far PROVE n + 1 \in Far
      OBVIOUS
    <2>2. i + n \in Nat /\ i + n >= 12 /\ (i + n) + 1 = i + (n + 1)
      OBVIOUS
    <2>3. MonthStart(i + n) \in Nat /\ MonthStart(i + (n + 1)) = MonthStart(i + n) + Length(i + n)
      BY <2>2, MonthsMeet
    <2>4. Length(i + n) \in 28..31
      BY <2>2, LengthType
    <2>5. QED
      BY <1>1, <2>1, <2>3, <2>4
  <1> HIDE DEF Far
  <1>4. k \in Far
    BY <1>2, <1>3, Counting
  <1>5. QED
    BY <1>4 DEF Far

LEMMA MonthsGrow ==
  ASSUME NEW i \in Nat, NEW j \in Nat, i >= 12, i < j
  PROVE  MonthStart(j) >= MonthStart(i) + Length(i)
  <1>1. i + 1 \in Nat /\ i + 1 >= 12 /\ j - (i + 1) \in Nat /\ (i + 1) + (j - (i + 1)) = j
    OBVIOUS
  <1>2. MonthStart(j) >= MonthStart(i + 1) + 28 * (j - (i + 1))
    BY <1>1, MonthsApart
  <1>3. MonthStart(i + 1) \in Nat /\ MonthStart(j) \in Nat
    BY <1>1, MonthsMeet
  <1>4. MonthStart(i + 1) = MonthStart(i) + Length(i)
    BY MonthsMeet
  <1>5. QED
    BY <1>1, <1>2, <1>3, <1>4

-----------------------------------------------------------------------------
(* Dates and their numbers. *)

\* The date of day d of month i, and the number of a date.
LEMMA DateParts ==
  ASSUME NEW t \in Date
  PROVE  /\ Index(t) \in Nat /\ Index(t) >= 12
         /\ Year(Index(t)) = t.year /\ Month(Index(t)) = t.month
         /\ Number(t) = MonthStart(Index(t)) + t.day
         /\ t.day \in 1..31
         /\ Real(t) <=> t.day <= Length(Index(t))
  <1>1. /\ t.year \in Nat \ {0} /\ t.month \in 1..12 /\ t.day \in 1..31
        /\ t = At(t.year, t.month, t.day)
    BY DEF Date, At
  <1>2. Index(t) \in Nat /\ Index(t) >= 12
    BY <1>1 DEF Index
  <1>3. Year(Index(t)) = t.year /\ Month(Index(t)) = t.month
    BY <1>1, MonthOf DEF Index
  <1>4. Number(At(t.year, t.month, t.day)) = Number(At(t.year, t.month, 1)) - 1 + t.day
    <2>1. PICK y, m, d : y = t.year /\ m = t.month /\ d = t.day
      OBVIOUS
    <2>2. y \in Nat \ {0} /\ m \in 1..12 /\ d \in Int
      BY <1>1, <2>1
    <2>3. /\ Number(At(y, m, d)) = Opening(y, m) + d
          /\ Number(At(y, m, 1)) = Opening(y, m) + 1
      BY <2>2, NumberParts
    <2>4. Opening(y, m) \in Int
      BY <2>2, OpeningType
    <2>5. QED
      BY <2>1, <2>2, <2>3, <2>4
  <1>5. Number(t) = MonthStart(Index(t)) + t.day
    BY <1>1, <1>3, <1>4 DEF MonthStart
  <1>6. Real(t) <=> t.day <= Length(Index(t))
    BY <1>3 DEF Real, Length
  <1>7. QED
    BY <1>1, <1>2, <1>3, <1>5, <1>6

LEMMA DateOf ==
  ASSUME NEW i \in Nat, i >= 12, NEW d \in 1..Length(i)
  PROVE  LET t == At(Year(i), Month(i), d)
         IN  t \in Date /\ Real(t) /\ Index(t) = i /\ Number(t) = MonthStart(i) + d
  <1> DEFINE t == At(Year(i), Month(i), d)
  <1>1. Year(i) \in Nat \ {0} /\ Month(i) \in 1..12 /\ i = 12 * Year(i) + Month(i) - 1
    BY MonthParts
  <1>2. d \in 1..31
    BY LengthType
  <1>3. t.year = Year(i) /\ t.month = Month(i) /\ t.day = d
    BY DEF At
  <1>4. t \in Date
    BY <1>1, <1>2 DEF At, Date
  <1>5. Index(t) = i
    BY <1>1, <1>3 DEF Index
  <1> HIDE DEF t
  <1>6. Real(t) /\ Number(t) = MonthStart(i) + d
    BY <1>3, <1>4, <1>5, DateParts
  <1>7. QED
    BY <1>4, <1>5, <1>6 DEF t

\* date1 < date2, as strings of the form YYYY-MM-DD.
Earlier(s, t) == \/ s.year < t.year
                 \/ s.year = t.year /\ s.month < t.month
                 \/ s.year = t.year /\ s.month = t.month /\ s.day < t.day

LEMMA EarlierNumbered ==
  ASSUME NEW s \in Date, NEW t \in Date, Real(s), Real(t), Earlier(s, t)
  PROVE  Number(s) < Number(t)
  <1>1. /\ Index(s) \in Nat /\ Index(s) >= 12 /\ Index(t) \in Nat /\ Index(t) >= 12
        /\ Number(s) = MonthStart(Index(s)) + s.day /\ s.day <= Length(Index(s))
        /\ Number(t) = MonthStart(Index(t)) + t.day
        /\ s.day \in 1..31 /\ t.day \in 1..31
    BY DateParts
  <1>2. /\ MonthStart(Index(s)) \in Nat /\ MonthStart(Index(t)) \in Nat
        /\ Length(Index(s)) \in 28..31
    BY <1>1, MonthsMeet, LengthType
  <1>3. CASE Index(s) < Index(t)
    <2>1. MonthStart(Index(t)) >= MonthStart(Index(s)) + Length(Index(s))
      BY <1>1, <1>3, MonthsGrow
    <2>2. QED
      BY <1>1, <1>2, <2>1
  <1>4. CASE Index(s) = Index(t)
    <2>1. s.day < t.day
      BY <1>4 DEF Earlier, Index, Date
    <2>2. QED
      BY <1>1, <1>2, <1>4, <2>1
  <1>5. Index(s) < Index(t) \/ Index(s) = Index(t)
    BY DEF Earlier, Index, Date
  <1>6. QED
    BY <1>3, <1>4, <1>5

\* The numbers of days are in the order of the strings the code compares.
THEOREM NumbersInOrder ==
  ASSUME NEW s \in Date, NEW t \in Date, Real(s), Real(t)
  PROVE  /\ Earlier(s, t) <=> Number(s) < Number(t)
         /\ s = t <=> Number(s) = Number(t)
  <1>1. Number(s) \in Nat /\ Number(t) \in Nat
    BY NumberType
  <1>2. Earlier(s, t) \/ Earlier(t, s) \/ s = t
    BY DEF Earlier, Date
  <1>3. Earlier(s, t) => Number(s) < Number(t)
    BY EarlierNumbered
  <1>4. Earlier(t, s) => Number(t) < Number(s)
    BY EarlierNumbered
  <1>5. QED
    BY <1>1, <1>2, <1>3, <1>4

\* Every number from that of a date on is the number of a real date.
LEMMA DatesCover ==
  ASSUME NEW first \in Date, NEW n \in Nat, Number(first) <= n
  PROVE  \E t \in Date : Real(t) /\ Number(t) = n /\ Index(first) <= Index(t)
  <1>1. PICK i : i = Index(first)
    OBVIOUS
  <1>2. i \in Nat /\ i >= 12 /\ Number(first) = MonthStart(i) + first.day /\ first.day \in 1..31
    BY <1>1, DateParts
  <1> DEFINE Ends == {k \in Nat : n <= MonthStart(i + (k + 1))}
  <1>3. \A k \in Nat : i + k \in Nat /\ i + k >= 12 /\ MonthStart(i + k) \in Nat
    BY <1>2, MonthsMeet
  <1>4. n \in Ends
    <2>1. PICK e \in Nat : e = n + 1
      OBVIOUS
    <2>2. MonthStart(i + e) >= MonthStart(i) + 28 * e
      BY <1>2, MonthsApart
    <2>3. MonthStart(i) \in Nat /\ MonthStart(i + e) \in Nat
      BY <1>2, <1>3, MonthsMeet
    <2>4. n <= MonthStart(i + e)
      BY <2>1, <2>2, <2>3
    <2>5. QED
      BY <2>1, <2>4
  <1>5. PICK k \in Ends : \A x \in Ends : k <= x
    BY <1>4, FirstOfSome
  <1>6. k \in Nat /\ n <= MonthStart(i + (k + 1))
    BY <1>5
  <1>7. MonthStart(i + k) < n
    <2>1. CASE k = 0
      <3>1. i + k = i /\ MonthStart(i) \in Nat
        BY <1>2, <2>1, MonthsMeet
      <3>2. QED
        BY <1>2, <3>1
    <2>2. CASE k # 0
      <3>1. k - 1 \in Nat /\ i + ((k - 1) + 1) = i + k /\ k - 1 \notin Ends
        BY <1>2, <1>5, <1>6, <2>2
      <3>2. MonthStart(i + k) \in Nat
        BY <1>3, <1>6
      <3>3. QED
        BY <3>1, <3>2
    <2>3. QED
      BY <2>1, <2>2
  <1>8. MonthStart(i + (k + 1)) = MonthStart(i + k) + Length(i + k)
    <2>1. i + (k + 1) = (i + k) + 1
      BY <1>2, <1>6
    <2>2. QED
      BY <1>3, <1>6, <2>1, MonthsMeet
  <1>9. MonthStart(i + k) \in Nat /\ Length(i + k) \in 28..31
    BY <1>3, <1>6, LengthType
  <1>10. PICK d \in 1..Length(i + k) : MonthStart(i + k) + d = n
    <2>1. n - MonthStart(i + k) \in 1..Length(i + k)
      BY <1>6, <1>7, <1>8, <1>9
    <2>2. MonthStart(i + k) + (n - MonthStart(i + k)) = n
      BY <1>9
    <2>3. QED
      BY <2>1, <2>2
  <1>11. PICK t : t = At(Year(i + k), Month(i + k), d)
    OBVIOUS
  <1>12. t \in Date /\ Real(t) /\ Index(t) = i + k /\ Number(t) = n
    BY <1>3, <1>6, <1>10, <1>11, DateOf
  <1>13. Index(first) <= Index(t)
    BY <1>1, <1>2, <1>6, <1>12
  <1>14. QED
    BY <1>12, <1>13

-----------------------------------------------------------------------------
(* Months later. *)

\* The day of a month that an anchor's day stands for.
Clamp(day, length) == IF day <= length THEN day ELSE length

LEMMA AddMonthsParts ==
  ASSUME NEW t \in Date, NEW n \in Nat
  PROVE  LET i == Index(t) + n
         IN  /\ i \in Nat /\ i >= 12 /\ Clamp(t.day, Length(i)) \in 1..Length(i)
             /\ AddMonths(t, n) = MonthStart(i) + Clamp(t.day, Length(i))
  <1>1. Index(t) \in Nat /\ Index(t) >= 12 /\ t.day \in 1..31
    BY DateParts
  <1>2. PICK i : i = Index(t) + n
    OBVIOUS
  <1>3. i \in Nat /\ i >= 12 /\ Length(i) \in 28..31
    BY <1>1, <1>2, LengthType
  <1>4. PICK c : c = Clamp(t.day, Length(i))
    OBVIOUS
  <1>5. c \in 1..Length(i)
    BY <1>1, <1>3, <1>4 DEF Clamp
  <1>6. t.year * 12 + (t.month - 1) + n = i
    BY <1>2 DEF Index, Date
  <1>7. AddMonths(t, n) = Number(At(Year(i), Month(i), c))
    BY <1>4, <1>6 DEF AddMonths, Year, Month, Length, Clamp
  <1>8. Number(At(Year(i), Month(i), c)) = MonthStart(i) + c
    BY <1>3, <1>5, DateOf
  <1>9. QED
    BY <1>2, <1>3, <1>4, <1>5, <1>7, <1>8

LEMMA AddMonthsGrow ==
  ASSUME NEW t \in Date, NEW j \in Nat, NEW k \in Nat, j < k
  PROVE  AddMonths(t, j) < AddMonths(t, k)
  <1>1. PICK a, b : a = Index(t) + j /\ b = Index(t) + k
    OBVIOUS
  <1>2. /\ a \in Nat /\ a >= 12 /\ Clamp(t.day, Length(a)) \in 1..Length(a)
        /\ AddMonths(t, j) = MonthStart(a) + Clamp(t.day, Length(a))
    BY <1>1, AddMonthsParts
  <1>3. /\ b \in Nat /\ b >= 12 /\ Clamp(t.day, Length(b)) \in 1..Length(b)
        /\ AddMonths(t, k) = MonthStart(b) + Clamp(t.day, Length(b))
    BY <1>1, AddMonthsParts
  <1>4. a < b
    BY <1>1, DateParts
  <1>5. MonthStart(b) >= MonthStart(a) + Length(a)
    BY <1>2, <1>3, <1>4, MonthsGrow
  <1>6. /\ MonthStart(a) \in Nat /\ MonthStart(b) \in Nat
        /\ Length(a) \in 28..31 /\ Length(b) \in 28..31
    BY <1>2, <1>3, MonthsMeet, LengthType
  <1>7. QED
    BY <1>2, <1>3, <1>5, <1>6

\* A real date has its own day in its own month.
LEMMA NoMonthsLater ==
  ASSUME NEW t \in Date, Real(t)
  PROVE  AddMonths(t, 0) = Number(t)
  <1>1. /\ Index(t) \in Nat /\ Number(t) = MonthStart(Index(t)) + t.day
        /\ t.day <= Length(Index(t))
    BY DateParts
  <1>2. Index(t) + 0 = Index(t)
    BY <1>1
  <1>3. AddMonths(t, 0) = MonthStart(Index(t)) + Clamp(t.day, Length(Index(t)))
    BY <1>2, AddMonthsParts
  <1>4. QED
    BY <1>1, <1>3 DEF Clamp

\* The days that stand for the anchor's day, and only they, come some whole
\* number of months later.
SameDay(first, t) == \/ t.day = first.day
                     \/ t.day < first.day /\ t.day = DaysInMonth(t.year, t.month)

LEMMA SameDayLater ==
  ASSUME NEW first \in Date, NEW t \in Date, Real(t), SameDay(first, t),
         NEW n \in Nat, Index(t) = Index(first) + n
  PROVE  Number(t) = AddMonths(first, n)
  <1>1. PICK i : i = Index(t)
    OBVIOUS
  <1>2. /\ i \in Nat /\ Year(i) = t.year /\ Month(i) = t.month
        /\ Number(t) = MonthStart(i) + t.day /\ t.day \in 1..31 /\ t.day <= Length(i)
    BY <1>1, DateParts
  <1>3. first.day \in 1..31 /\ Length(i) \in 28..31
    BY <1>2, DateParts, LengthType
  <1>4. AddMonths(first, n) = MonthStart(i) + Clamp(first.day, Length(i))
    BY <1>1, AddMonthsParts
  <1>5. Clamp(first.day, Length(i)) = t.day
    BY <1>2, <1>3 DEF Clamp, SameDay, Length
  <1>6. QED
    BY <1>2, <1>4, <1>5

LEMMA LaterSameDay ==
  ASSUME NEW first \in Date, NEW n \in Nat
  PROVE  \E t \in Date : /\ Real(t) /\ Number(t) = AddMonths(first, n)
                         /\ SameDay(first, t) /\ Index(t) = Index(first) + n
  <1>1. PICK i : i = Index(first) + n
    OBVIOUS
  <1>2. PICK c : c = Clamp(first.day, Length(i))
    OBVIOUS
  <1>3. PICK t : t = At(Year(i), Month(i), c)
    OBVIOUS
  <1>4. /\ i \in Nat /\ i >= 12 /\ c \in 1..Length(i)
        /\ AddMonths(first, n) = MonthStart(i) + c
    BY <1>1, <1>2, AddMonthsParts
  <1>5. t \in Date /\ Real(t) /\ Index(t) = i /\ Number(t) = MonthStart(i) + c
    BY <1>3, <1>4, DateOf
  <1>6. t.day = c /\ DaysInMonth(t.year, t.month) = Length(i)
    BY <1>3 DEF At, Length
  <1>7. SameDay(first, t)
    <2>1. first.day \in 1..31 /\ Length(i) \in 28..31
      BY <1>4, DateParts, LengthType
    <2>2. QED
      BY <1>2, <1>6, <2>1 DEF SameDay, Clamp
  <1>8. QED
    BY <1>1, <1>4, <1>5, <1>7

-----------------------------------------------------------------------------
(* Occurrences. *)

LEMMA OccurrenceType ==
  ASSUME NEW first \in Date, NEW f \in Frequency, NEW n \in Nat
  PROVE  Occurrence(first, f, n) \in Nat \ {0}
  <1>1. Number(first) \in Nat \ {0}
    BY NumberType
  <1>2. \A k \in Nat : AddMonths(first, k) \in Nat \ {0}
    <2>1. SUFFICES ASSUME NEW k \in Nat PROVE AddMonths(first, k) \in Nat \ {0}
      OBVIOUS
    <2>2. PICK i : i = Index(first) + k
      OBVIOUS
    <2>3. /\ i \in Nat /\ i >= 12 /\ Clamp(first.day, Length(i)) \in 1..Length(i)
          /\ AddMonths(first, k) = MonthStart(i) + Clamp(first.day, Length(i))
      BY <2>2, AddMonthsParts
    <2>4. MonthStart(i) \in Nat /\ Length(i) \in 28..31
      BY <2>3, MonthsMeet, LengthType
    <2>5. QED
      BY <2>3, <2>4
  <1>3. /\ AddMonths(first, n) \in Nat \ {0} /\ AddMonths(first, 3 * n) \in Nat \ {0}
        /\ AddMonths(first, 12 * n) \in Nat \ {0}
    BY <1>2
  <1>4. QED
    BY <1>1, <1>3 DEF Occurrence, Frequency

\* Each occurrence is after the one before it, the clamped ones included.
THEOREM OccurrencesInOrder ==
  ASSUME NEW first \in Date, NEW f \in Frequency, NEW j \in Nat, NEW k \in Nat, j < k
  PROVE  Occurrence(first, f, j) < Occurrence(first, f, k)
  <1>1. Number(first) \in Nat
    BY NumberType
  <1>2. CASE f \in {"weekly", "biweekly"}
    BY <1>1, <1>2 DEF Occurrence
  <1>3. CASE f = "monthly"
    BY <1>3, AddMonthsGrow DEF Occurrence
  <1>4. CASE f = "quarterly"
    <2>1. 3 * j \in Nat /\ 3 * k \in Nat /\ 3 * j < 3 * k
      OBVIOUS
    <2>2. AddMonths(first, 3 * j) < AddMonths(first, 3 * k)
      BY <2>1, AddMonthsGrow
    <2>3. QED
      BY <1>4, <2>2 DEF Occurrence
  <1>5. CASE f = "yearly"
    <2>1. 12 * j \in Nat /\ 12 * k \in Nat /\ 12 * j < 12 * k
      OBVIOUS
    <2>2. AddMonths(first, 12 * j) < AddMonths(first, 12 * k)
      BY <2>1, AddMonthsGrow
    <2>3. QED
      BY <1>5, <2>2 DEF Occurrence
  <1>6. QED
    BY <1>2, <1>3, <1>4, <1>5 DEF Frequency

\* The first is the anchor.
LEMMA FirstOccurrence ==
  ASSUME NEW first \in Date, Real(first), NEW f \in Frequency
  PROVE  Occurrence(first, f, 0) = Number(first)
  <1>1. Number(first) \in Nat /\ AddMonths(first, 0) = Number(first)
    BY NumberType, NoMonthsLater
  <1>2. 7 * 0 = 0 /\ 14 * 0 = 0 /\ 3 * 0 = 0 /\ 12 * 0 = 0
    OBVIOUS
  <1>3. QED
    BY <1>1, <1>2 DEF Occurrence, Frequency

Occurrences(first, f) == {Occurrence(first, f, n) : n \in Nat}

LEMMA FallsIsOccurrence ==
  ASSUME NEW first \in Date, Real(first), NEW f \in Frequency,
         NEW t \in Date, Real(t), FallsOn(first, f, t)
  PROVE  Number(t) \in Occurrences(first, f)
  <1>1. Number(first) \in Nat /\ Number(t) \in Nat /\ Number(first) <= Number(t)
    BY NumberType DEF FallsOn
  <1>2. CASE f = "weekly"
    <2>1. PICK n \in Nat : Number(t) = Number(first) + 7 * n
      <3>1. (Number(t) - Number(first)) % 7 = 0
        BY <1>2 DEF FallsOn
      <3>2. /\ (Number(t) - Number(first)) \div 7 \in Nat
            /\ Number(t) = Number(first) + 7 * ((Number(t) - Number(first)) \div 7)
        BY <1>1, <3>1
      <3>3. QED
        BY <3>2
    <2>2. QED
      BY <1>2, <2>1 DEF Occurrences, Occurrence
  <1>3. CASE f = "biweekly"
    <2>1. PICK n \in Nat : Number(t) = Number(first) + 14 * n
      <3>1. (Number(t) - Number(first)) % 14 = 0
        BY <1>3 DEF FallsOn
      <3>2. /\ (Number(t) - Number(first)) \div 14 \in Nat
            /\ Number(t) = Number(first) + 14 * ((Number(t) - Number(first)) \div 14)
        BY <1>1, <3>1
      <3>3. QED
        BY <3>2
    <2>2. QED
      BY <1>3, <2>1 DEF Occurrences, Occurrence
  <1>4. CASE f \in {"monthly", "quarterly", "yearly"}
    <2>1. /\ (12 * (t.year - first.year) + t.month - first.month) % Every(f) = 0
          /\ SameDay(first, t)
      BY <1>4 DEF FallsOn, SameDay
    <2>2. PICK a, b : a = Index(first) /\ b = Index(t)
      OBVIOUS
    <2>3. /\ a \in Nat /\ b \in Nat
          /\ 12 * (t.year - first.year) + t.month - first.month = b - a
      BY <2>2, DateParts DEF Index, Date
    <2>4. a <= b
      <3>1. SUFFICES ASSUME b < a PROVE FALSE
        BY <2>3
      <3>2. Earlier(t, first)
        BY <2>2, <3>1 DEF Earlier, Index, Date
      <3>3. QED
        BY <1>1, <3>2, EarlierNumbered
    <2>5. PICK m \in Nat : m = b - a
      BY <2>3, <2>4
    <2>6. m % Every(f) = 0 /\ Index(t) = Index(first) + m
      BY <2>1, <2>2, <2>3, <2>5
    <2>7. Number(t) = AddMonths(first, m)
      BY <2>1, <2>6, SameDayLater
    <2>8. PICK n \in Nat : m = Every(f) * n
      <3>1. Every(f) \in {1, 3, 12}
        BY <1>4 DEF Every
      <3>2. m \div Every(f) \in Nat /\ m = Every(f) * (m \div Every(f))
        <4>1. CASE Every(f) = 1
          BY <2>6, <4>1
        <4>2. CASE Every(f) = 3
          BY <2>6, <4>2
        <4>3. CASE Every(f) = 12
          BY <2>6, <4>3
        <4>4. QED
          BY <3>1, <4>1, <4>2, <4>3
      <3>3. QED
        BY <3>2
    <2>9. Occurrence(first, f, n) = AddMonths(first, m)
      <3>1. CASE f = "monthly"
        BY <2>8, <3>1 DEF Occurrence, Every
      <3>2. CASE f = "quarterly"
        BY <2>8, <3>2 DEF Occurrence, Every
      <3>3. CASE f = "yearly"
        BY <2>8, <3>3 DEF Occurrence, Every
      <3>4. QED
        BY <1>4, <3>1, <3>2, <3>3
    <2>10. QED
      BY <2>7, <2>9 DEF Occurrences
  <1>5. QED
    BY <1>2, <1>3, <1>4 DEF Frequency

LEMMA OccurrenceFalls ==
  ASSUME NEW first \in Date, Real(first), NEW f \in Frequency, NEW n \in Nat
  PROVE  \E t \in Date : /\ Real(t) /\ FallsOn(first, f, t)
                         /\ Number(t) = Occurrence(first, f, n)
  <1>1. Number(first) \in Nat
    BY NumberType
  <1>2. Occurrence(first, f, n) >= Number(first) /\ Occurrence(first, f, n) \in Nat
    <2>1. Occurrence(first, f, 0) = Number(first)
      BY FirstOccurrence
    <2>2. n # 0 => Occurrence(first, f, 0) < Occurrence(first, f, n)
      BY OccurrencesInOrder
    <2>3. Occurrence(first, f, n) \in Nat
      BY OccurrenceType
    <2>4. QED
      BY <1>1, <2>1, <2>2, <2>3
  <1>3. CASE f \in {"weekly", "biweekly"}
    <2>1. PICK t \in Date : Real(t) /\ Number(t) = Occurrence(first, f, n)
      BY <1>2, DatesCover
    <2>2. CASE f = "weekly"
      <3>1. Number(t) = Number(first) + 7 * n
        BY <2>1, <2>2 DEF Occurrence
      <3>2. (Number(t) - Number(first)) % 7 = 0
        BY <1>1, <3>1
      <3>3. QED
        BY <1>2, <2>1, <2>2, <3>2 DEF FallsOn
    <2>3. CASE f = "biweekly"
      <3>1. Number(t) = Number(first) + 14 * n
        BY <2>1, <2>3 DEF Occurrence
      <3>2. (Number(t) - Number(first)) % 14 = 0
        BY <1>1, <3>1
      <3>3. QED
        BY <1>2, <2>1, <2>3, <3>2 DEF FallsOn
    <2>4. QED
      BY <1>3, <2>2, <2>3
  <1>4. CASE f \in {"monthly", "quarterly", "yearly"}
    <2>1. PICK m \in Nat : m % Every(f) = 0 /\ Occurrence(first, f, n) = AddMonths(first, m)
      <3>1. CASE f = "monthly"
        BY <3>1 DEF Occurrence, Every
      <3>2. CASE f = "quarterly"
        <4>1. 3 * n \in Nat /\ (3 * n) % 3 = 0
          OBVIOUS
        <4>2. QED
          BY <3>2, <4>1 DEF Occurrence, Every
      <3>3. CASE f = "yearly"
        <4>1. 12 * n \in Nat /\ (12 * n) % 12 = 0
          OBVIOUS
        <4>2. QED
          BY <3>3, <4>1 DEF Occurrence, Every
      <3>4. QED
        BY <1>4, <3>1, <3>2, <3>3
    <2>2. PICK t \in Date : /\ Real(t) /\ Number(t) = AddMonths(first, m)
                            /\ SameDay(first, t) /\ Index(t) = Index(first) + m
      BY LaterSameDay
    <2>3. 12 * (t.year - first.year) + t.month - first.month = m
      BY <2>2 DEF Index, Date
    <2>4. FallsOn(first, f, t)
      BY <1>2, <1>4, <2>1, <2>2, <2>3 DEF FallsOn, SameDay
    <2>5. QED
      BY <2>1, <2>2, <2>4
  <1>5. QED
    BY <1>3, <1>4 DEF Frequency

\* The years a schedule is looked at, as far as the last day of interest.
Covers(years, first, day) ==
  \E y \in years : first.year..y \subseteq years /\ day < Number(At(y + 1, 1, 1))

LEMMA ScheduleHas ==
  ASSUME NEW first \in Date, Real(first), NEW f \in Frequency, NEW n \in Nat,
         NEW years, years \subseteq Nat \ {0}, NEW day \in Nat, Covers(years, first, day),
         Occurrence(first, f, n) <= day
  PROVE  Occurrence(first, f, n) \in Schedule(first, f, years)
  <1>1. PICK t \in Date : /\ Real(t) /\ FallsOn(first, f, t)
                          /\ Number(t) = Occurrence(first, f, n)
    BY OccurrenceFalls
  <1>2. PICK y \in years : first.year..y \subseteq years /\ day < Number(At(y + 1, 1, 1))
    BY DEF Covers
  <1>3. /\ t.year \in Nat \ {0} /\ t.month \in 1..12 /\ t.day \in 1..31
        /\ t = At(t.year, t.month, t.day) /\ first.year \in Nat /\ y \in Nat \ {0}
    BY DEF Date, At
  <1>4. Number(first) \in Nat /\ Number(t) \in Nat /\ Number(first) <= Number(t)
    BY <1>1, NumberType DEF FallsOn
  <1>5. first.year <= t.year
    <2>1. SUFFICES ASSUME t.year < first.year PROVE FALSE
      BY <1>3
    <2>2. Number(t) < Number(first)
      BY <1>1, <2>1, EarlierNumbered DEF Earlier
    <2>3. QED
      BY <1>4, <2>2
  <1>6. t.year <= y
    <2>1. SUFFICES ASSUME y < t.year PROVE FALSE
      BY <1>3
    <2>2. PICK u : u = At(y + 1, 1, 1)
      OBVIOUS
    <2>3. u \in Date /\ u.year = y + 1 /\ u.month = 1 /\ u.day = 1 /\ Real(u)
      BY <1>3, <2>2 DEF At, Date, Real, DaysInMonth
    <2>4. Earlier(u, t) \/ u = t
      BY <1>3, <2>1, <2>2, <2>3 DEF Earlier, At, Date
    <2>5. Number(u) \in Nat /\ Number(u) <= Number(t)
      <3>1. Number(u) \in Nat
        BY <2>3, NumberType
      <3>2. Earlier(u, t) => Number(u) < Number(t)
        BY <1>1, <2>3, EarlierNumbered
      <3>3. QED
        BY <1>4, <2>4, <3>1, <3>2
    <2>6. QED
      BY <1>1, <1>2, <1>4, <2>2, <2>5
  <1>7. t.year \in years
    BY <1>2, <1>3, <1>5, <1>6
  <1>8. t \in RealDates(years)
    BY <1>1, <1>3, <1>7 DEF RealDates, Calendar
  <1>9. QED
    BY <1>1, <1>8 DEF Schedule

LEMMA ScheduleIsOccurrences ==
  ASSUME NEW first \in Date, Real(first), NEW f \in Frequency,
         NEW years, years \subseteq Nat \ {0}
  PROVE  Schedule(first, f, years) \subseteq Occurrences(first, f)
  <1>1. SUFFICES ASSUME NEW t \in RealDates(years), FallsOn(first, f, t)
                 PROVE  Number(t) \in Occurrences(first, f)
    BY DEF Schedule
  <1>2. t \in Date /\ Real(t)
    BY DEF RealDates, Calendar, At, Date
  <1>3. QED
    BY <1>1, <1>2, FallsIsOccurrence

-----------------------------------------------------------------------------
(* What is due. *)

\* As the occurrences are in order, those that are due are the first ones.
Wanted(d, end, last, today) ==
  d <= today /\ (end # 0 => d <= end) /\ (last # 0 => d > last)

LEMMA DueAre ==
  ASSUME NEW first \in Date, NEW f \in Frequency, NEW end \in Nat, NEW last \in Nat,
         NEW today \in Nat
  PROVE  DueOccurrences(first, f, end, last, today) =
           {d \in {Occurrence(first, f, n) : n \in 0..MaxOccurrences} :
              Wanted(d, end, last, today)}
  <1> DEFINE due(n) == /\ Occurrence(first, f, n) <= today
                       /\ end # 0 => Occurrence(first, f, n) <= end
             A == {k \in 0..MaxOccurrences : \A j \in 0..k : due(j)}
             B == {k \in 0..MaxOccurrences : due(k)}
  <1>1. MaxOccurrences \in Nat
    BY MaxOccurrencesAssumption
  <1>2. ASSUME NEW k \in 0..MaxOccurrences, NEW j \in 0..k, due(k) PROVE due(j)
    <2>1. k \in Nat /\ j \in Nat /\ (j < k \/ j = k)
      BY <1>1, <1>2
    <2>2. Occurrence(first, f, j) <= Occurrence(first, f, k)
      <3>1. CASE j < k
        <4>1. Occurrence(first, f, j) < Occurrence(first, f, k)
          BY <2>1, <3>1, OccurrencesInOrder
        <4>2. Occurrence(first, f, j) \in Nat /\ Occurrence(first, f, k) \in Nat
          BY <2>1, OccurrenceType
        <4>3. QED
          BY <4>1, <4>2
      <3>2. CASE j = k
        <4>1. Occurrence(first, f, k) \in Nat
          BY <2>1, OccurrenceType
        <4>2. QED
          BY <3>2, <4>1
      <3>3. QED
        BY <2>1, <3>1, <3>2
    <2>3. Occurrence(first, f, j) \in Nat /\ Occurrence(first, f, k) \in Nat
      BY <2>1, OccurrenceType
    <2>4. QED
      BY <1>2, <2>2, <2>3
  <1>3. A = B
    <2>1. \A k \in 0..MaxOccurrences : k \in 0..k
      BY <1>1
    <2>2. A \subseteq B
      BY <2>1
    <2>3. B \subseteq A
      BY <1>2
    <2>4. QED
      BY <2>2, <2>3
  <1>4. DueOccurrences(first, f, end, last, today) =
          {d \in {Occurrence(first, f, n) : n \in A} : last # 0 => d > last}
    BY DEF DueOccurrences
  <1>5. ASSUME NEW d
        PROVE  d \in {x \in {Occurrence(first, f, n) : n \in B} : last # 0 => x > last}
                 <=> d \in {x \in {Occurrence(first, f, n) : n \in 0..MaxOccurrences} :
                            Wanted(x, end, last, today)}
    BY DEF Wanted
  <1>6. QED
    BY <1>3, <1>4, <1>5

\* Between the last one made and one that is due, all are due.
LEMMA NoneBetween ==
  ASSUME NEW first \in Date, NEW f \in Frequency, NEW end \in Nat, NEW last \in Nat,
         NEW today \in Nat, NEW w \in DueOccurrences(first, f, end, last, today),
         NEW d \in Occurrences(first, f), d <= w, last < d
  PROVE  d \in DueOccurrences(first, f, end, last, today)
  <1>1. MaxOccurrences \in Nat
    BY MaxOccurrencesAssumption
  <1>2. PICK k \in 0..MaxOccurrences : w = Occurrence(first, f, k) /\ Wanted(w, end, last, today)
    BY DueAre
  <1>3. PICK n \in Nat : d = Occurrence(first, f, n)
    BY DEF Occurrences
  <1>4. k \in Nat /\ w \in Nat /\ d \in Nat
    BY <1>1, <1>2, <1>3, OccurrenceType
  <1>5. n \in 0..MaxOccurrences
    <2>1. k < n => w < d
      BY <1>2, <1>3, <1>4, OccurrencesInOrder
    <2>2. QED
      BY <1>1, <1>2, <1>3, <1>4, <2>1
  <1>6. Wanted(d, end, last, today)
    BY <1>2, <1>4 DEF Wanted
  <1>7. QED
    BY <1>3, <1>5, <1>6, DueAre

\* "Every occurrence it missed": what is due are the days of the schedule since
\* the last one made, up to today or its end, as long as the loop's cap is not
\* reached.
THEOREM DueBySchedule ==
  ASSUME NEW first \in Date, Real(first), NEW f \in Frequency, NEW end \in Nat,
         NEW last \in Nat, NEW today \in Nat,
         today < Occurrence(first, f, MaxOccurrences + 1),
         NEW years, years \subseteq Nat \ {0}, Covers(years, first, today)
  PROVE  DueOccurrences(first, f, end, last, today) =
           {d \in Schedule(first, f, years) : Wanted(d, end, last, today)}
  <1>1. DueOccurrences(first, f, end, last, today) =
          {d \in {Occurrence(first, f, n) : n \in 0..MaxOccurrences} :
             Wanted(d, end, last, today)}
    BY DueAre
  <1>2. MaxOccurrences \in Nat
    BY MaxOccurrencesAssumption
  <1>3. ASSUME NEW n \in 0..MaxOccurrences, Wanted(Occurrence(first, f, n), end, last, today)
        PROVE  Occurrence(first, f, n) \in Schedule(first, f, years)
    <2>1. n \in Nat /\ Occurrence(first, f, n) <= today
      BY <1>2, <1>3 DEF Wanted
    <2>2. QED
      BY <2>1, ScheduleHas
  <1>4. ASSUME NEW d \in Schedule(first, f, years), Wanted(d, end, last, today)
        PROVE  \E n \in 0..MaxOccurrences : d = Occurrence(first, f, n)
    <2>1. PICK n \in Nat : d = Occurrence(first, f, n)
      BY ScheduleIsOccurrences DEF Occurrences
    <2>2. d <= today /\ d \in Nat
      BY <1>4, <2>1, OccurrenceType DEF Wanted
    <2>3. n <= MaxOccurrences
      <3>1. SUFFICES ASSUME MaxOccurrences < n PROVE FALSE
        BY <1>2
      <3>2. PICK m \in Nat : m = MaxOccurrences + 1
        BY <1>2
      <3>3. m < n \/ m = n
        BY <1>2, <3>1, <3>2
      <3>4. Occurrence(first, f, m) \in Nat /\ today < Occurrence(first, f, m)
        BY <3>2, OccurrenceType
      <3>5. m < n => Occurrence(first, f, m) < d
        BY <2>1, OccurrencesInOrder
      <3>6. QED
        BY <2>1, <2>2, <3>3, <3>4, <3>5
    <2>4. n \in 0..MaxOccurrences
      BY <1>2, <2>3
    <2>5. QED
      BY <2>1, <2>4
  <1>5. QED
    BY <1>1, <1>3, <1>4

\* Looking again on a later day makes just what looking only then would have
\* made and the first look has not; on the same day, nothing.
THEOREM LookingTwice ==
  ASSUME NEW first \in Date, NEW f \in Frequency, NEW end \in Nat, NEW last \in Nat,
         NEW today \in Nat, NEW later \in Nat, today <= later,
         NEW made, made = DueOccurrences(first, f, end, last, today),
         NEW latest \in made, \A d \in made : d <= latest
  PROVE  /\ made \subseteq DueOccurrences(first, f, end, last, later)
         /\ DueOccurrences(first, f, end, latest, later) =
              DueOccurrences(first, f, end, last, later) \ made
  <1> DEFINE All == {Occurrence(first, f, n) : n \in 0..MaxOccurrences}
  <1>1. \A d \in All : d \in Nat \ {0}
    <2>1. \A n \in 0..MaxOccurrences : n \in Nat
      BY MaxOccurrencesAssumption
    <2>2. QED
      BY <2>1, OccurrenceType
  <1>2. made = {d \in All : Wanted(d, end, last, today)}
    BY DueAre
  <1>3. DueOccurrences(first, f, end, last, later) = {d \in All : Wanted(d, end, last, later)}
    BY DueAre
  <1>4. latest \in All /\ latest \in Nat \ {0} /\ Wanted(latest, end, last, today)
    BY <1>1, <1>2
  <1>5. DueOccurrences(first, f, end, latest, later) =
          {d \in All : Wanted(d, end, latest, later)}
    BY <1>4, DueAre
  <1> HIDE DEF All
  <1>6. \A d \in All : Wanted(d, end, last, today) => Wanted(d, end, last, later)
    BY <1>1 DEF Wanted
  <1>7. \A d \in All : Wanted(d, end, latest, later) <=>
          Wanted(d, end, last, later) /\ ~Wanted(d, end, last, today)
    <2>1. SUFFICES ASSUME NEW d \in All
                   PROVE  Wanted(d, end, latest, later) <=>
                            Wanted(d, end, last, later) /\ ~Wanted(d, end, last, today)
      OBVIOUS
    <2>2. d \in Nat \ {0}
      BY <1>1
    <2>3. Wanted(d, end, last, today) => d <= latest
      BY <1>2
    <2>4. CASE last = 0
      BY <1>4, <2>2, <2>3, <2>4 DEF Wanted
    <2>5. CASE last # 0
      BY <1>4, <2>2, <2>3, <2>5 DEF Wanted
    <2>6. QED
      BY <2>4, <2>5
  <1>8. QED
    BY <1>2, <1>3, <1>5, <1>6, <1>7

-----------------------------------------------------------------------------
(* Savings goals. *)

LEMMA OverParts ==
  ASSUME NEW t \in Date, NEW n \in Nat
  PROVE  LET i == Index(t) + n
         IN  AddMonthsOver(t, n) = MonthStart(i) + t.day
  <1>1. Index(t) \in Nat /\ Index(t) >= 12 /\ t.day \in 1..31
    BY DateParts
  <1>2. PICK i : i = Index(t) + n
    OBVIOUS
  <1>3. i \in Nat /\ i >= 12 /\ Length(i) \in 28..31 /\ MonthStart(i) \in Nat
    BY <1>1, <1>2, LengthType, MonthsMeet
  <1>4. t.year * 12 + (t.month - 1) + n = i
    BY <1>2 DEF Index, Date
  <1>5. AddMonthsOver(t, n) = Number(At(Year(i), Month(i), 1)) + t.day - 1
    BY <1>4 DEF AddMonthsOver, Year, Month
  <1>6. Number(At(Year(i), Month(i), 1)) = MonthStart(i) + 1
    BY <1>3, DateOf
  <1>7. QED
    BY <1>1, <1>2, <1>3, <1>5, <1>6

\* The two ways of adding months differ by the days the month does not have,
\* three at most.
THEOREM ThreeDaysOver ==
  ASSUME NEW t \in Date, NEW n \in Nat
  PROVE  AddMonthsOver(t, n) - AddMonths(t, n) \in 0..3
  <1>1. PICK i : i = Index(t) + n
    OBVIOUS
  <1>2. /\ i \in Nat /\ i >= 12
        /\ AddMonths(t, n) = MonthStart(i) + Clamp(t.day, Length(i))
        /\ AddMonthsOver(t, n) = MonthStart(i) + t.day
    BY <1>1, AddMonthsParts, OverParts
  <1>3. MonthStart(i) \in Nat /\ Length(i) \in 28..31 /\ t.day \in 1..31
    BY <1>2, MonthsMeet, LengthType, DateParts
  <1>4. QED
    BY <1>2, <1>3 DEF Clamp

LEMMA OverGrows ==
  ASSUME NEW t \in Date, NEW j \in Nat, NEW k \in Nat, j <= k
  PROVE  /\ AddMonthsOver(t, j) <= AddMonthsOver(t, k)
         /\ Number(t) <= AddMonthsOver(t, j)
         /\ AddMonthsOver(t, j) \in Nat
  <1>1. PICK i : i = Index(t)
    OBVIOUS
  <1>2. /\ i \in Nat /\ i >= 12 /\ t.day \in 1..31
        /\ Number(t) = MonthStart(i) + t.day
        /\ AddMonthsOver(t, j) = MonthStart(i + j) + t.day
        /\ AddMonthsOver(t, k) = MonthStart(i + k) + t.day
    BY <1>1, DateParts, OverParts
  <1>3. ASSUME NEW a \in Nat, NEW b \in Nat, a >= 12, a <= b
        PROVE  MonthStart(a) <= MonthStart(b)
    <2>1. MonthStart(a) \in Nat /\ MonthStart(b) \in Nat /\ Length(a) \in 28..31
      BY <1>3, MonthsMeet, LengthType
    <2>2. CASE a < b
      BY <1>3, <2>1, <2>2, MonthsGrow
    <2>3. CASE a = b
      BY <2>1, <2>3
    <2>4. QED
      BY <1>3, <2>2, <2>3
  <1>4. PICK a, b : a = i + j /\ b = i + k
    OBVIOUS
  <1>5. a \in Nat /\ b \in Nat /\ i <= a /\ a <= b /\ a >= 12
    BY <1>2, <1>4
  <1>6. MonthStart(i) <= MonthStart(a) /\ MonthStart(a) <= MonthStart(b)
    BY <1>2, <1>3, <1>5
  <1>7. MonthStart(i) \in Nat /\ MonthStart(a) \in Nat /\ MonthStart(b) \in Nat
    BY <1>2, <1>5, MonthsMeet
  <1>8. QED
    BY <1>2, <1>4, <1>6, <1>7

\* The months are a quotient, or one less where it is whole and not zero.
LEMMA MonthsType ==
  ASSUME NEW remaining \in Nat \ {0}, NEW net \in Nat \ {0},
         NEW m \in Months(remaining, net)
  PROVE  m \in Nat /\ m * net <= 3 * remaining /\ 3 * remaining <= (m + 1) * net
  <1>1. PICK x \in Nat : x = 3 * remaining /\ x # 0
    OBVIOUS
  <1>2. PICK q : q = x \div net
    OBVIOUS
  <1>3. q \in Nat /\ q * net <= x /\ x < (q + 1) * net
    BY <1>1, <1>2
  <1>4. m = q \/ (x % net = 0 /\ m = q - 1)
    BY <1>1, <1>2 DEF Months
  <1>5. CASE m = q
    BY <1>1, <1>3, <1>5
  <1>6. CASE x % net = 0 /\ m = q - 1
    <2>1. x = q * net
      BY <1>1, <1>2, <1>6
    <2>2. q # 0
      BY <1>1, <2>1
    <2>3. m \in Nat /\ q = m + 1 /\ q * net = m * net + net
      BY <1>3, <1>6, <2>2
    <2>4. m * net \in Nat
      BY <2>3
    <2>5. QED
      BY <1>1, <2>1, <2>3, <2>4
  <1>7. QED
    BY <1>4, <1>5, <1>6

\* A goal that is reached is reached today; no other is projected for a day
\* that has gone.
THEOREM NeverProjectedBack ==
  ASSUME NEW t \in Date, NEW remaining \in Nat, NEW net \in Int,
         NEW day \in Projected(remaining, net, t)
  PROVE  Number(t) <= day
  <1>1. Number(t) \in Nat
    BY NumberType
  <1>2. CASE remaining = 0
    BY <1>1, <1>2 DEF Projected
  <1>3. CASE remaining # 0
    <2>1. PICK m \in Months(remaining, net) : day = AddMonthsOver(t, m) /\ net > 0
      BY <1>3 DEF Projected
    <2>2. m \in Nat
      BY <1>3, <2>1, MonthsType
    <2>3. QED
      BY <2>1, <2>2, OverGrows
  <1>4. QED
    BY <1>2, <1>3

\* At the same rate, a goal with a month's worth less to go is never projected
\* for a later day, whatever the float quotients do.
THEOREM LessIsSooner ==
  ASSUME NEW t \in Date, NEW less \in Nat, NEW remaining \in Nat, NEW net \in Nat \ {0},
         3 * less + net <= 3 * remaining,
         NEW early \in Projected(less, net, t), NEW day \in Projected(remaining, net, t)
  PROVE  early <= day
  <1>1. remaining \in Nat \ {0}
    OBVIOUS
  <1>2. PICK m \in Months(remaining, net) : day = AddMonthsOver(t, m)
    BY <1>1 DEF Projected
  <1>3. m \in Nat /\ 3 * remaining <= (m + 1) * net
    BY <1>1, <1>2, MonthsType
  <1>4. CASE less = 0
    <2>1. early = Number(t)
      BY <1>4 DEF Projected
    <2>2. QED
      BY <1>2, <1>3, <2>1, OverGrows
  <1>5. CASE less # 0
    <2>1. PICK k \in Months(less, net) : early = AddMonthsOver(t, k)
      BY <1>5 DEF Projected
    <2>2. k \in Nat /\ k * net <= 3 * less
      BY <1>5, <2>1, MonthsType
    <2>3. k * net + net <= (m + 1) * net
      BY <1>3, <2>2
    <2>4. k <= m
      <3>1. SUFFICES ASSUME m + 1 <= k PROVE FALSE
        BY <1>3, <2>2
      <3>2. (m + 1) * net <= k * net
        BY <1>3, <2>2, <3>1
      <3>3. (m + 1) * net \in Int /\ k * net \in Int
        BY <1>3, <2>2
      <3>4. QED
        BY <2>3, <3>2, <3>3
    <2>5. QED
      BY <1>2, <1>3, <2>1, <2>2, <2>4, OverGrows
  <1>6. QED
    BY <1>4, <1>5

=============================================================================

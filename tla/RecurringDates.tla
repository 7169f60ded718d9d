--------------------------- MODULE RecurringDates ---------------------------
(***************************************************************************)
(* The days a schedule falls on: app/services/recurring_date_math.py.      *)
(*                                                                         *)
(* A date is a year, a month and a day; days are compared by number, as    *)
(* the code compares YYYY-MM-DD strings, which sort the same way.          *)
(***************************************************************************)
EXTENDS Integers

CONSTANT MaxOccurrences   \* max_occurrences; 5000 in the code

ASSUME MaxOccurrencesAssumption == MaxOccurrences \in Nat

Frequency == {"weekly", "biweekly", "monthly", "quarterly", "yearly"}

Leap(y) == y % 4 = 0 /\ (y % 100 # 0 \/ y % 400 = 0)
DaysInMonth(y, m) == CASE m \in {4, 6, 9, 11} -> 30
                       [] m = 2 -> IF Leap(y) THEN 29 ELSE 28
                       [] OTHER -> 31

Date == [year : Nat \ {0}, month : 1..12, day : 1..31]
At(y, m, d) == [year |-> y, month |-> m, day |-> d]
\* A day the month has; no other string parses as a date.
Real(t) == t.day <= DaysInMonth(t.year, t.month)

\* date.toordinal, counting the months of a year from March.
Number(t) ==
  LET y == IF t.month < 3 THEN t.year - 1 ELSE t.year
      m == (t.month + 9) % 12
  IN  365 * y + y \div 4 - y \div 100 + y \div 400 + (153 * m + 2) \div 5 + t.day

\* _add_months_anchored: clamped to the last day of a shorter month.
AddMonths(t, months) ==
  LET total == t.year * 12 + (t.month - 1) + months
      y == total \div 12
      m == (total % 12) + 1
  IN  Number(At(y, m, IF t.day <= DaysInMonth(y, m) THEN t.day ELSE DaysInMonth(y, m)))

\* occurrence_at
Occurrence(first, frequency, n) ==
  CASE frequency = "weekly"    -> Number(first) + 7 * n
    [] frequency = "biweekly"  -> Number(first) + 14 * n
    [] frequency = "monthly"   -> AddMonths(first, n)
    [] frequency = "quarterly" -> AddMonths(first, 3 * n)
    [] frequency = "yearly"    -> AddMonths(first, 12 * n)

\* Mutated form of DueOccurrences: the last one made is due again.
DueAgain(first, frequency, end, last, today) ==
  LET at(n) == Occurrence(first, frequency, n)
      due(n) == at(n) <= today /\ (end # 0 => at(n) <= end)
  IN  {d \in {at(n) : n \in {k \in 0..MaxOccurrences : \A j \in 0..k : due(j)}} :
         last # 0 => d >= last}

\* due_occurrences: up to the first that is not due yet, without those up to
\* the last one made; 0 stands for None.
DueOccurrences(first, frequency, end, last, today) ==
  LET at(n) == Occurrence(first, frequency, n)
      due(n) == at(n) <= today /\ (end # 0 => at(n) <= end)
  IN  {d \in {at(n) : n \in {k \in 0..MaxOccurrences : \A j \in 0..k : due(j)}} :
         last # 0 => d > last}

-----------------------------------------------------------------------------
(* What a schedule is, without counting occurrences. *)

Every(frequency) == CASE frequency = "monthly" -> 1
                      [] frequency = "quarterly" -> 3
                      [] frequency = "yearly" -> 12

\* The anchor's day, or the last day of a month that does not have it.
FallsOn(first, frequency, t) ==
  /\ Number(t) >= Number(first)
  /\ CASE frequency = "weekly"   -> (Number(t) - Number(first)) % 7 = 0
       [] frequency = "biweekly" -> (Number(t) - Number(first)) % 14 = 0
       [] OTHER ->
            /\ (12 * (t.year - first.year) + t.month - first.month) % Every(frequency) = 0
            /\ \/ t.day = first.day
               \/ t.day < first.day /\ t.day = DaysInMonth(t.year, t.month)

Calendar(years) == {At(y, m, d) : y \in years, m \in 1..12, d \in 1..31}
RealDates(years) == {t \in Calendar(years) : Real(t)}
Schedule(first, frequency, years) ==
  {Number(t) : t \in {x \in RealDates(years) : FallsOn(first, frequency, x)}}
=============================================================================

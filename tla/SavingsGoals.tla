---------------------------- MODULE SavingsGoals ----------------------------
(***************************************************************************)
(* How far along a savings goal is and when it should be reached:          *)
(* app/services/savings_goal_service.py.  What a goal has reached is the   *)
(* balance of its account; the days are an estimate, from the rate of the  *)
(* last 90 days.  Nothing is written.  Amounts are cents.                  *)
(***************************************************************************)
EXTENDS RecurringDates, Sums

\* get_account_balance; S is the account's transactions.
Balance(starting, S) == starting + SumOver([x \in S |-> x.amount])

\* _recent_monthly_rate, times three.
RecentNet(S, today) ==
  SumOver([x \in {y \in S : y.date >= today - 90 /\ y.date <= today} |-> x.amount])

\* _add_months_js_style: days that a month does not have run into the next.
AddMonthsOver(t, months) ==
  LET total == t.year * 12 + (t.month - 1) + months
  IN  Number(At(total \div 12, (total % 12) + 1, 1)) + t.day - 1

Remaining(target, balance) == IF balance < target THEN target - balance ELSE 0

\* The months it takes, without the fraction.  The quotient is a float, which
\* may be less than a whole number it should be.
Months(remaining, net) ==
  LET m == (3 * remaining) \div net
  IN  {m} \cup (IF (3 * remaining) % net = 0 THEN {m - 1} ELSE {})

\* The last day there is a date for.
LastDay == Number(At(9999, 12, 31))

\* The days goal_progress may answer: none for an account that does not fill.
Projected(remaining, net, today) ==
  IF remaining = 0 THEN {Number(today)}
  ELSE IF net > 0
       THEN {d \in {AddMonthsOver(today, m) : m \in Months(remaining, net)} : d <= LastDay}
  ELSE {}

\* Whether it may raise instead: the year is past the last, or the floats of
\* amounts that cancel add up to next to nothing, in months past counting.
Raises(remaining, net, today) ==
  /\ remaining > 0
  /\ net = 0 \/ (net > 0 /\ \E m \in Months(remaining, net) :
                              AddMonthsOver(today, m) > LastDay)

\* Whether it may say that the goal is reached by the target date.
OnTrack(remaining, net, today, by) == \E day \in Projected(remaining, net, today) : day <= by
=============================================================================

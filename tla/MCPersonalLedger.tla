-------------------------- MODULE MCPersonalLedger --------------------------
(* Two accounts and two rules, at the start and the end of three months of a leap year. *)
EXTENDS PersonalLedger, SavingsGoals, TLC

\* For every frequency, from dates that are hard to keep, the occurrences
\* counted from the anchor are the days of the schedule.
ASSUME DatesAgree ==
  \A first \in {At(2024, 1, 31), At(2024, 2, 29), At(2023, 11, 30), At(2023, 12, 29)},
     f \in Frequency :
    LET then == Number(first) + CASE f \in {"weekly", "biweekly"} -> 50
                                  [] f = "monthly" -> 200
                                  [] OTHER -> 640
    IN  DueOccurrences(first, f, 0, 0, then) =
          {d \in Schedule(first, f, 2023..2026) : d <= then}

\* A goal is never projected before today or, with less to save at the same
\* rate, later; the days a month does not have make three days at most;
\* of a cent a day, the last ninety and today count for the rate, and all for the
\* balance.
ASSUME ProjectionsAgree ==
  \A t \in {At(2024, 1, 31), At(2023, 1, 29), At(2023, 10, 31), At(2024, 2, 15)},
     net \in 1..7 :
    /\ \A remaining \in 0..20 : \A day \in Projected(remaining, net, t) :
         /\ day >= Number(t) /\ OnTrack(remaining, net, t, day)
         /\ \A less \in 0..20 : 3 * less + net <= 3 * remaining =>
              \A early \in Projected(less, net, t) : early <= day
         \* a goal is answered, fails, or has an account that does not fill
    /\ \A remaining \in {0, 20, 10^5, 10^6} : \A rate \in {-1, 0, net} :
         LET answers == Projected(remaining, rate, t)
         IN  /\ answers = {} => rate < 0 \/ Raises(remaining, rate, t)
             /\ Raises(remaining, rate, t) => answers = {} /\ (rate = 0 \/ remaining >= 10^5)
    /\ \A m \in 0..60 : AddMonthsOver(t, m) - AddMonths(t, m) \in 0..3
    /\ LET S == {[date |-> Number(t) - k, amount |-> 1] : k \in -5..100}
       IN  RecentNet(S, Number(t)) = 91 /\ Remaining(100, Balance(-6, S)) = 0

MCDays == {Number(At(2024, 1, 31)), Number(At(2024, 4, 30))}
MCStarts == {At(2024, 1, 31)}
MCTerms == {[frequency |-> "monthly", end |-> 0],
            [frequency |-> "quarterly", end |-> Number(At(2024, 3, 1))]}
MCStripped == "food" :> "food" @@ " food" :> "food"
Symmetry == Permutations(Slot) \cup Permutations(Account) \cup Permutations(Rule)
=============================================================================

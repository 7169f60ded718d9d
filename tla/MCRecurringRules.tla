-------------------------- MODULE MCRecurringRules --------------------------
(***************************************************************************)
(* Instances of RecurringRules for TLC.                                    *)
(***************************************************************************)
EXTENDS RecurringRules, TLC

CONSTANTS often, seldom, r1, r2

\* Two schedules with the same anchor.
EveryDay == (often :> Day)
TwoSchedules == (often :> Day) @@ (seldom :> {d \in Day : d % 2 = 1})

\* The slots are interchangeable.
AnySlot == Permutations(Slot)
=============================================================================

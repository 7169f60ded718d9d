----------------------------- MODULE GroupDebts -----------------------------
(***************************************************************************)
(* The shared ledger and the payments suggested to a group.  A group's     *)
(* positions are those of the expenses here and of older ones, which stay  *)
(* as they are.                                                            *)
(***************************************************************************)
EXTENDS SharedLedger, DebtSimplification

CONSTANTS Older,        \* the positions older expenses leave a group in
          PlanUpTo      \* bound: requests before positions are settled

ASSUME OlderAssumption == Older \subseteq [Key -> Int]
ASSUME PeopleAssumption == Person \subseteq Key /\ IsFiniteSet(Expense)

\* Mutated form of NetOf: the payer's own share is not the payer's.
NetOfOthers(g) == [p \in Key |->
  LET here == {e \in Expense : On(e) /\ GroupOf[e] = g}
  IN  SumOver([e \in {x \in here : expense[x].payer = p} |-> expense[e].amount])
    - Total({r \in splits : r.expense \in here /\ r.who = p /\ expense[r.expense].payer # p})]

\* What was paid less one's own shares, for the expenses of a group.
NetOf(g) == [p \in Key |->
  LET here == {e \in Expense : On(e) /\ GroupOf[e] = g}
  IN  SumOver([e \in {x \in here : expense[x].payer = p} |-> expense[e].amount])
    - Total({r \in splits : r.expense \in here /\ r.who = p})]

GroupInit == Init /\ PlanInit

\* get_simplified_debts.  Nothing happens while it runs.
Plan == /\ requests <= PlanUpTo
        /\ \E g \in Group, n \in Older : Start([p \in Key |-> n[p] + NetOf(g)[p]])
        /\ UNCHANGED vars
Settling == (Match \/ Return) /\ UNCHANGED vars

GroupNext == \/ Plan \/ Settling
             \/ ~running /\ net = Level /\ Next /\ UNCHANGED planVars
GroupSpec == GroupInit /\ [][GroupNext]_<<vars, planVars>>

-----------------------------------------------------------------------------
(* Properties. *)

\* A group whose expenses were not split by overlapping edits has positions
\* that add up to those of its older expenses, so that the payments suggested
\* leave nobody owing when those do.
PositionsLevel ==
  \A g \in Group : (\A e \in stale : GroupOf[e] # g) =>
    SumOver(NetOf(g)) = 0
=============================================================================

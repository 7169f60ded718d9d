------------------------- MODULE DebtSimplification -------------------------
(***************************************************************************)
(* The payments that settle a group: compute_group_debt_simplification of  *)
(* app/services/shared_expense_service.py.  From what everybody is owed    *)
(* (positive) or owes (negative), in cents, the person still owed who was  *)
(* owed most is matched with the person still owing who owed most, until   *)
(* one side has run out.                                                   *)
(*                                                                         *)
(* The loop does not await anything, so no other request runs meanwhile.   *)
(***************************************************************************)
EXTENDS Sums

CONSTANTS Key,      \* the people of the group
          Nets      \* the positions a group may be in

ASSUME KeyAssumption == IsFiniteSet(Key)
ASSUME NetsAssumption == Nets \subseteq [Key -> Int]

VARIABLES running, net, left, transfers

planVars == <<running, net, left, transfers>>

Transfer == [from : Key, to : Key, amount : Int]
Level == [k \in Key |-> 0]

PlanTypeOK == /\ running \in BOOLEAN
              /\ net \in [Key -> Int] /\ left \in [Key -> Int]
              /\ transfers \subseteq Transfer

PlanInit == running = FALSE /\ net = Level /\ left = Level /\ transfers = {}

Start(n) == /\ ~running /\ net = Level
            /\ running' = TRUE /\ net' = n /\ left' = n /\ transfers' = {}

\* Mutated form of Creditors: a last cent is let go.
CreditorsButACent == {k \in Key : left[k] > 1}
Creditors == {k \in Key : left[k] > 0}
Debtors == {k \in Key : left[k] < 0}
Size(k) == IF net[k] < 0 THEN -net[k] ELSE net[k]

\* The first in the list, sorted once.  Of two as large as each other, the
\* one begun comes first.
First(k, S) == /\ k \in S
               /\ \A j \in S : Size(j) <= Size(k) /\ (left[j] # net[j] => j = k)

\* Mutated form of Amount: all the creditor is owed.
AmountDue(d, c) == left[c]
Amount(d, c) == IF left[c] <= -left[d] THEN left[c] ELSE -left[d]

Match ==
  /\ running
  /\ \E d \in Debtors, c \in Creditors :
       /\ First(d, Debtors) /\ First(c, Creditors)
       /\ transfers' = transfers \cup
            {[from |-> d, to |-> c, amount |-> Amount(d, c)]}
       /\ left' = [left EXCEPT ![d] = @ + Amount(d, c), ![c] = @ - Amount(d, c)]
  /\ UNCHANGED <<running, net>>

Return == /\ running /\ (Creditors = {} \/ Debtors = {})
          /\ running' = FALSE
          /\ UNCHANGED <<net, left, transfers>>

PlanNext == (\E n \in Nets : Start(n)) \/ Match \/ Return
PlanSpec == PlanInit /\ [][PlanNext]_planVars

-----------------------------------------------------------------------------
(* Properties. *)

Moved(S) == SumOver([t \in S |-> t.amount])
In(k) == Moved({t \in transfers : t.to = k})
Out(k) == Moved({t \in transfers : t.from = k})

\* The payments carry everybody from the position read towards zero, and when
\* the positions add up, to zero.  When they do not (expenses whose shares do
\* not add up, or that change while they are read), what is left over is on
\* one side only.
Settled ==
  /\ \A k \in Key : left[k] = net[k] - In(k) + Out(k)
  /\ ~running => Creditors = {} \/ Debtors = {}
  /\ ~running /\ SumOver(net) = 0 => left = Level

\* Nobody both pays and receives or is paid more than is owed, and there are
\* fewer payments than people who had something to pay or to get.
OneWay == \A t \in transfers : net[t.from] < 0 /\ net[t.to] > 0 /\ t.amount > 0
Bounded == \A k \in Key : \/ 0 <= left[k] /\ left[k] <= net[k]
                          \/ net[k] <= left[k] /\ left[k] <= 0
Involved == {k \in Key : net[k] # 0}
FewTransfers ==
  /\ OneWay /\ Bounded
  /\ transfers # {} => Cardinality(transfers) < Cardinality(Involved)
=============================================================================

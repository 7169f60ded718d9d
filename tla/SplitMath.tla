----------------------------- MODULE SplitMath -----------------------------
(***************************************************************************)
(* How an amount is divided among the people on an expense: split_evenly,  *)
(* split_by_shares, split_by_percentage and split_exact of                 *)
(* app/services/shared_expense_service.py.  Amounts are cents.             *)
(*                                                                         *)
(* The cents that rounding down leaves over go one each to the largest     *)
(* remainders.  Among equal remainders the first listed get them, and the  *)
(* list comes from a client or from a query without an order: the result   *)
(* is a set of divisions, one of which the code makes.  No division at all *)
(* stands for SplitValidationError.                                        *)
(***************************************************************************)
EXTENDS Sums

SplitTypes == {"equal", "shares", "percentage", "exact"}

\* Of a share, the whole cents and what is cut off them, in parts of a cent
\* as many as the weights have together.
Floor(total, w, k) == (total * w[k]) \div SumOver(w)
Remainder(total, w, k) == (total * w[k]) % SumOver(w)
Leftover(total, w) ==
  total - SumOver([k \in DOMAIN w |-> Floor(total, w, k)])

Lucky(total, w) ==
  {up \in kSubset(Leftover(total, w), DOMAIN w) :
     \A i \in up, j \in DOMAIN w \ up :
       Remainder(total, w, i) >= Remainder(total, w, j)}

ByWeights(total, w) ==
  {[k \in DOMAIN w |-> Floor(total, w, k) + IF k \in up THEN 1 ELSE 0] :
     up \in Lucky(total, w)}

\* A participant for whom no value is given has weight, or amount, 0.
Weights(people, values) ==
  [k \in people |-> IF k \in DOMAIN values THEN values[k] ELSE 0]

Divisions(type, total, people, values) ==
  LET w == Weights(people, values)
  IN  CASE type = "equal"      -> ByWeights(total, [k \in people |-> 1])
        [] type = "shares"     -> IF SumOver(w) > 0 THEN ByWeights(total, w) ELSE {}
        [] type = "percentage" -> IF SumOver(w) = 100 THEN ByWeights(total, w) ELSE {}
        [] type = "exact"      -> IF SumOver(w) = total THEN {w} ELSE {}
=============================================================================

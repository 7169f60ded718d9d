--------------------------- MODULE MCSharedLedger ---------------------------
(* Two expenses of three people, in two groups. *)
EXTENDS GroupDebts, TLC

CONSTANTS a, b, c, d, e1, e2, g1, g2

MCGroupOf == e1 :> g1 @@ e2 :> g2
Shares211(x, y, z) == x :> 2 @@ y :> 1 @@ z :> 0
Nothing == [p \in {} |-> 0]
\* a and c have one name; before c has an account others may call them anything.
MCNameOf == a :> "x" @@ b :> "y" @@ c :> "x"
New(payer, amount, type, who, values) ==
  [payer |-> payer, name |-> "x", amount |-> amount, type |-> type, who |-> who,
   values |-> values]
Keep == New(None, None, None, None, None)

MCCreates ==
  {New(a, 3, "equal", {a, b}, Nothing),
   [New(c, 3, "equal", {a, b, c}, Nothing) EXCEPT !.name = "y"],
   New(a, 5, "shares", {a, b, c}, a :> 2 @@ b :> 1 @@ c :> -1),
   New(b, 4, "percentage", {a, c}, a :> 70 @@ c :> 30)}
MCEdits ==
  {[Keep EXCEPT !.amount = 7],
   [Keep EXCEPT !.payer = c],
   [Keep EXCEPT !.who = {a, b, c}],
   [Keep EXCEPT !.who = {b, c}, !.values = b :> 60 @@ c :> 40],
   [Keep EXCEPT !.type = "exact", !.who = {a, b}, !.values = a :> 3 @@ b :> 1]}
MCOlder == [Key -> -1..2]
Symmetry == Permutations(Slot)
=============================================================================

SPECIFICATION GroupSpec
CONSTANTS
  a = a
  b = b
  c = c
  d = d
  Key = {a, b, c, d}
  Nets = {}
  Older <- MCOlder
  PlanUpTo = 1
  e1 = e1
  e2 = e2
  g1 = g1
  g2 = g2
  None = None
  Person = {a, b, c}
  Expense = {e1, e2}
  Group = {g1, g2}
  Slot = {s1, s2}
  GroupOf <- MCGroupOf
  Creates <- MCCreates
  Edits <- MCEdits
  Payments = {2}
  Founders = {a, b}
  Name = {"x", "y"}
  NameOf <- MCNameOf
  MaxRequests = 4
SYMMETRY Symmetry
INVARIANTS TypeOK SharesAddUp BalancesKept BalancesListed Settled FewTransfers PositionsLevel
 
CHECK_DEADLOCK FALSE

SPECIFICATION Spec
CONSTANTS
  Account = {a1, a2}
  Rule = {r1, r2}
  Slot = {s1, s2}
  Days <- MCDays
  Starts <- MCStarts
  Terms <- MCTerms
  Amounts = {3}
  Text = {"food", " food"}
  Stripped <- MCStripped
  Limits = {1, 2}
  Years = {2024}
  MaxOccurrences = 7
  MaxRequests = 4
  None = None
SYMMETRY Symmetry
INVARIANTS TypeOK NothingDangles TransfersPaired LastLimitStays CopiesBounded AsScheduled
CHECK_DEADLOCK FALSE

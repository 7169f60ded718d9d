SPECIFICATION Spec
CONSTANTS
  Rule = {r1}
  r1 = r1
  r2 = r2
  Slot = {s1, s2}
  often = often
  seldom = seldom
  Frequency = {often, seldom}
  Dates <- TwoSchedules
  Ends = {0, 2}
  Splits = {TRUE, FALSE}
  MaxDay = 3
  MaxMade = 2
  MaxFailures = 1
  None = None
SYMMETRY AnySlot
INVARIANTS NoGap GapInv

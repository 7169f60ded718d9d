SPECIFICATION SteadySpec
CONSTANTS
  Rule = {r1, r2}
  r1 = r1
  r2 = r2
  Slot = {s1}
  often = often
  seldom = seldom
  Frequency = {often}
  Dates <- EveryDay
  Ends = {0, 1}
  Splits = {TRUE, FALSE}
  MaxDay = 2
  MaxMade = 3
  MaxFailures = 1
  None = None
INVARIANT OnceEach

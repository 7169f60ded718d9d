SPECIFICATION SerialSpec
CONSTANTS
  ann = ann
  bob = bob
  a1 = a1
  a2 = a2
  a3 = a3
  Email = {ann, bob}
  Account = {a1, a2}
  EmailOf <- OneEach
  Group = {g1}
  Expense = {x1}
  Slot = {s1}
  MaxSharers = 1
  MaxCopies = 1
  InviteLinks = FALSE
  None = None
INVARIANT PendingPayersInvited
\* Ids run out: every account, group and expense may be used up.
CHECK_DEADLOCK FALSE

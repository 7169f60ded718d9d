SPECIFICATION SerialSpec
CONSTANTS
  ann = ann
  bob = bob
  a1 = a1
  a2 = a2
  a3 = a3
  Email = {ann, bob}
  Account = {a1, a2, a3}
  EmailOf <- Returning
  Group = {g1}
  Expense = {x1}
  Slot = {s1}
  MaxSharers = 1
  MaxCopies = 2
  InviteLinks = FALSE
  None = None
INVARIANTS SharersListed PendingSharersInvited
\* Ids run out: every account, group and expense may be used up.
CHECK_DEADLOCK FALSE

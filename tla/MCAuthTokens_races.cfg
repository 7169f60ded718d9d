SPECIFICATION Spec
CONSTANTS
  ann = ann
  a1 = a1
  a2 = a2
  Account = {a1, a2}
  Email = {ann}
  EmailOf <- Returning
  Token = {t1, t2, t3}
  Slot = {s1, s2}
  RequireVerification = FALSE
  MaxExpired = 1
  None = None
SYMMETRY AnySlotOrToken
INVARIANTS TypeOK OwnersLive SingleUse OneGeneration VerifiedByLink SessionKept InFlight
\* Tokens run out.
CHECK_DEADLOCK FALSE

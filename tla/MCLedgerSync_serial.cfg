SPECIFICATION SerialSpec
CONSTANTS
  Device = {d1, d2, d3}
  Edit = {e1, e2}
  MaxVersion = 3
CONSTRAINT VersionBound
INVARIANTS TypeOK SerialInv NoSilentLoss AcceptedHasSeen
PROPERTIES VersionForward Promise
\* The account may be deleted for good.
CHECK_DEADLOCK FALSE

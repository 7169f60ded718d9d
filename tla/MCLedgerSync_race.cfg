SPECIFICATION Spec
CONSTANTS
  Device = {d1, d2}
  Edit = {e1, e2}
  MaxVersion = 3
CONSTRAINT VersionBound
PROPERTY VersionForward
CHECK_DEADLOCK FALSE

CONSTANTS
  MaxCerts = 4
  Requests = {r, q}
  Plans <- MCPlans
SPECIFICATION Spec
INVARIANTS
  TypeOK
  SlotsAreAlive
  RetiredAreTracked
  GraceNeverElevates
  NoLockout
CHECK_DEADLOCK FALSE

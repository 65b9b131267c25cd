CONSTANTS
  MaxCerts = 4
  Requests = {r, q}
  Plans <- MCLate
SPECIFICATION Spec
INVARIANTS
  InstalledAuthenticates
CHECK_DEADLOCK FALSE

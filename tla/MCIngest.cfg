SPECIFICATION Spec
CONSTANTS
  laptop = laptop
  desktop = desktop
  tablet = tablet
  a = a
  b = b
  c = c
  e = e
  Files = {laptop, desktop, tablet}
  Revisions = {a, b, c, e}
  Extends <- MCExtends
  ParseOf <- MCParse
  SizeOf <- MCSize
  Better <- MCBetter
  Tries = {t, u}
  Plans <- MCCopies
INVARIANTS AcknowledgedIsRecoverable ParsingIsOwed StatesAreEarned CopiesConverge
CHECK_DEADLOCK FALSE

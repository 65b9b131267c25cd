SPECIFICATION Spec
CONSTANTS
  laptop = laptop
  desktop = desktop
  tablet = tablet
  a = a
  b = b
  c = c
  e = e
  Files = {laptop}
  Revisions = {a, b, c, e}
  Extends <- MCExtends
  ParseOf <- MCParse
  SizeOf <- MCSize
  Better <- MCBetter
  Tries = {t}
  Plans <- MCDisplaced
INVARIANT NeverDestroyed
CHECK_DEADLOCK FALSE

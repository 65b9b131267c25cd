SPECIFICATION Spec
CONSTANTS
  r1 = r1
  r2 = r2
  r3 = r3
  x = x
  y = y
  u = u
  v = v
  Files = {f, g}
  Archives = {g}
  Revisions = {r1, r2, r3}
  Bodies = {x, y}
  Tokens = {u, v}
  BlocksOf <- MCCopiedBlocks
  UsageOf <- MCCopiedUsage
  Writers = {p, q}
  ChunkRows = 1
  MaxWrites = 2
  MaxUploads = 1
  MaxTouches = 1
SYMMETRY MCSymmetry
INVARIANTS TypeOK FenceSeparatesWriters CommittedIsIndexed IndexIsWhole
CHECK_DEADLOCK FALSE

SPECIFICATION FairSpec
CONSTANTS
  Sessions = {a,b}
  Shards = {k1}
  Syncers = {p, q}
  Reconcilers = {q}
  Rows = {r1, r2}
  LargeRows = {r2}
  Turns = {t}
  Absent = Absent
  Chunk = 2
  Limit = 2
  MaxSubrequests = 6
  MaxSeq = 2
  MaxFailures = 1
PROPERTIES OutboxDrains

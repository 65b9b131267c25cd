SPECIFICATION Spec
CONSTANTS
  Sessions = {a, b}
  Shards = {k1, k2}
  Syncers = {p, q}
  Reconcilers = {}
  Rows = {r1, r2}
  LargeRows = {r2}
  Turns = {}
  Absent = Absent
  Chunk = 1
  Limit = 2
  MaxSubrequests = 9
  MaxSeq = 2
  MaxFailures = 1
SYMMETRY MCSymmetry
INVARIANTS CatalogIsSound SyncIsHonest
PROPERTIES NoRegression ImplementsReplica

CONSTANTS
  c1 = c1
  c2 = c2
  RollSessions = {1, 2}
  Days = {"d", "e"}
  RollRevisions = {"small", "long"}
  Transcript <- MCTranscript
  RollPage = 2
  MaxBlocks = 3
  MaxRetries = 1
  RollupPlans <- MCRollupPlans
  Targets = {1, 2}
  Continuations = {c1, c2}
  TargetPage = 1
  ReindexPlans <- MCReindexPlans
  Models = {1, 2}
  Synthetic = 3
  NoModel = 0
  Pricers = {"daily", "admin", "ingest"}
  PricedSessions = {1, 2}
  BilledModels = {1, 2}
  NoSession = 0
  PriceOf <- MCPriceOf
  WriteBatch = 1
  PriceWrites = 1
  PriceChunk = 1
  PricingPlans <- MCPricingPlans
  Archives = {1, 2, 3}
  Talks = {1, 2}
  KickPage = 1
  CleanupPlans <- MCCleanupPlans
SPECIFICATION JobsSpec
INVARIANTS CountsAreExact RangeIsWhole MoneyAgrees CleanupIsWhole
PROPERTIES JobIsDecidedOnce JobsEnd
CHECK_DEADLOCK FALSE

CONSTANTS
  a = a
  b = b
  parse = parse
  rollup = rollup
  p = p
  q = q
  old = old
  new = new
  Sessions = {1, 2}
  Shards = {a, b}
  Queues = {parse, rollup}
  PageSessions = 1
  MaxVersion = 2
  MaxRevision = 2
  CutoverPlans <- MCCutoverPlans
  Runners = {p, q}
  First <- MCFirst
  Manifests <- MCManifests
  RunnerPlans <- MCRunnerPlans
  Uploads = {"hand", "fixture"}
  Fixture = "fixture"
  IndexBases = {"IDX00"}
  HomeShard <- MCHome
  DatabaseLimit = 6
  PreviewPlans <- MCPreviewPlans
SPECIFICATION DeploySpec
INVARIANTS CutoverIsWhole LedgersAreHonest
PROPERTIES MovesAreSafe PreviewIsHonest DeployEnds
CHECK_DEADLOCK FALSE

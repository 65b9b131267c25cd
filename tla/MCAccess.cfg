CONSTANTS
  o1 = o1
  o2 = o2
  q = q
  r = r
  CertOps = {o1, o2}
  MaxLinks = 2
  BrokerPlans <- MCBrokerPlans
  Devices = {"d", "e"}
  Mints = {"m", "n"}
  KeyPlans <- MCKeyPlans
  MaxCerts = 4
  Requests = {q, r}
  Plans <- MCCertPlans
SPECIFICATION AccessSpec
INVARIANTS BrokerIsSound KeysAreSound
PROPERTY AccessIsServed
CHECK_DEADLOCK FALSE

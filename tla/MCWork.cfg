CONSTANTS
  t = t
  u = u
  Owners <- MCOwners
  Images = {"img"}
  Databases = {"vault"}
  Hubs = {"h1", "h2"}
  MaxPut = 3
  MaxFile = 3
  Chunk = 2
  Tours <- MCTours
  Keys = {"x", "y", "big"}
  Bytes <- MCBytes
  Payload = 2
  EventPage = 2
  MaxPages = 2
  CompactRows = 3
  BeatPlans <- MCBeatPlans
  Nonces = {t, u}
  Contents <- MCContents
  MaxAttempts = 2
  MultipartPlans <- MCMultipartPlans
SPECIFICATION WorkSpec
INVARIANTS CollectorIsHonest BeatIsHonest UploadIsWhole
PROPERTIES WorkEnds
CHECK_DEADLOCK FALSE

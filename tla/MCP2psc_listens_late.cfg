SPECIFICATION Spec
CONSTANTS
  s1 = s1  s2 = s2  s3 = s3  k1 = k1  k2 = k2  k3 = k3
  None = None
  Nonce = {1337, 7}
  MediatorNonce = 1337
  Version = {0, 1}
  MAX_ADVERTISE_RETRIES = 5
  LatePeers = FALSE
  Prompt = FALSE
  Session = {s1, s2}
  Key = {k1, k2}
  KeyOf <- PairKeys
  Wants <- PairWants
  kVersion <- SameVersions
  protocol_version = 0
  QuitAfter = {None}
  Faults = {}
  TalkRoles = {}
  Staggered = TRUE
INVARIANTS PeerListensFirst
CHECK_DEADLOCK FALSE

SPECIFICATION HarnessFairSpec
CONSTANTS
  s1 = s1  s2 = s2  s3 = s3  k1 = k1  k2 = k2  k3 = k3
  None = None
  Session = {s1, s2, s3}
  Key = {k1, k2, k3}
  Nonce = {1337, 7}
  MediatorNonce = 1337
  Version = {0, 1}
  KeyOf <- TestKeys
  Wants <- TestWants
  kVersion <- TestVersions
  protocol_version = 1
  MAX_ADVERTISE_RETRIES = 5
  Faults = {}
  TalkRoles = {}
  Prompt = TRUE
  QuitAfter = {None, "Advertise", "AdvertiseResponse", "PeerIdentification"}
  LatePeers = TRUE
  Staggered = FALSE
  Scripts <- Tests
INVARIANTS HarnessTypeOK TestAssertions LogsAreSerial MediatorSurvives OnlyBlockingCallsWait
PROPERTIES EveryConnectCallsBack PairConnects
CHECK_DEADLOCK FALSE

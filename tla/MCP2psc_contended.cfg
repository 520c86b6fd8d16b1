SPECIFICATION SessionFairSpec
CONSTANTS
  s1 = s1  s2 = s2  s3 = s3  k1 = k1  k2 = k2  k3 = k3
  None = None
  Session = {s1, s2, s3}
  Key = {k1, k2, k3}
  Nonce = {1337, 7}
  MediatorNonce = 1337
  Version = {0, 1}
  KeyOf <- ContendedKeys
  Wants <- ContendedWants
  kVersion <- SameVersions
  protocol_version = 0
  MAX_ADVERTISE_RETRIES = 5
  Faults = {"refuse", "bind", "reuseaddr", "accept", "crash", "callback"}
  TalkRoles = {"client"}
  Prompt = FALSE
  QuitAfter = {None, "Advertise", "AdvertiseChallenge", "AdvertiseResponse"}
  LatePeers = TRUE
  Staggered = FALSE
INVARIANTS TypeOK Authenticated ClientImpliesPeer LockStep DisconnectSentFirst OneIdentificationPerDisconnect ErrorKindIsTruthful CloseIsLegal PeerImpliesClient
PROPERTIES PromiseIsKept HandshakeTerminates
CHECK_DEADLOCK FALSE

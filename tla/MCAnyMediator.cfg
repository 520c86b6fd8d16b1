SPECIFICATION AnySpec
CONSTANTS
  s1 = s1  s2 = s2  k1 = k1  k2 = k2
  None = None
  Session = {s1, s2}
  Key = {k1, k2}
  Nonce = {7}
  Version = {0, 1}
  KeyOf <- PairKeys
  Wants <- PairWants
  kVersion <- SameVersions
  MAX_ADVERTISE_RETRIES = 2
  MaxInFlight = 2
  Terse = TRUE
  Faults = {}
  TalkRoles = {"client"}
  Prompt = FALSE
INVARIANTS AnyTypeOK ClientImpliesPeer ErrorKindIsTruthful CloseIsLegal AdvertisesBounded
PROPERTIES PromiseIsKept
CHECK_DEADLOCK FALSE

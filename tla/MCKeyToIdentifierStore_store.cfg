SPECIFICATION FairSpec
CONSTANTS
  h1 = h1
  h2 = h2
  h3 = h3
  k1 = k1
  k2 = k2
  k3 = k3
  k4 = k4
  None = None
  Handler = {h1, h2, h3}
  Key = {k1, k2}
  our_key <- SharedKeys
  their_key <- SharedWants
  Ms = 3
  Late = 1
  Spurious = TRUE
INVARIANTS TypeOK OneOfTwoFinds DeadlineKept FoundStays
PROPERTIES PeerIsFound AwaitReturns
CHECK_DEADLOCK FALSE

SPECIFICATION Spec
CONSTANTS
  h1 = h1
  h2 = h2
  h3 = h3
  k1 = k1
  k2 = k2
  k3 = k3
  k4 = k4
  None = None
  Handler = {h1, h2, h3}
  Key = {k1, k2, k3, k4}
  our_key <- OtherKeys
  their_key <- OtherWants
  Ms = 4
  Late = 1
  Spurious = FALSE
INVARIANTS GivesUpAfterMs
CHECK_DEADLOCK FALSE

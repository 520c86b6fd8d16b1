SPECIFICATION Spec
CONSTANTS
  RECV_BUF_SIZE = 3
  Lengths = {2}
  MaxBytes = 8
  Regimes = {FALSE}
INVARIANTS ReturnsWholeMessages

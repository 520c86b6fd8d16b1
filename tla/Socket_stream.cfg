SPECIFICATION FairSpec
CONSTANTS
  RECV_BUF_SIZE = 3
  Lengths = {1, 2, 3, 4, 6}
  MaxBytes = 8
  Regimes = {TRUE, FALSE}
INVARIANTS TypeOK OnlyFirstReadBlocks NothingDiscarded
PROPERTIES StreamIsKept ReceiveReturns

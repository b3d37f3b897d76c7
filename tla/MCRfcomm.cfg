SPECIFICATION FairSpec
CONSTANTS
  TimeoutMs = 3
  SO_RCVTIMEO = 3
  PARTS = 3
  MaxParts = 7
INVARIANTS RecvBounded NoFrameWithheld PartsConserved
PROPERTY RecvReturns

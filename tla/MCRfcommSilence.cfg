SPECIFICATION Spec
CONSTANTS
  TimeoutMs = 3
  SO_RCVTIMEO = 3
  PARTS = 3
  MaxParts = 7
INVARIANT SilenceIsTimeout

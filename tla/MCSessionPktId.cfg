SPECIFICATION Spec
CONSTANTS
  Devices = {"zolder"}
  QueryKinds = {"SpotAcPower"}
  PKT_FLAG = 4
  L1_ATTEMPTS = 1
  L2_ATTEMPTS = 1
  MAX_FRAGMENTS = 1
  MaxPktId = 6
INVARIANTS OwnReplyRecognised

SPECIFICATION FairSpec
CONSTANTS
  Devices = {"zolder", "garage"}
  QueryKinds = {"SpotAcPower", "SpotDcPower"}
  PKT_FLAG = 6
  L1_ATTEMPTS = 2
  L2_ATTEMPTS = 3
  MAX_FRAGMENTS = 2
  MaxPktId = 7
INVARIANTS NoCrossTalk IdentityFromTarget LogonGranted WireOrder ErrorClasses
PROPERTIES ImplementsContract CallsReturn

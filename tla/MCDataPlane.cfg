SPECIFICATION PlaneSpec
CONSTANTS
  Tasks = {"t1", "t2"}
  SlotOf <- MCSlotOf
  MaxDay = 1
  MaxRows = 2
  MaxFaults = 2
  Serials = {"s1", "s2", "s3"}
  Inverters <- MCInverters
  Systems = {"garage", "schuur"}
  Power <- MCPower
  Energy = {0, 5}
  Spot = {3}
  MaxReadings = 2
  MaxCrashes = 1
INVARIANTS HeaderFirst AcknowledgedKept NeverLockedOut
PROPERTIES UploadTrue AppendReturns UploadFlows
CHECK_DEADLOCK FALSE

SPECIFICATION FairSpec
CONSTANTS
  Slot = "repeater"
  Configs <- MisMode
  QueueCap = 2
  MaxOutages = 2
PROPERTY DeathIsShown
CHECK_DEADLOCK FALSE

SPECIFICATION FairSpec
CONSTANTS
  Slot = "repeater"
  Configs <- BothModes
  QueueCap = 2
  MaxOutages = 2
INVARIANT SessionIsShown
PROPERTIES WillIsShown PublishResumes
CHECK_DEADLOCK FALSE

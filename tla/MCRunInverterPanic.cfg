SPECIFICATION Spec
CONSTANTS
  Slot = "repeater"
  Devices <- NoDevices
  Serial <- OwnSerial
  NumQueries = 2
  MIN_BACKOFF = 2
  MAX_TRANSIENT_BACKOFF = 8
  SLEEP_BACKOFF = 12
  POST_YIELD_GRACE = 9
  POST_YIELD_RETRY = 4
  HANDSHAKE_RETRY = 3
  YieldEvery = 0
  YieldDuration = 4
  PollInterval = 2
  SLEEP_STREAK = 3
  COOLDOWN_THRESHOLD = 3
  COOLDOWN_LADDER <- Ladder
  Catalog = {"poll_status", "last_poll"}
  MayShutDown = FALSE
INVARIANTS TaskSurvives
CHECK_DEADLOCK FALSE

SPECIFICATION FairSpec
CONSTANTS
  Slot = "repeater"
  Devices <- TwoDevices
  Serial <- OwnSerial
  NumQueries = 2
  MIN_BACKOFF = 2
  MAX_TRANSIENT_BACKOFF = 8
  SLEEP_BACKOFF = 12
  POST_YIELD_GRACE = 9
  POST_YIELD_RETRY = 4
  HANDSHAKE_RETRY = 3
  YieldEvery = 6
  YieldDuration = 4
  PollInterval = 2
  SLEEP_STREAK = 3
  COOLDOWN_THRESHOLD = 3
  COOLDOWN_LADDER <- Ladder
  Catalog = {"poll_status", "last_poll", "consecutive_failures"}
  MayShutDown = TRUE
INVARIANTS TypeOK SleepIsAnnounced LoggedInIsOnline GraceKeepsOnline OneSocket CooldownEarned EveryTargetServed
PROPERTIES LogoffOnTeardown CooldownRunsDown BrokenLinkDropped Recovery
CHECK_DEADLOCK FALSE

SPECIFICATION Spec
CONSTANTS
  required = required
  other = other
  Modes <- MCModes
  Reports <- Piloted
  RequiredMode = required
  DryRun = FALSE
  AutoArm = TRUE
  AutoMode = TRUE
  BootstrapOnQuality = FALSE
  MinimumLegs = 2
  FitSamples = 1
  MaxRange = 2
  SuccessRange = 1
  ArrivalEnabled = TRUE
  RuntimeLimited = FALSE
  ExitOnTerminal = TRUE
  DepthLimited = FALSE
  Losable = {}
INVARIANTS GuidedHasLock ArrivalHoldUnbroken NeverStuck
PROPERTIES SuccessIsEarned LockHonoursLegs

SPECIFICATION Spec
CONSTANTS
  required = required
  other = other
  Modes <- MCModes
  Reports <- Cooperative
  RequiredMode = required
  DryRun = FALSE
  AutoArm = FALSE
  AutoMode = FALSE
  BootstrapOnQuality = FALSE
  MinimumLegs = 2
  FitSamples = 1
  MaxRange = 0
  SuccessRange = 0
  ArrivalEnabled = TRUE
  RuntimeLimited = FALSE
  ExitOnTerminal = FALSE
  DepthLimited = FALSE
  Losable = {"odometry"}
PROPERTIES ResumedProbeHonoursLegs

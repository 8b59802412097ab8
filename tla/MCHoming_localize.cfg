SPECIFICATION FairSpec
CONSTANTS
  required = required
  other = other
  Modes <- MCModes
  Reports <- TakenOver
  RequiredMode = required
  DryRun = FALSE
  AutoArm = FALSE
  AutoMode = FALSE
  BootstrapOnQuality = TRUE
  MinimumLegs = 1
  FitSamples = 1
  MaxRange = 0
  SuccessRange = 0
  ArrivalEnabled = FALSE
  RuntimeLimited = TRUE
  ExitOnTerminal = TRUE
  DepthLimited = TRUE
  Losable = {"odometry"}
INVARIANTS TypeOK NoPreArmSamples TerminalIsStill
PROPERTIES LockFromBoundaryFit LocalizationDecides MissionEnds ExitReleases MotionRevoked ImplementsMission

SPECIFICATION FairSpec
CONSTANTS
  required = required
  other = other
  Modes <- MCModes
  Reports <- Cooperative
  RequiredMode = required
  DryRun = FALSE
  AutoArm = FALSE
  AutoMode = FALSE
  BootstrapOnQuality = FALSE
  DepthLimited = FALSE
  Losable = {}
  ConfirmationProbes = 1
  ProbeSamples = 1
  Adaptive = TRUE
  WatchdogEnabled = TRUE
  InnovationEnabled = TRUE
  MotionResponse = FALSE
  HorizontalOnly = TRUE
  VerticalControl = FALSE
  BrakeEnabled = TRUE
  SuccessEnabled = FALSE
  RuntimeLimited = FALSE
  ExitOnTerminal = FALSE
PROPERTIES BearingRefreshed

SPECIFICATION FairSystemSpec
CONSTANTS
  required = required
  other = other
  Modes <- MCModes
  Reports <- NoReports
  RequiredMode = required
  DryRun = FALSE
  AutoArm = TRUE
  AutoMode = TRUE
  BootstrapOnQuality = TRUE
  DepthLimited = TRUE
  Losable = {"vehicle"}
  ConfirmationProbes = 1
  ProbeSamples = 1
  Adaptive = TRUE
  WatchdogEnabled = FALSE
  InnovationEnabled = FALSE
  MotionResponse = FALSE
  HorizontalOnly = TRUE
  VerticalControl = FALSE
  BrakeEnabled = FALSE
  SuccessEnabled = FALSE
  RuntimeLimited = FALSE
  ExitOnTerminal = FALSE
  PilotMoves = 1
PROPERTIES ArmsInRequiredMode ChannelsReturned NeutralElsewhere VehicleTaken

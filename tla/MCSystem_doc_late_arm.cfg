SPECIFICATION SystemSpec
CONSTANTS
  required = required
  other = other
  Modes <- MCModes
  Reports <- NoReports
  RequiredMode = required
  DryRun = FALSE
  AutoArm = TRUE
  AutoMode = FALSE
  BootstrapOnQuality = FALSE
  DepthLimited = FALSE
  Losable = {}
  ConfirmationProbes = 1
  ProbeSamples = 1
  Adaptive = TRUE
  WatchdogEnabled = FALSE
  InnovationEnabled = FALSE
  MotionResponse = FALSE
  HorizontalOnly = TRUE
  VerticalControl = FALSE
  BrakeEnabled = FALSE
  SuccessEnabled = FALSE
  RuntimeLimited = TRUE
  ExitOnTerminal = FALSE
  PilotMoves = 1
PROPERTIES ArmsDuringMission

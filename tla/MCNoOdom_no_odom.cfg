SPECIFICATION FairSpec
CONSTANTS
  required = required
  other = other
  Modes <- MCModes
  Reports <- Disarmable
  RequiredMode = required
  DryRun = FALSE
  AutoArm = FALSE
  AutoMode = FALSE
  BootstrapOnQuality = FALSE
  DepthLimited = FALSE
  Losable = {"speed"}
  ConfirmationProbes = 2
  ProbeSamples = 1
  Adaptive = TRUE
  WatchdogEnabled = TRUE
  InnovationEnabled = TRUE
  MotionResponse = TRUE
  HorizontalOnly = TRUE
  VerticalControl = FALSE
  BrakeEnabled = TRUE
  SuccessEnabled = TRUE
  RuntimeLimited = TRUE
  ExitOnTerminal = TRUE
INVARIANTS NeverStuck BearingEarned MotionFitsState WindowOfOneSegment HoldsUnbroken
PROPERTIES SuccessIsEarnedAndFinal MissionEnds BrakeEnds SegmentEnds ImplementsMission

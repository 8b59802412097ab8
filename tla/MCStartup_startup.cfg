SPECIFICATION FairStartupSpec
CONSTANTS
  MinHz = 20
  MaxHz = 24
  Tones <- MCTones
  Frames <- MCFrames
  FftSize = 2
  HopSize = 1
  MaxWindows = 2
  MaxBuffered = 4
  MinimumHits = 1
  PersistentPercent = 60
  RelativeLevels = 1
  MaxCandidates = 2
  ScanMin = 20
  ScanMax = 24
  Answers <- MCAnswers
INVARIANTS StartupTypeOK StartsAsChosen AnswerTaken
PROPERTIES GateDecides GuiReturned ImplementsLaunch

CONSTANTS
  Settle = 2
  Leg = 3
  Neutral = 2
  SampleDelay = 2
  NeutralDelay = 1
  Extension = 2
  MaxExtension = 1
  MotionResponse = TRUE
  HorizontalOnly = TRUE
SPECIFICATION Spec
PROPERTIES LegsAdvance

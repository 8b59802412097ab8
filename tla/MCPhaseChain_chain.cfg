CONSTANTS
  Settle = 1
  Leg = 4
  Neutral = 5
  SampleDelay = 3
  NeutralDelay = 3
  Extension = 2
  MaxExtension = 1
  MotionResponse = TRUE
  HorizontalOnly = TRUE
  Window = 2
  Hop = 1
  Carriers <- MCCarriers
  DefaultCarrier = "first"
  RequireSelection = TRUE
  Silence <- MCSilence
  Latency = 1
  SlowLegs = 2
SPECIFICATION ChainSpec
INVARIANTS ChainTypeOK RecordedUnderFiled DeltaSpansOneHop PatternBounded TransientsDiscarded
PROPERTIES LegsDrivenInFull

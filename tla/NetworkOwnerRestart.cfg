SPECIFICATION NetworkSpec
CONSTANTS
  Keys = {"ab", "ba"}
  Opposite <- Reversed
  Events = {"first", "repeat"}
  KeyOf <- EventKey
  RelOf <- EventRel
  KindOf <- EventKind
  AnswerOf <- EventAnswer
  SeedNetworks <- SeedSet
  Tuned <- NoOverlay
  DenseSize = 2
  MaxTurns = 1
  MaxOpens = 2
  MaxFailures = 1
  None = None
PROPERTIES
  LearnedWeightsPreserved
CHECK_DEADLOCK FALSE

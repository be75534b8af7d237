SPECIFICATION PartsSpec
CONSTANTS
  r1 = r1
  r2 = r2
  r3 = r3
  s1 = s1
  s2 = s2
  q1 = q1
  q2 = q2
  Requests = {r1, r2, r3}
  Sessions = {s1, s2}
  SessionOf <- TwoSessions
  Probes = {q1, q2}
  MaxStarts = 2
  MaxFaults = 1
  NoOne = NoOne
  Models = {"m"}
  LiveTurns = 4
  MockSessions = 2
  MockTurns = 1
  LiveDeltas <- DeltaSet
  Kimi = {"m"}
  TransportLimit = 2
  ValidatorLimit = 3
  SandboxLimit = 2
  BreakerLimit = 3
  LoopLimit = 3
  LiveMin = 3
  MockMin = 1
  Rank <- Ranks
  P1Limit = 1
  P2Limit = 1
  NounIdeal = 3
  AdjectiveIdeal = 3
  P1NounLen = 24
  P1AdjectiveLen = 32
  P2NounLen = 30
  P2AdjectiveLen = 40
  P1Hyphens = 1
  P2Hyphens = 2
  NonLemmas = {}
  Stopwords = {}
  TopN = 1
  MinCount = 2
  MinScore = 22
  Core <- CoreSeed
  KnownCollisions <- Known
  Latin <- LatinNames
  Sibilants = {}
  BadForms = {}
  TargetCount = 3
  MinQuality = 800
  CuratedSeeds <- Seeds
  SlotSeeds <- SlotChoices
  Dictionaries <- Dicts
  Units <- OneUnit
  MaxEdits = 1
  MaxTools = 3
  MaxDeaths = 1
  Base <- SeedEntries
  Overrides <- CanonicalForms
  FunctionWords = {"and"}
  GuessPos <- Guesses
  GuessSem <- Meanings
  FormRank <- Alphabet
  Corpora <- CorpusSet
  Cap = 5
  LeastForms = 4
  LeastLemmas = 3
  RequiredForms = {"truth"}
  RequiredLemmas = {"truth"}
  MaxBuilds = 3
  Prompts <- Corpus
  LatencyPrompts = 1
  CanarySessions = 2
  TurnsPerSession = 1
  CanaryPercent = 20
  Outcomes <- OutcomeSet
  GoldenFiles <- GoldenSet
  MaxAudits = 2
SYMMETRY SymmetryLife
INVARIANTS
  ToldTokenHolds
  ClearedClaimsStayCleared
  ProbeLeavesNoTrace
  CampaignIsAccountedFor
  PublishedLexiconIsSound
  FinishedExportIsUpToDate
  FinishedBuildIsAccepted
  AuditIsTrue
CHECK_DEADLOCK FALSE

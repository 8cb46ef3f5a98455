CONSTANTS
  Topic <- MCTopic
  QueryItems <- MCQueryItems
  PlanLength = 3
  Entries <- MCEntries
  NoEntry = NoEntry
  MaxQueries = 2
  DefaultResults = 2
  MaxResults = 2
  NotANumber = NotANumber
  CandidateLimit = 2
  ShortlistLimit = 1
  PaperSlots <- MCPaperSlots
  MostPapers = 3
  Canonical <- MCCanonical
  NoName = NoName
  LowerIsBetter = {"time"}
  Constraints = {"cheap"}
  ClaimedPapers = {0, 1, 3}
  MaxRecommendations = 1
  ChunkedPapers <- MCPapers
  TargetChars = 7
  OverlapChars = 4
  MinChunkChars = 2
  small = small
  large = large
  full = full
  weights = weights
  Repos = {small, large, full}
  Stars <- MCStars
  Released = {small, full}
  Models = {weights}
  Nothing = Nothing
  NoGithubUrl = NoGithubUrl
  MaxRows = 2
  MentionLimit = 1
  ClaimLimit = 2
  StarsFloor = 5
  TextLengths = {0, 3, 4, 6}
  HeadChars = 2
  TailChars = 2
  ConfidenceClaims <- MCConfidenceClaims
  NoNumber = NoNumber
  NaN = NaN
  ConfidenceThreshold = 70
  SynthesisPapers = {1, 2, 3}
  Stranger = 4
  Parts = {"method", "report"}
  JobInputs <- MCJobInputs
  Wordings = {"", "w", "l", "url", "a", "c"}
  LongWords = {"l"}
  Urls = {"url"}
  Null = Null
  NotText = NotText
  MostIds = 2
  MostAttempts = 2
  Delays <- MCDelays
  s1 = s1
  s2 = s2
  UiSessions = {s1, s2}
  NoSession = NoSession
  HandlersAtOnce = 2
  p1 = p1
  p2 = p2
  Papers = {p1, p2}
  Unknown = Unknown
  Chunks <- MCChunks
  Confidences = {2, 9}
  MaxRepairIterations = 2
  MaxIterations = 2
  DefaultK = 1
  ReplanK = 2
SPECIFICATION FairSpec
INVARIANTS
  DiscoveryIsSound
  ComparisonIsFair
  ChunksCoverThePaper
  VerdictIsEarned
  ExtractionIsCautious
  SynthesisIsGrounded
  JobKeepsItsWord
  UiIsOrderly
  AnswerIsTrustworthy
  TroubleIsTold
PROPERTIES
  TurnEnds
CHECK_DEADLOCK FALSE

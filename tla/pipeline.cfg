CONSTANTS
  None = None
  Year = 100
  Now = 160
  Window = 5
  MaxRecords = 8
  Internal = {22}
  MaxIndicators = 2
  MaxProducts = 2
  MaxRecommendations = 4
  MaxTimeline = 4
  Reviewers = {v1, v2}
  ProductTokens <- MCProductTokens
  Containing <- MCContaining
  MentionsCve <- MCMentionsCve
  MentionsProduct <- MCMentionsProduct
  Cases <- MCCases
  Intel <- MCIntel
  Feeds <- MCFeeds
  Advisories <- MCAdvisories
  VersionOrder <- MCVersionOrder
  Respelled <- MCRespelled
SPECIFICATION Spec
SYMMETRY Symmetry
INVARIANTS
  AnalysisSound
  UncertaintyReported
  ApplicabilitySound
  PlanSound
CHECK_DEADLOCK FALSE

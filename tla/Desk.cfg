CONSTANTS
  Null = Null
  Nothing = Nothing
  Blank = Blank
  Answers <- Sample
  Contexts <- MCContexts
  Figures <- MCFigures
  Benchmarks <- MCBenchmarks
  OldAnswers <- MCOldAnswers
  Reviews <- MCReviews
  Suggestions <- MCSuggestions
  Authors = {a1, a2}
  Edits <- MCEdits
  Videos <- MCVideos
  NoData = NoData
  Inline = {"cost_rates"}
  Policies = {"evaluation_parameters"}
  Parameters <- MCParameters
  Seed = "m1"
  MaxOrphans = 1
  Entries <- MCEntries
  Brand = "own"
  General = "none"
  Managers = {k1, k2}
  MaxVersions = 2
  MaxEntries = 5
  MaxProfiles = 3
  MaxSnapshots = 4
  MaxMetrics = 2
  MaxReviews = 2
  MaxFinals = 2
  MaxRevisions = 0
  MaxContents = 0
  MaxHolds = 2
  Rows = {1, 2, 3}
  PageSize = 1
  MaxTime = 2
  MaxPages = 4
  Absent = Absent
  Huge = Huge
  Other = Other
  MaxSize = 3
  MaxRequests = 4
  LastForm = 2
  MaxGuards = 3
SPECIFICATION Spec
INVARIANTS
  AdoptionIsSound
  RatingsAgree
  FiguresAreFounded
  PanelTellsTheTruth
  ConfigurationAgrees
  ListsAreWhole
  PlaybackIsSound
  LeavingIsAsked
SYMMETRY Symmetry
CHECK_DEADLOCK FALSE

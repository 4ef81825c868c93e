CONSTANTS
  MaxMetrics = 2
  MaxReviews = 1
  MaxFinals = 2
  MaxRevisions = 2
  MaxContents = 2
  MaxDecisions = 2
  MaxHolds = 2
SPECIFICATION Spec
INVARIANTS
  OfferedIsAccepted
  FinalStatusIsFounded
  OneConclusion
  ReportsAgree
  HiddenIsQuiet
PROPERTIES
  ConfirmedOnCurrentSources
CHECK_DEADLOCK FALSE

SPECIFICATION Spec
CONSTANTS
  MaxCaptures <- MCMaxCaptures
  MaxSent <- MCMaxSent
  Statuses <- MCStatuses
CHECK_DEADLOCK FALSE
INVARIANTS
  TypeOK
  AnalysisMatchesReference

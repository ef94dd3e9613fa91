SPECIFICATION Spec
CONSTANTS
  MaxChannels <- MCMaxChannels
  UniqueNames = FALSE
  Faults = FALSE
  Crashes = FALSE
  PlainReplies = FALSE
  NONE = NONE
INVARIANT ReportedSuccessHolds

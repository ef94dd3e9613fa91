SPECIFICATION Spec
CONSTANTS
  MaxChannels <- MCMaxChannels
  UniqueNames = TRUE
  Faults = TRUE
  Crashes = TRUE
  PlainReplies = TRUE
  NONE = NONE
PROPERTY FeishuKeptAcrossRun

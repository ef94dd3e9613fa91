SPECIFICATION Spec
CONSTANTS
  NONE = NONE
  Atoms <- MCAtoms
  Embeds <- MCEmbeds
  Lower <- MCLower
  MaxTests <- MCMaxTests
  MaxLines <- MCMaxLines
  Durations <- MCDurations
  TaskStatuses <- MCTaskStatuses
INVARIANTS
  TypeOK
  PushAndCardAgree
  ParseDurationMatchesSpec
  ExtractMatchesReference
  TaskNameWithinCap
CHECK_DEADLOCK FALSE

SPECIFICATION Spec
CONSTANTS
  NONE = NONE
  Atoms <- MCAtoms
  Embeds <- MCEmbeds
  Lower <- MCLower
  MaxTests <- MCMaxTests
  MaxLines <- MCMaxLines
  Durations <- MCDurations
  TaskStatuses <- MCTaskStatuses
INVARIANT FailureNeverShownSuccess
CHECK_DEADLOCK FALSE

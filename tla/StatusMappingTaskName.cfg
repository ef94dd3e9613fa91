SPECIFICATION Spec
CONSTANTS
  NONE = NONE
  Atoms <- MCAtoms
  Embeds <- MCEmbeds
  Lower <- MCLower
  MaxTests <- MCMaxTests
  MaxLines <- MCMaxLines
  Durations <- MCDurations
  TaskStatuses <- MCTaskStatuses
INVARIANT TaskNameNonEmpty
CHECK_DEADLOCK FALSE

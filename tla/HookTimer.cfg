SPECIFICATION Spec
CONSTANTS
  d1 = d1
  d2 = d2
  n1 = n1
  NONE = NONE
  Timed <- MCTimed
  FlowTimed <- MCFlowTimed
  Untimed <- MCUntimed
  Grain <- MCGrain
  MaxTime <- MCMaxTime
  Statuses <- MCStatuses
  Lengths <- MCLengths
INVARIANTS
  TypeOK
  DurationNeverOverstated
  SoleTaskExact
CHECK_DEADLOCK FALSE

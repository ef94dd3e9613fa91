SPECIFICATION Spec
CONSTANTS
  d1 = d1
  d2 = d2
  n1 = n1
  NONE = NONE
  Timed <- MCTimed
  FlowTimed <- MCFlowTimed
  Untimed <- MCUntimed
  Grain <- MCGrain
  MaxTime <- MCMaxTime
  Statuses <- MCStatuses
  Lengths <- MCLengths
INVARIANT IsTaskSignal
CHECK_DEADLOCK FALSE

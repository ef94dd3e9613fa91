\* All reply kinds, two concurrent notifier calls.
CONSTANTS
  c1 = c1
  c2 = c2
  c3 = c3
  c4 = c4
  NONE = NONE
  Callers <- MCCallers
  Replies <- MCReplies
  Program <- MCProgram

SPECIFICATION Spec

INVARIANTS
  TypeOK
  SuccessMeansDelivered
  DuplicateOnlyAfterLostAnswer

PROPERTIES
  DispatchRefinement
  EveryCallReturns

\* Every call ends once it has returned: the process exits.
CHECK_DEADLOCK FALSE

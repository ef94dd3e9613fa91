\* spec.md 4.5's fallback rule checked against the code's dispatcher.
CONSTANTS
  c1 = c1
  c2 = c2
  c3 = c3
  c4 = c4
  NONE = NONE
  Callers <- MCCallers
  Replies <- MCReplies
  Program <- MCProgramSpec

SPECIFICATION Spec

PROPERTIES
  SpecFallbackRefinement

CHECK_DEADLOCK FALSE

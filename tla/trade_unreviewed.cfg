SPECIFICATION Spec
CONSTANTS
  Scores <- MCScores
  Clarity <- MCClarity
INVARIANT FallbackIsAsked
CHECK_DEADLOCK FALSE

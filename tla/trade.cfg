SPECIFICATION Spec
CONSTANTS
  Scores <- MCScores
  Clarity <- MCClarity
INVARIANTS TypeOK EarnedRequest ReportAddsUp AfterPartialWatched
PROPERTIES EvaluationEnds
CHECK_DEADLOCK FALSE

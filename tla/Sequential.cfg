SPECIFICATION Spec
INVARIANTS
  BlocksOwnedOnce SleepsWithoutInput ParserMatchesGrammar PrintsMatchingLines UnitsOwnedOnce
PROPERTIES RingImplementsFifo WritesLand LinesEdited
CHECK_DEADLOCK FALSE

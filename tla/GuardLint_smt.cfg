\* Two checks one after the other, with a solver that may be slow or die.
CONSTANTS
  Checks = 2
  Truth <- SatThenUnsat
SPECIFICATION Spec
INVARIANTS TypeOK ServerEnds ExitsDrained NobodyForgotten
PROPERTIES AnswersOracle Settles ChecksReturn
CHECK_DEADLOCK FALSE

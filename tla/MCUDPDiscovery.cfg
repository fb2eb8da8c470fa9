SPECIFICATION Spec
CONSTANTS
  Callers = {main, timer}
  MaxRuns = 3
  Retries = 2
CONSTRAINT UpToTheClash
INVARIANTS SearchesAreApart RunsEndCleanly
PROPERTIES EveryRunIsReported IsASearch
CHECK_DEADLOCK FALSE

SPECIFICATION Spec
CONSTANTS
  a = a
  na = na
  None = None
  Hole = Hole
  Tasks = {t1, t2}
  Images = {t2}
  Uris = {a}
  Names = {na}
  UriOf <- OneUri
  NameOf <- OneName
  Size = 2
  Faults = {"source", "output", "read", "write", "close", "interrupt", "endless", "kill"}
  MaxRuns = 3
INVARIANTS FilesAreWhole
PROPERTIES ResultsAreWhole WholeIsKept CancelEnds

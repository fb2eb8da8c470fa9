SPECIFICATION LoaderSpec
CONSTANTS
  Devices = {d1, d2}
  MaxTTL = 2
  MaxStarts = 3
INVARIANTS ListedIsFresh ChainsAreBounded
PROPERTIES KeepsSearching ComesToRest
CHECK_DEADLOCK FALSE

SPECIFICATION Spec
CONSTANTS
  Tasks = {t1, t2}
  Listeners = {l1}
  None = None
  Capacity = 2
  Calls = {"cancel"}
  MaxCalls = 1
  Talkers = {t1}
  MaxMessages = 0
INVARIANTS CancelHitsOnlyItsTask

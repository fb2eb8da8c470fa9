SPECIFICATION Spec
CONSTANTS
  Tasks = {t1, t2}
  Listeners = {l1}
  None = None
  Capacity = 1
  Calls = {"stop", "cancel", "detach", "cancelAll"}
  MaxCalls = 2
  Talkers = {t1}
  MaxMessages = 1
INVARIANTS OutcomeIsLast NobodyWaitsInVain
PROPERTIES DetachIsFinal KeepsContract EveryAcceptedTaskEnds StopTakesEffect
CHECK_DEADLOCK FALSE

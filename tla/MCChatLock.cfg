SPECIFICATION ChatSpec
CONSTANTS
  m3 = m3
  own = own
  Nobody = Nobody
  Threads = {t1, t2, t3}
  Messages = {m1, m3}
  Lists = {own, new, newer}
  Own = own
  Content <- OneNew
  Ops = {"add", "remove", "read", "set"}
INVARIANTS CountedUnderLock
PROPERTIES CallsReturn
CHECK_DEADLOCK FALSE

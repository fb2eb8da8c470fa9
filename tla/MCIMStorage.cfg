SPECIFICATION Spec
CONSTANTS
  i1 = i1
  i2 = i2
  o1 = o1
  o2 = o2
  o3 = o3
  u1 = u1
  u2 = u2
  k1 = k1
  k2 = k2
  None = None
  Ids = {i1, i2}
  Objects = {o1, o2, o3}
  IdOf <- CopyOfFirst
  Users = {u1, u2}
  Recipient <- ToFirst
  Sender <- FromSecond
  Chats = {u1, u2, k1}
  Home <- SenderOrKey
INVARIANTS CountersAgree ChatsAreIndexed

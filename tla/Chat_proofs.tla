---------------------------- MODULE Chat_proofs ----------------------------
(***************************************************************************)
(* Proofs about the chat store.  IMStorage, for every set of messages,     *)
(* copies and chats: the counters count and the two indexes agree.         *)
(* ChatLock, for every number of threads, messages and lists and every     *)
(* choice of calls: the monitors exclude, and the counter comes out right. *)
(***************************************************************************)
EXTENDS ChatLock, IMStorage, FiniteSetTheorems, SequenceTheorems, WellFoundedInduction, TLAPS

(***************************************************************************)
(* IMStorage                                                               *)
(***************************************************************************)

(* A message is in one chat: setMessageRead counts in the chat it is called *)
(* on only, so another chat with the message would go on counting it.       *)
OneHome == \A i \in Ids : \A c, d \in Home[i] : c = d

Typed ==
  /\ chats \subseteq Chats /\ messages \in [Chats -> SUBSET Objects]
  /\ unread \in [Chats -> Int] /\ byId \in [Ids -> Objects \cup {None}]
  /\ read \subseteq Objects /\ remarked \in BOOLEAN

(* A message is in a chat of the map and at home there; no chat holds two   *)
(* copies of one; and the map of ids holds an object under its own id.      *)
Placed ==
  \A c \in Chats : \A o \in messages[c] :
    /\ c \in chats /\ c \in Home[IdOf[o]]
    /\ \A p \in messages[c] : IdOf[p] = IdOf[o] => p = o

ByOwnId == \A i \in Ids : byId[i] # None => IdOf[byId[i]] = i

StorageInv == Typed /\ Placed /\ ByOwnId

(* What a chat has to count.                                                *)
Unseen(c) == messages[c] \ read

ChatsCount ==
  /\ \A c \in Chats : IsFiniteSet(messages[c])
  /\ ~remarked => \A c \in Chats : unread[c] = Cardinality(Unseen(c))

(* The users under whose chats deleteMessage looks for a message.           *)
Parties(i) == {Recipient[i], Sender[i]}

AllIndexed ==
  \A c \in Chats : \A o \in messages[c] : c \in Parties(IdOf[o]) => byId[IdOf[o]] # None

-----------------------------------------------------------------------------
(* A chat holds one object at most that is equal to a given one.            *)
LEMMA EqualIsOne ==
  ASSUME StorageInv, NEW c \in Chats, NEW o \in Objects
  PROVE  \/ Equal(c, o) = {}
         \/ \E p \in messages[c] : Equal(c, o) = {p} /\ IdOf[p] = IdOf[o]
<1>1. CASE Equal(c, o) = {}
  BY <1>1
<1>2. CASE Equal(c, o) # {}
  <2>1. PICK p \in messages[c] : IdOf[p] = IdOf[o]
    BY <1>2 DEF Equal
  <2>2. Equal(c, o) = {p}
    BY <2>1 DEF Equal, StorageInv, Placed
  <2> QED
    BY <2>1, <2>2
<1> QED
  BY <1>1, <1>2

(* The counter of a chat after addMessage, for a message it does not hold.  *)
LEMMA AddCounts ==
  ASSUME StorageInv, ChatsCount, NEW c \in Chats, NEW o \in Objects, AddTo(c, o), UNCHANGED read,
         NEW d \in Chats
  PROVE  /\ IsFiniteSet(messages'[d])
         /\ ~remarked => unread'[d] = Cardinality(messages'[d] \ read)
<1> USE DEF StorageInv, Typed, ChatsCount, Unseen
<1>1. CASE UNCHANGED <<messages, unread>>
  BY <1>1
<1>2. CASE /\ messages' = [messages EXCEPT ![c] = @ \cup {o}] /\ Equal(c, o) = {}
           /\ unread' = IF o \in read THEN unread ELSE [unread EXCEPT ![c] = @ + 1]
  <2>1. CASE d # c
    BY <1>2, <2>1
  <2>2. CASE d = c
    <3>1. o \notin messages[c] /\ messages'[c] = messages[c] \cup {o} /\ IsFiniteSet(messages'[c])
      BY <1>2, FS_AddElement DEF Equal
    <3>2. IsFiniteSet(messages[c] \ read) /\ Cardinality(messages[c] \ read) \in Nat
      BY FS_Difference, FS_CardinalityType
    <3>3. CASE o \in read
      <4>1. messages'[c] \ read = messages[c] \ read
        BY <3>1, <3>3
      <4> QED
        BY <1>2, <2>2, <3>1, <3>3, <4>1
    <3>4. CASE o \notin read
      <4>1. messages'[c] \ read = (messages[c] \ read) \cup {o} /\ o \notin messages[c] \ read
        BY <3>1, <3>4
      <4>2. Cardinality(messages'[c] \ read) = Cardinality(messages[c] \ read) + 1
        BY <3>2, <4>1, FS_AddElement
      <4> QED
        BY <1>2, <2>2, <3>1, <3>4, <4>2
    <3> QED
      BY <3>3, <3>4
  <2> QED
    BY <2>1, <2>2
<1> QED
  BY <1>1, <1>2 DEF AddTo

(* The counter of a chat after removeMessage, whether it holds the message  *)
(* or not and whether that is read or not.                                  *)
LEMMA RemoveCounts ==
  ASSUME StorageInv, ChatsCount, NEW cs \in SUBSET Chats, NEW o \in Objects, RemoveFrom(cs, o),
         NEW d \in Chats
  PROVE  /\ IsFiniteSet(messages'[d])
         /\ ~remarked => unread'[d] = Cardinality(messages'[d] \ read)
<1> USE DEF StorageInv, Typed, ChatsCount, Unseen
<1>1. CASE d \notin cs
  BY <1>1 DEF RemoveFrom
<1>2. CASE d \in cs
  <2>1. messages'[d] = messages[d] \ Equal(d, o)
    BY <1>2 DEF RemoveFrom
  <2>2. unread'[d] = unread[d] - Cardinality(Equal(d, o) \ read)
    BY <1>2 DEF RemoveFrom
  <2>3. IsFiniteSet(messages[d] \ read) /\ Cardinality(messages[d] \ read) \in Nat
    BY FS_Difference, FS_CardinalityType
  <2>4. IsFiniteSet(messages'[d])
    <3>1. IsFiniteSet(messages[d])
      OBVIOUS
    <3>2. IsFiniteSet(messages[d] \ Equal(d, o))
      BY ONLY <3>1, FS_Difference
    <3> QED
      BY <2>1, <3>2
  <2>5. CASE Equal(d, o) \ read = {}
    <3>1. messages'[d] \ read = messages[d] \ read /\ Cardinality(Equal(d, o) \ read) = 0
      BY <2>1, <2>5, FS_EmptySet
    <3> QED
      BY <2>2, <2>3, <2>4, <3>1
  <2>6. CASE Equal(d, o) \ read # {}
    <3>1. PICK p \in messages[d] : Equal(d, o) = {p} /\ p \notin read
      BY <2>6, EqualIsOne
    <3>2. Equal(d, o) \ read = {p} /\ messages'[d] \ read = (messages[d] \ read) \ {p}
      BY <2>1, <3>1
    <3>3. Cardinality(Equal(d, o) \ read) = 1
      BY <3>2, FS_Singleton
    <3>4. Cardinality(messages'[d] \ read) = Cardinality(messages[d] \ read) - 1
      BY <2>3, <3>1, <3>2, FS_RemoveElement
    <3> QED
      BY <2>2, <2>3, <2>4, <3>3, <3>4
  <2> QED
    BY <2>5, <2>6
<1> QED
  BY <1>1, <1>2

(* Every call of the storage keeps the chats and the map as StorageInv says.*)
LEMMA StorageStep ==
  ASSUME StorageInv, [Next]_vars
  PROVE  StorageInv'
<1> USE StorageAssumption DEF StorageInv, Typed, Placed, ByOwnId
<1>1. ASSUME NEW c \in Chats, GetChatById(c) PROVE StorageInv'
  BY <1>1 DEF GetChatById
<1>2. ASSUME NEW c \in Chats, NEW o \in Objects, AddMessage(c, o) PROVE StorageInv'
  <2>1. CASE UNCHANGED messages /\ UNCHANGED unread
    BY <1>2, <2>1 DEF AddMessage
  <2>2. CASE /\ messages' = [messages EXCEPT ![c] = @ \cup {o}] /\ Equal(c, o) = {}
             /\ unread' = IF o \in read THEN unread ELSE [unread EXCEPT ![c] = @ + 1]
    <3>1. Typed' /\ ByOwnId'
      BY <1>2, <2>2 DEF AddMessage
    <3>2. Placed'
      BY <1>2, <2>2 DEF AddMessage, Equal
    <3> QED
      BY <3>1, <3>2
  <2> QED
    BY <1>2, <2>1, <2>2 DEF AddMessage, AddTo
<1>3. ASSUME NEW cs \in SUBSET Chats, NEW o \in Objects, RemoveFrom(cs, o)
      PROVE  /\ messages' \in [Chats -> SUBSET Objects]
             /\ unread' \in [Chats -> Int]
             /\ \A c \in Chats : messages'[c] \subseteq messages[c]
  <2>1. \A c \in Chats : Cardinality(Equal(c, o) \ read) \in Nat
    <3> SUFFICES ASSUME NEW c \in Chats PROVE Cardinality(Equal(c, o) \ read) \in Nat
      OBVIOUS
    <3>1. Equal(c, o) = {} \/ \E p \in messages[c] : Equal(c, o) = {p}
      BY EqualIsOne
    <3>2. IsFiniteSet(Equal(c, o))
      <4>1. CASE Equal(c, o) = {}
        BY ONLY <4>1, FS_EmptySet
      <4>2. ASSUME NEW p \in messages[c], Equal(c, o) = {p} PROVE IsFiniteSet(Equal(c, o))
        BY ONLY <4>2, FS_Singleton
      <4> QED
        BY <3>1, <4>1, <4>2
    <3> QED
      BY ONLY <3>2, FS_Difference, FS_CardinalityType
  <2> QED
    BY <1>3, <2>1 DEF RemoveFrom
<1>4. ASSUME NEW c \in Chats, NEW o \in Objects, RemoveMessage(c, o) PROVE StorageInv'
  <2>1. RemoveFrom({c}, o) /\ {c} \in SUBSET Chats
    BY <1>4 DEF RemoveMessage
  <2>2. /\ messages' \in [Chats -> SUBSET Objects] /\ unread' \in [Chats -> Int]
        /\ \A d \in Chats : messages'[d] \subseteq messages[d]
    BY <1>3, <2>1
  <2>3. UNCHANGED <<chats, byId, read, remarked>>
    BY <1>4 DEF RemoveMessage
  <2>4. Placed'
    BY <2>2, <2>3
  <2> QED
    BY <2>2, <2>3, <2>4
<1>5. ASSUME NEW c \in Chats, NEW o \in Objects, SetMessageRead(c, o) PROVE StorageInv'
  <2>1. UNCHANGED <<chats, messages, byId>>
    BY <1>5 DEF SetMessageRead
  <2>2. Placed'
    BY <2>1
  <2>3. unread' \in [Chats -> Int] /\ read' \subseteq Objects
    BY <1>5 DEF SetMessageRead, Equal
  <2>4. remarked' \in BOOLEAN
    BY <1>5 DEF SetMessageRead
  <2> QED
    BY <2>1, <2>2, <2>3, <2>4
<1>6. ASSUME NEW o \in Objects, Delete(o) PROVE StorageInv'
  <2>1. RemoveFrom(FoundChats(o), o) /\ FoundChats(o) \in SUBSET Chats
    BY <1>6 DEF Delete, FoundChats
  <2>2. /\ messages' \in [Chats -> SUBSET Objects] /\ unread' \in [Chats -> Int]
        /\ \A c \in Chats : messages'[c] \subseteq messages[c]
    BY <1>3, <2>1
  <2> QED
    BY <1>6, <2>2 DEF Delete
<1>7. ASSUME NEW o \in Objects, DeleteMessage(o) PROVE StorageInv'
  BY <1>6, <1>7 DEF DeleteMessage
<1>8. ASSUME NEW i \in Ids, DeleteMessageById(i) PROVE StorageInv'
  BY <1>6, <1>8 DEF DeleteMessageById, vars
<1>9. CASE RemoveAllChats
  BY <1>9 DEF RemoveAllChats
<1>10. CASE UNCHANGED vars
  BY <1>10 DEF vars
<1> QED
  BY <1>1, <1>2, <1>4, <1>5, <1>7, <1>8, <1>9, <1>10 DEF Next

(* The inductive invariant of the storage.                                  *)
THEOREM StorageSafety == Spec => []StorageInv
<1>1. ASSUME Init PROVE StorageInv
  <2>1. Typed
    <3>1. messages \in [Chats -> SUBSET Objects]
      BY <1>1 DEF Init
    <3>2. unread \in [Chats -> Int]
      BY <1>1 DEF Init
    <3>3. byId \in [Ids -> Objects \cup {None}]
      BY <1>1 DEF Init
    <3> QED
      BY <1>1, <3>1, <3>2, <3>3 DEF Init, Typed
  <2>2. Placed
    BY <1>1 DEF Init, Placed
  <2>3. ByOwnId
    BY <1>1 DEF Init, ByOwnId
  <2> QED
    BY <2>1, <2>2, <2>3 DEF StorageInv
<1>2. StorageInv /\ [Next]_vars => StorageInv'
  BY StorageStep
<1> QED
  BY <1>1, <1>2, PTL DEF Spec

(* With one chat for each message, the counter of a chat is the number of   *)
(* messages in it that are not read.                                        *)
LEMMA CountStep ==
  ASSUME OneHome, StorageInv, ChatsCount, [Next]_vars
  PROVE  ChatsCount'
<1> SUFFICES ASSUME NEW d \in Chats
             PROVE  /\ IsFiniteSet(messages'[d])
                    /\ ~remarked' => unread'[d] = Cardinality(messages'[d] \ read')
  BY DEF ChatsCount, Unseen
<1>a. /\ IsFiniteSet(messages[d])
      /\ ~remarked => unread[d] = Cardinality(messages[d] \ read)
  BY DEF ChatsCount, Unseen
<1>1. ASSUME NEW c \in Chats, GetChatById(c)
      PROVE  /\ IsFiniteSet(messages'[d])
             /\ ~remarked' => unread'[d] = Cardinality(messages'[d] \ read')
  BY <1>a, <1>1 DEF GetChatById
<1>2. ASSUME NEW c \in Chats, NEW o \in Objects, AddMessage(c, o)
      PROVE  /\ IsFiniteSet(messages'[d])
             /\ ~remarked' => unread'[d] = Cardinality(messages'[d] \ read')
  <2>1. AddTo(c, o) /\ UNCHANGED read /\ UNCHANGED remarked
    BY <1>2 DEF AddMessage
  <2> QED
    BY <2>1, AddCounts
<1>3. ASSUME NEW cs \in SUBSET Chats, NEW o \in Objects, RemoveFrom(cs, o), UNCHANGED <<read, remarked>>
      PROVE  /\ IsFiniteSet(messages'[d])
             /\ ~remarked' => unread'[d] = Cardinality(messages'[d] \ read')
  BY <1>3, RemoveCounts
<1>4. ASSUME NEW c \in Chats, NEW o \in Objects, RemoveMessage(c, o)
      PROVE  /\ IsFiniteSet(messages'[d])
             /\ ~remarked' => unread'[d] = Cardinality(messages'[d] \ read')
  <2>1. RemoveFrom({c}, o) /\ {c} \in SUBSET Chats /\ UNCHANGED <<read, remarked>>
    BY <1>4 DEF RemoveMessage
  <2> QED
    BY <1>3, <2>1
<1>5. ASSUME NEW c \in Chats, NEW o \in Objects, SetMessageRead(c, o)
      PROVE  /\ IsFiniteSet(messages'[d])
             /\ ~remarked' => unread'[d] = Cardinality(messages'[d] \ read')
  <2>1. /\ UNCHANGED messages /\ read' = read \cup Equal(c, o)
        /\ unread' = [unread EXCEPT ![c] = @ - 1]
        /\ ~remarked' => Equal(c, o) \cap read = {} /\ ~remarked
    BY <1>5 DEF SetMessageRead
  <2>2. PICK p \in messages[c] : Equal(c, o) = {p}
    BY <1>5, EqualIsOne DEF SetMessageRead
  <2>3. SUFFICES ASSUME ~remarked' PROVE unread'[d] = Cardinality(messages[d] \ read')
    BY <1>a, <2>1
  <2>4. p \notin read /\ read' = read \cup {p} /\ ~remarked
    BY <2>1, <2>2, <2>3
  <2>5. CASE d = c
    <3>1. messages[d] \ read' = (messages[d] \ read) \ {p} /\ p \in messages[d] \ read
      BY <2>2, <2>4, <2>5
    <3>2. IsFiniteSet(messages[d] \ read)
      BY ONLY <1>a, FS_Difference
    <3>3. Cardinality(messages[d] \ read') = Cardinality(messages[d] \ read) - 1
      BY ONLY <3>1, <3>2, FS_RemoveElement
    <3> QED
      BY <1>a, <2>1, <2>4, <2>5, <3>3 DEF StorageInv, Typed
  <2>6. CASE d # c
    <3>1. p \notin messages[d]
      BY <2>2, <2>6, StorageAssumption DEF OneHome, StorageInv, Typed, Placed
    <3>2. messages[d] \ read' = messages[d] \ read
      BY <2>4, <3>1
    <3> QED
      BY <1>a, <2>1, <2>4, <2>6, <3>2 DEF StorageInv, Typed
  <2> QED
    BY <2>5, <2>6
<1>6. ASSUME NEW o \in Objects, Delete(o)
      PROVE  /\ IsFiniteSet(messages'[d])
             /\ ~remarked' => unread'[d] = Cardinality(messages'[d] \ read')
  <2>1. /\ RemoveFrom(FoundChats(o), o) /\ UNCHANGED <<read, remarked>>
        /\ FoundChats(o) \in SUBSET Chats
    BY <1>6 DEF Delete, FoundChats, StorageInv, Typed
  <2> QED
    BY <1>3, <2>1
<1>7. ASSUME NEW i \in Ids, DeleteMessageById(i)
      PROVE  /\ IsFiniteSet(messages'[d])
             /\ ~remarked' => unread'[d] = Cardinality(messages'[d] \ read')
  <2>1. CASE UNCHANGED vars
    BY <1>a, <2>1 DEF vars
  <2>2. CASE byId[i] # None /\ Delete(byId[i])
    BY <1>6, <2>2 DEF StorageInv, Typed
  <2> QED
    BY <1>7, <2>1, <2>2 DEF DeleteMessageById
<1>8. CASE RemoveAllChats
  <2>1. messages'[d] = {} /\ messages'[d] \ read' = {} /\ unread'[d] = 0
    BY <1>8 DEF RemoveAllChats
  <2> QED
    BY ONLY <2>1, FS_EmptySet
<1>9. CASE UNCHANGED vars
  BY <1>a, <1>9 DEF vars
<1> QED
  BY <1>1, <1>2, <1>4, <1>5, <1>6, <1>7, <1>8, <1>9 DEF Next, DeleteMessage

(* The unread counter of the storage is the number of messages that are not *)
(* read, whichever copies of them were added, marked and deleted, as long   *)
(* as none was marked twice (AbstractIMStorage.getUnreadMessageCount).      *)
THEOREM CountersAgreeHolds == ASSUME OneHome PROVE Spec => []CountersAgree
<1>1. ASSUME Init PROVE ChatsCount
  <2> SUFFICES ASSUME NEW c \in Chats
               PROVE  IsFiniteSet(messages[c]) /\ unread[c] = Cardinality(messages[c] \ read)
    BY DEF ChatsCount, Unseen
  <2>1. messages[c] = {} /\ messages[c] \ read = {} /\ unread[c] = 0
    BY <1>1 DEF Init
  <2> QED
    BY ONLY <2>1, FS_EmptySet
<1>2. StorageInv /\ ChatsCount /\ [Next]_vars => ChatsCount'
  BY CountStep
<1>3. ASSUME StorageInv, ChatsCount PROVE CountersAgree
  <2>1. ASSUME ~remarked, NEW c \in Chats PROVE unread[c] >= 0
    <3>1. unread[c] = Cardinality(messages[c] \ read) /\ IsFiniteSet(messages[c])
      BY <1>3, <2>1 DEF ChatsCount, Unseen
    <3>2. Cardinality(messages[c] \ read) \in Nat
      BY ONLY <3>1, FS_Difference, FS_CardinalityType
    <3> QED
      BY <3>1, <3>2
  <2>2. TypeOK
    BY <1>3, <2>1 DEF StorageInv, Typed, TypeOK
  <2>3. ASSUME ~remarked PROVE unread = [c \in Chats |-> Cardinality(messages[c] \ read)]
    BY <1>3, <2>3 DEF ChatsCount, Unseen, StorageInv, Typed
  <2>4. UnreadIsCount
    BY <2>3 DEF UnreadIsCount, UnreadMessageCount
  <2> QED
    BY <2>2, <2>4 DEF CountersAgree
<1> QED
  BY <1>1, <1>2, <1>3, StorageSafety, PTL DEF Spec

(* deleteMessage leaves no copy of its message in the chats of its sender   *)
(* and its recipient.                                                       *)
LEMMA DeleteFinds ==
  ASSUME StorageInv, NEW o \in Objects, Delete(o)
  PROVE  /\ byId' = [byId EXCEPT ![IdOf[o]] = None]
         /\ \A c \in Chats : \A p \in messages'[c] :
              p \in messages[c] /\ (c \in Parties(IdOf[o]) => IdOf[p] # IdOf[o])
<1>1. RemoveFrom(FoundChats(o), o) /\ byId' = [byId EXCEPT ![IdOf[o]] = None]
  BY DEF Delete
<1>2. ASSUME NEW c \in Chats, NEW p \in messages'[c]
      PROVE  p \in messages[c] /\ (c \in Parties(IdOf[o]) => IdOf[p] # IdOf[o])
  <2>1. messages'[c] = IF c \in FoundChats(o) THEN messages[c] \ Equal(c, o) ELSE messages[c]
    BY <1>1 DEF RemoveFrom
  <2>2. p \in messages[c]
    BY <1>2, <2>1
  <2>3. CASE c \in FoundChats(o)
    BY <1>2, <2>1, <2>2, <2>3 DEF Equal
  <2>4. CASE c \notin FoundChats(o)
    <3>1. c \in chats
      BY <2>2 DEF StorageInv, Placed
    <3> QED
      BY <2>2, <2>4, <3>1 DEF FoundChats, Parties
  <2> QED
    BY <2>3, <2>4
<1> QED
  BY <1>1, <1>2

(* The two indexes do not lose a message separately in the chats of its     *)
(* sender and its recipient, for every relation between the ids of the      *)
(* chats and the users: what is there can be found by its id.               *)
THEOREM ChatsAreIndexedHolds == Spec => []ChatsAreIndexed
<1>1. Init => AllIndexed
  BY DEF Init, AllIndexed
<1>2. ASSUME StorageInv, AllIndexed, [Next]_vars PROVE AllIndexed'
  <2> USE <1>2, StorageAssumption DEF AllIndexed, StorageInv, Typed
  <2>1. ASSUME NEW c \in Chats, GetChatById(c) PROVE AllIndexed'
    BY <2>1 DEF GetChatById
  <2>2. ASSUME NEW c \in Chats, NEW o \in Objects, AddMessage(c, o) PROVE AllIndexed'
    <3>1. byId' = [byId EXCEPT ![IdOf[o]] = o] /\ o # None
      BY <2>2 DEF AddMessage
    <3>2. \A d \in Chats : \A p \in messages'[d] : p \in messages[d] \/ p = o
      BY <2>2 DEF AddMessage, AddTo
    <3> QED
      BY <3>1, <3>2
  <2>3. ASSUME NEW c \in Chats, NEW o \in Objects, RemoveMessage(c, o) PROVE AllIndexed'
    BY <2>3 DEF RemoveMessage, RemoveFrom
  <2>4. ASSUME NEW c \in Chats, NEW o \in Objects, SetMessageRead(c, o) PROVE AllIndexed'
    BY <2>4 DEF SetMessageRead
  <2>5. ASSUME NEW o \in Objects, Delete(o) PROVE AllIndexed'
    BY <2>5, DeleteFinds
  <2>6. ASSUME NEW i \in Ids, DeleteMessageById(i) PROVE AllIndexed'
    BY <2>5, <2>6 DEF DeleteMessageById, vars
  <2>7. CASE RemoveAllChats
    BY <2>7 DEF RemoveAllChats
  <2>8. CASE UNCHANGED vars
    BY <2>8 DEF vars
  <2> QED
    BY <2>1, <2>2, <2>3, <2>4, <2>5, <2>6, <2>7, <2>8 DEF Next, DeleteMessage
<1>3. StorageInv /\ AllIndexed => ChatsAreIndexed
  BY DEF StorageInv, Typed, AllIndexed, Parties, ChatsAreIndexed
<1> QED
  BY <1>1, <1>2, <1>3, StorageSafety, PTL DEF Spec

-----------------------------------------------------------------------------
(***************************************************************************)
(* ChatLock                                                                *)
(***************************************************************************)

NoRepeat(s) == \A i, j \in 1 .. Len(s) : s[i] = s[j] => i = j

(* The elements of RemoveAt(s, k).                                          *)
LEMMA RemoveAtElements ==
  ASSUME NEW S, NEW s \in Seq(S), NEW k \in 1 .. Len(s)
  PROVE  /\ RemoveAt(s, k) \in Seq(S)
         /\ Len(RemoveAt(s, k)) = Len(s) - 1
         /\ \A i \in 1 .. Len(s) - 1 :
              RemoveAt(s, k)[i] = IF i < k THEN s[i] ELSE s[i + 1]
<1> DEFINE front == SubSeq(s, 1, k - 1)
           back == SubSeq(s, k + 1, Len(s))
<1>0. /\ Len(s) \in Nat /\ k \in Int
      /\ \A i \in 1 .. k - 1 : s[i] \in S
      /\ \A i \in k + 1 .. Len(s) : s[i] \in S
  BY LenProperties, ElementOfSeq
<1>1. /\ front \in Seq(S) /\ Len(front) = k - 1
      /\ \A i \in 1 .. k - 1 : front[i] = s[i]
  BY <1>0, SubSeqProperties
<1>2. /\ back \in Seq(S) /\ Len(back) = Len(s) - k
      /\ \A i \in 1 .. Len(s) - k : back[i] = s[i + k]
  <2>1. /\ back \in Seq(S)
        /\ Len(back) = IF k + 1 <= Len(s) THEN Len(s) - (k + 1) + 1 ELSE 0
        /\ \A i \in 1 .. Len(s) - (k + 1) + 1 : back[i] = s[(k + 1) + i - 1]
    BY <1>0, SubSeqProperties
  <2>2. \A i \in 1 .. Len(s) - k : (k + 1) + i - 1 = i + k
    BY <1>0
  <2> HIDE DEF back
  <2>. QED BY <1>0, <2>1, <2>2
<1> HIDE DEF front, back
<1>3. /\ front \o back \in Seq(S)
      /\ Len(front \o back) = Len(s) - 1
      /\ \A i \in 1 .. Len(s) - 1 :
           (front \o back)[i] = IF i <= k - 1 THEN front[i] ELSE back[i - (k - 1)]
  <2>1. Len(front) + Len(back) = Len(s) - 1
    BY <1>0, <1>1, <1>2
  <2>2. /\ front \o back \in Seq(S)
        /\ Len(front \o back) = Len(front) + Len(back)
        /\ \A i \in 1 .. Len(front) + Len(back) :
             (front \o back)[i] = IF i <= Len(front) THEN front[i] ELSE back[i - Len(front)]
    BY <1>1, <1>2, ConcatProperties
  <2>3. Len(front) = k - 1
    BY <1>1
  <2>. QED BY <2>1, <2>2, <2>3
<1>4. ASSUME NEW i \in 1 .. Len(s) - 1
      PROVE  (front \o back)[i] = IF i < k THEN s[i] ELSE s[i + 1]
  <2>1. CASE i < k
    <3>0. i <= k - 1
      BY <1>0, <2>1
    <3>1. (front \o back)[i] = front[i]
      BY <1>3, <3>0
    <3>. QED BY <1>0, <1>1, <2>1, <3>1
  <2>2. CASE ~(i < k)
    <3>0. ~(i <= k - 1)
      BY <1>0, <2>2
    <3>1. (front \o back)[i] = back[i - (k - 1)]
      BY <1>3, <3>0
    <3>2. i - (k - 1) \in 1 .. Len(s) - k /\ i - (k - 1) + k = i + 1
      BY <1>0, <2>2
    <3>3. back[i - (k - 1)] = s[i - (k - 1) + k]
      BY <1>2, <3>2
    <3>. QED BY <1>0, <2>2, <3>1, <3>2, <3>3
  <2>. QED BY <2>1, <2>2
<1>5. RemoveAt(s, k) = front \o back
  BY DEF RemoveAt, front, back
<1>. QED BY <1>3, <1>4, <1>5


(* What a list holds after add.                                             *)
LEMMA AppendHolds ==
  ASSUME NEW S, NEW s \in Seq(S), NEW x \in S
  PROVE  /\ Append(s, x) \in Seq(S)
         /\ ToSet(Append(s, x)) = ToSet(s) \cup {x}
         /\ NoRepeat(s) /\ x \notin ToSet(s) => NoRepeat(Append(s, x))
<1>1. /\ Append(s, x) \in Seq(S) /\ Len(Append(s, x)) = Len(s) + 1
      /\ \A i \in 1 .. Len(s) : Append(s, x)[i] = s[i]
      /\ Append(s, x)[Len(s) + 1] = x
      /\ Len(s) \in Nat
      /\ DOMAIN s = 1 .. Len(s) /\ DOMAIN Append(s, x) = 1 .. Len(s) + 1
  BY AppendProperties, LenProperties
<1>2. \A i \in 1 .. Len(s) + 1 : i \in 1 .. Len(s) \/ i = Len(s) + 1
  BY <1>1
<1>3. ToSet(Append(s, x)) = ToSet(s) \cup {x}
  BY <1>1, <1>2 DEF ToSet
<1> QED
  BY <1>1, <1>2, <1>3 DEF ToSet, NoRepeat

(* What a list that holds no message twice holds after remove.              *)
LEMMA RemoveHolds ==
  ASSUME NEW S, NEW s \in Seq(S), NEW k \in 1 .. Len(s), NoRepeat(s)
  PROVE  ToSet(RemoveAt(s, k)) = ToSet(s) \ {s[k]} /\ NoRepeat(RemoveAt(s, k))
<1> DEFINE w == RemoveAt(s, k)
<1>1. /\ w \in Seq(S) /\ Len(w) = Len(s) - 1
      /\ \A i \in 1 .. Len(s) - 1 : w[i] = IF i < k THEN s[i] ELSE s[i + 1]
  BY RemoveAtElements
<1>2. Len(s) \in Nat /\ k \in Int /\ DOMAIN s = 1 .. Len(s) /\ DOMAIN w = 1 .. Len(s) - 1
  BY <1>1, LenProperties
<1> HIDE DEF w
<1>3. ASSUME NEW i \in 1 .. Len(s) - 1 PROVE w[i] \in ToSet(s) \ {s[k]}
  BY <1>1, <1>2 DEF ToSet, NoRepeat
<1>4. ASSUME NEW i \in 1 .. Len(s), i # k PROVE s[i] \in ToSet(w)
  <2>1. CASE i < k
    <3>1. i \in 1 .. Len(s) - 1 /\ w[i] = s[i]
      BY <1>1, <1>2, <2>1
    <3> QED
      BY <1>2, <3>1 DEF ToSet
  <2>2. CASE k < i
    <3>1. i - 1 \in 1 .. Len(s) - 1 /\ ~(i - 1 < k) /\ (i - 1) + 1 = i
      BY <1>2, <2>2
    <3>2. w[i - 1] = s[(i - 1) + 1]
      BY <1>1, <3>1
    <3> QED
      BY <1>2, <3>1, <3>2 DEF ToSet
  <2> QED
    BY <1>2, <1>4, <2>1, <2>2
<1>5. ToSet(w) = ToSet(s) \ {s[k]}
  <2>1. ToSet(w) \subseteq ToSet(s) \ {s[k]}
    BY <1>2, <1>3 DEF ToSet
  <2>2. ASSUME NEW x \in ToSet(s) \ {s[k]} PROVE x \in ToSet(w)
    <3>1. PICK i \in 1 .. Len(s) : s[i] = x
      BY <1>2 DEF ToSet
    <3> QED
      BY <1>4, <3>1
  <2> QED
    BY <2>1, <2>2
<1>6. NoRepeat(w)
  <2> SUFFICES ASSUME NEW i \in 1 .. Len(s) - 1, NEW j \in 1 .. Len(s) - 1, w[i] = w[j] PROVE i = j
    BY <1>1 DEF NoRepeat
  <2>1. /\ w[i] = IF i < k THEN s[i] ELSE s[i + 1]
        /\ w[j] = IF j < k THEN s[j] ELSE s[j + 1]
    BY <1>1
  <2>2. /\ i \in 1 .. Len(s) /\ i + 1 \in 1 .. Len(s) /\ i # i + 1
        /\ j \in 1 .. Len(s) /\ j + 1 \in 1 .. Len(s) /\ j # j + 1
    BY <1>2
  <2>3. CASE i < k /\ j < k
    BY <2>1, <2>2, <2>3 DEF NoRepeat
  <2>4. CASE i < k /\ ~(j < k)
    <3>1. i = j + 1
      BY <2>1, <2>2, <2>4 DEF NoRepeat
    <3> QED
      BY <1>2, <2>4, <3>1
  <2>5. CASE ~(i < k) /\ j < k
    <3>1. i + 1 = j
      BY <2>1, <2>2, <2>5 DEF NoRepeat
    <3> QED
      BY <1>2, <2>5, <3>1
  <2>6. CASE ~(i < k) /\ ~(j < k)
    <3>1. i + 1 = j + 1
      BY <2>1, <2>2, <2>6 DEF NoRepeat
    <3> QED
      BY <1>2, <3>1
  <2> QED
    BY <2>3, <2>4, <2>5, <2>6
<1> QED
  BY <1>5, <1>6 DEF w

-----------------------------------------------------------------------------
(* A call that has its monitor and has not given it back.                   *)
Inside(t) == pc[t] \notin {"call", "lock", "done"}

(* The statements of each call.                                             *)
Places(o) ==
  {"call", "lock", "unlock", "done"} \cup
    (CASE o = "add"    -> {"add", "append", "plus", "plus2"}
       [] o = "remove" -> {"remove", "get", "minus", "minus2", "erase"}
       [] o = "read"   -> {"read", "get", "minus", "minus2"}
       [] OTHER        -> {"set", "reread", "relock", "zero", "hasNext", "next", "plus", "plus2"})

InPlace ==
  \A t \in Threads : pc[t] \in Places(op[t]) /\ arg[t] \in IF op[t] = "set" THEN Lists ELSE Messages

(* Outside its monitor a call holds none, and setMessages holds one before  *)
(* it has the second.                                                       *)
OneMonitor ==
  \A t \in Threads, l \in Lists :
    owner[l] = t => Inside(t) /\ (pc[t] \in {"set", "reread", "relock"} => l = ref[t])

LockInv == ChatTypeOK /\ InPlace /\ OneMonitor

(* What the counter owes the list at each statement: an added or removed    *)
(* message counts when the call has come to its end, a marked one at once.  *)
Due(t) ==
  CASE pc[t] \in {"plus", "plus2"} -> 1
    [] pc[t] \in {"minus", "minus2"} /\ op[t] = "read" -> -1
    [] pc[t] = "erase" /\ arg[t] \notin isRead -> 1
    [] OTHER -> 0

(* What a call has found out holds until it has used it: mUnreadCount as it *)
(* has read it, the index of its message, and whether that is read.         *)
Indexed == {"get", "minus", "minus2", "erase"}
Found(t) ==
  /\ pc[t] \in {"plus2", "minus2"} => tmp[t] = mUnreadCount
  /\ pc[t] = "append" => arg[t] \notin ToSet(elems[Own])
  /\ pc[t] \in Indexed => at[t] \in 1 .. Len(elems[Own]) /\ elems[Own][at[t]] = arg[t]
  /\ op[t] = "remove" /\ pc[t] \in {"minus", "minus2"} => arg[t] \notin isRead

MarkedBy ==
  \A m \in isRead : \E t \in Threads :
    op[t] = "read" /\ arg[t] = m /\ pc[t] \in {"minus", "minus2", "unlock", "done"}

(* Without setMessages there is one list, which holds no message twice, and *)
(* one monitor.                                                             *)
NoSet == \A t \in Threads : op[t] # "set"
OneList ==
  /\ mMessages = Own /\ NoRepeat(elems[Own]) /\ IsFiniteSet(ToSet(elems[Own]))
  /\ \A t \in Threads : ref[t] = Own /\ Found(t)

(* No message is marked as read by two calls.                               *)
MarkedOnce ==
  \A t, u \in Threads : op[t] = "read" /\ op[u] = "read" /\ arg[t] = arg[u] => t = u

Left == ToSet(elems[Own]) \ isRead

CountIsDue ==
  /\ (\A t \in Threads : ~Inside(t)) => mUnreadCount = Cardinality(Left)
  /\ \A t \in Threads : Inside(t) => mUnreadCount + Due(t) = Cardinality(Left)

CountInv == NoSet => OneList /\ MarkedBy /\ (MarkedOnce => CountIsDue)

-----------------------------------------------------------------------------
(* A step is one of one thread, inside its own call.                        *)
LEMMA StepFrame ==
  ASSUME LockInv, NEW t \in Threads, Step(t)
  PROVE  /\ UNCHANGED <<op, arg>>
         /\ \A u \in Threads \ {t} : pc'[u] = pc[u]
         /\ pc' = [pc EXCEPT ![t] = pc'[t]]
         /\ pc'[t] \in Places(op[t])
<1> USE ChatAssumption DEF LockInv, ChatTypeOK, GoTo
<1>0. op[t] \in {"add", "remove", "read", "set"} /\ pc[t] \in Places(op[t])
  BY DEF InPlace
<1>1. CASE Enter(t)
  BY <1>0, <1>1 DEF Enter, Places
<1>2. CASE Lock(t)
  BY <1>0, <1>2 DEF Lock, Places
<1>3. CASE AskContains(t)
  BY <1>0, <1>3 DEF AskContains, Places
<1>4. CASE AddToList(t)
  BY <1>0, <1>4 DEF AddToList, Places
<1>5. CASE IndexOf(t)
  BY SMTT(30), <1>0, <1>5 DEF IndexOf, Places
<1>6. CASE OutOfBounds(t)
  BY <1>0, <1>6 DEF OutOfBounds, Places
<1>7. CASE Get(t)
  BY <1>0, <1>7 DEF Get, Places
<1>8. CASE Erase(t)
  BY <1>0, <1>8 DEF Erase, Places
<1>9. CASE MarkRead(t)
  BY <1>0, <1>9 DEF MarkRead, Places
<1>10. CASE Load(t)
  BY <1>0, <1>10 DEF Load, Places
<1>11. CASE Store(t)
  <2>1. CASE pc[t] = "plus2"
    BY <1>0, <1>11, <2>1 DEF Store, Places
  <2>2. CASE pc[t] = "minus2"
    BY <1>0, <1>11, <2>2 DEF Store, Places
  <2> QED
    BY <1>11, <2>1, <2>2 DEF Store
<1>12. CASE SetField(t)
  BY <1>0, <1>12 DEF SetField, Places
<1>13. CASE Reread(t)
  BY <1>0, <1>13 DEF Reread, Places
<1>14. CASE Relock(t)
  BY <1>0, <1>14 DEF Relock, Places
<1>15. CASE Iterator(t)
  BY <1>0, <1>15 DEF Iterator, Places
<1>16. CASE HasNext(t)
  BY <1>0, <1>16 DEF HasNext, Places
<1>17. CASE CountNext(t)
  BY SMTT(30), <1>0, <1>17 DEF CountNext, Places
<1>18. CASE Unlock(t)
  BY <1>0, <1>18 DEF Unlock, Places
<1> QED
  BY ONLY Step(t), <1>1, <1>2, <1>3, <1>4, <1>5, <1>6, <1>7, <1>8, <1>9, <1>10, <1>11, <1>12, <1>13,
          <1>14, <1>15, <1>16, <1>17, <1>18 DEF Step

(* What the statements outside the nested monitors leave alone.             *)
Body(t) ==
  AskContains(t) \/ AddToList(t) \/ IndexOf(t) \/ OutOfBounds(t) \/ Get(t) \/ Erase(t) \/ MarkRead(t)
  \/ Load(t) \/ Store(t)

LEMMA BodyFrame ==
  ASSUME LockInv, NEW t \in Threads, Body(t)
  PROVE  /\ UNCHANGED <<mMessages, owner, ref, list, age>>
         /\ pc[t] \in {"add", "append", "remove", "read", "get", "erase", "plus", "plus2", "minus", "minus2"}
         /\ pc'[t] \in {"append", "get", "erase", "plus", "plus2", "minus", "minus2", "hasNext", "unlock"}
<1> USE ChatAssumption DEF LockInv, ChatTypeOK, GoTo
<1>1. CASE AskContains(t)
  BY <1>1 DEF AskContains
<1>2. CASE AddToList(t)
  BY <1>2 DEF AddToList
<1>3. CASE IndexOf(t)
  BY <1>3 DEF IndexOf
<1>4. CASE OutOfBounds(t)
  BY <1>4 DEF OutOfBounds
<1>5. CASE Get(t)
  BY <1>5 DEF Get
<1>6. CASE Erase(t)
  BY <1>6 DEF Erase
<1>7. CASE MarkRead(t)
  BY <1>7 DEF MarkRead
<1>8. CASE Load(t)
  BY <1>8 DEF Load
<1>9. CASE Store(t)
  BY <1>9 DEF Store
<1> QED
  BY ONLY Body(t), <1>1, <1>2, <1>3, <1>4, <1>5, <1>6, <1>7, <1>8, <1>9 DEF Body

LEMMA StepKinds ==
  ASSUME NEW t \in Threads
  PROVE  Step(t) <=> \/ Enter(t) \/ Lock(t) \/ Body(t) \/ SetField(t) \/ Reread(t) \/ Relock(t)
                     \/ Iterator(t) \/ HasNext(t) \/ CountNext(t) \/ Unlock(t)
BY DEF Step, Body

(* Every step keeps the types, the statements of its call, and the monitors *)
(* of the calls: a thread takes a monitor that is free, or its own again.   *)
LEMMA LockStep ==
  ASSUME LockInv, [ChatNext]_chatVars
  PROVE  LockInv'
<1> USE ChatAssumption DEF LockInv, ChatTypeOK
<1>1. ASSUME NEW t \in Threads, Step(t)
      PROVE  elems' \in [Lists -> Seq(Messages)] /\ isRead' \subseteq Messages
  <2>0. /\ op[t] \in {"add", "remove", "read", "set"} /\ pc[t] \in Places(op[t])
        /\ arg[t] \in IF op[t] = "set" THEN Lists ELSE Messages
        /\ elems[mMessages] \in Seq(Messages)
    BY DEF InPlace
  <2>1. CASE AddToList(t)
    <3>1. arg[t] \in Messages
      BY <2>0, <2>1 DEF AddToList, GoTo, Places
    <3>2. Append(elems[mMessages], arg[t]) \in Seq(Messages)
      BY ONLY <2>0, <3>1, AppendProperties
    <3> QED
      BY <2>1, <3>2 DEF AddToList
  <2>2. CASE Erase(t)
    <3>1. at[t] \in 1 .. Len(elems[mMessages])
      BY SMTT(30), <2>0, <2>2, LenProperties DEF Erase
    <3>2. RemoveAt(elems[mMessages], at[t]) \in Seq(Messages)
      BY ONLY <2>0, <3>1, RemoveAtElements
    <3> QED
      BY <2>2, <3>2 DEF Erase
  <2>3. CASE MarkRead(t)
    <3>1. elems[mMessages][at[t]] \in Messages
      BY <2>0, <2>3, LenProperties, ElementOfSeq DEF MarkRead
    <3> QED
      BY <2>3, <3>1 DEF MarkRead
  <2>4. CASE UNCHANGED <<elems, isRead>>
    BY <2>4
  <2> QED
    BY ONLY Step(t), <1>1, <2>1, <2>2, <2>3, <2>4
       DEF Step, Enter, Lock, AskContains, IndexOf, OutOfBounds, Get, Load, Store, SetField, Reread, Relock,
           Iterator, HasNext, CountNext, Unlock
<1>2. ASSUME NEW t \in Threads, Step(t)
      PROVE  /\ mUnreadCount' \in Int /\ tmp' \in [Threads -> Int] /\ at' \in [Threads -> Nat]
             /\ stale' \subseteq Threads
  <2>1. CASE Enter(t) \/ Lock(t) \/ AskContains(t) \/ AddToList(t) \/ OutOfBounds(t) \/ Get(t) \/ Erase(t)
             \/ MarkRead(t)
    BY <2>1 DEF Enter, Lock, AskContains, AddToList, OutOfBounds, Get, Erase, MarkRead, Outdate
  <2>2. CASE IndexOf(t)
    <3>1. elems[mMessages] \in Seq(Messages)
      OBVIOUS
    <3>2. DOMAIN elems[mMessages] \subseteq Nat
      BY ONLY <3>1, LenProperties
    <3>3. UNCHANGED at \/ \E i \in DOMAIN elems[mMessages] : at' = [at EXCEPT ![t] = i]
      BY <2>2 DEF IndexOf
    <3>4. at' \in [Threads -> Nat]
      BY <3>2, <3>3
    <3> QED
      BY <2>2, <3>4 DEF IndexOf
  <2>3. CASE Load(t)
    BY <2>3 DEF Load
  <2>6. CASE Store(t)
    <3>1. (mUnreadCount' = tmp[t] + 1 \/ mUnreadCount' = tmp[t] - 1) /\ tmp[t] \in Int
          /\ UNCHANGED <<tmp, at, stale>>
      BY <2>6 DEF Store
    <3>2. mUnreadCount' \in Int
      BY ONLY <3>1
    <3> QED
      BY <3>1, <3>2
  <2>4. CASE SetField(t) \/ Reread(t) \/ Relock(t) \/ HasNext(t) \/ Unlock(t)
    BY <2>4 DEF SetField, Reread, Relock, HasNext, Unlock
  <2>5. CASE Iterator(t)
    BY <2>5 DEF Iterator
  <2>7. CASE CountNext(t)
    <3>1. /\ UNCHANGED at \/ at' = [at EXCEPT ![t] = at[t] + 1]
          /\ UNCHANGED <<mUnreadCount, tmp, stale>>
      BY <2>7 DEF CountNext
    <3>2. at \in [Threads -> Nat] /\ at[t] + 1 \in Nat
      OBVIOUS
    <3>3. at' \in [Threads -> Nat]
      BY ONLY <3>1, <3>2
    <3> QED
      BY <3>1, <3>3
  <2> QED
    BY ONLY Step(t), <1>2, <2>1, <2>2, <2>3, <2>4, <2>5, <2>6, <2>7 DEF Step
<1>3. ASSUME NEW t \in Threads, Step(t)
      PROVE  /\ ref' \in [Threads -> Lists] /\ owner' \in [Lists -> Threads \cup {Nobody}]
             /\ list' \in [Threads -> Lists] /\ age' \in [Lists -> Nat] /\ mMessages' \in Lists
             /\ \A u \in Threads : Inside(u)' => owner'[ref'[u]] = u
             /\ OneMonitor'
  <2>0. UNCHANGED <<op, arg>> /\ \A u \in Threads \ {t} : pc'[u] = pc[u]
    BY <1>3, StepFrame
  <2>a. /\ \A u \in Threads \ {t} : Inside(u)' <=> Inside(u)
        /\ \A u \in Threads : Inside(u) => owner[ref[u]] = u
        /\ OneMonitor
    BY <2>0 DEF Inside
  <2> DEFINE Nested == {"set", "reread", "relock"}
  <2>b. ASSUME UNCHANGED <<owner, ref>>, Inside(t), pc'[t] \in {"unlock"} \/ Inside(t)',
               pc'[t] \in Nested => pc[t] \in Nested
        PROVE  /\ \A u \in Threads : Inside(u)' => owner'[ref'[u]] = u
               /\ OneMonitor'
    BY <2>0, <2>a, <2>b DEF OneMonitor, Inside
  <2>1. CASE Enter(t)
    <3>1. /\ pc[t] = "call" /\ pc'[t] = "lock" /\ UNCHANGED <<mMessages, owner, list, age>>
          /\ ref' = [ref EXCEPT ![t] = mMessages]
      BY <2>1 DEF Enter, GoTo
    <3>2. ~Inside(t) /\ ~Inside(t)'
      BY <3>1 DEF Inside
    <3>3. owner' \in [Lists -> Threads \cup {Nobody}] /\ ref' \in [Threads -> Lists]
      BY <3>1
    <3>4. ASSUME NEW u \in Threads, Inside(u)' PROVE owner'[ref'[u]] = u
      <4>1. CASE u = t
        BY <2>a, <3>1, <3>2, <3>4, <4>1
      <4>2. CASE u # t
        <5>1. Inside(u) /\ owner[ref[u]] = u /\ u # Nobody
          BY <2>a, <3>4, <4>2
        <5> QED
          BY <3>1, <4>2, <5>1
      <4> QED
        BY <4>1, <4>2
    <3>5. ASSUME NEW u \in Threads, NEW l \in Lists, owner'[l] = u
          PROVE  Inside(u)' /\ (pc'[u] \in {"set", "reread", "relock"} => l = ref'[u])
      <4>1. CASE u = t
        BY <2>a, <3>1, <3>2, <3>5, <4>1 DEF OneMonitor
      <4>2. CASE u # t
        <5>1. owner[l] = u /\ u # Nobody
          BY <3>1, <3>5, <4>2
        <5>2. Inside(u) /\ (pc[u] \in {"set", "reread", "relock"} => l = ref[u])
          BY <5>1 DEF OneMonitor
        <5>3. pc'[u] = pc[u] /\ ref'[u] = ref[u] /\ Inside(u)'
          BY <2>0, <2>a, <3>1, <4>2, <5>2
        <5> QED
          BY <5>2, <5>3
      <4> QED
        BY <4>1, <4>2
    <3> QED
      BY <3>1, <3>3, <3>4, <3>5 DEF OneMonitor
  <2>2. CASE Lock(t)
    <3>1. /\ pc[t] = "lock" /\ pc'[t] = op[t] /\ op[t] \in {"add", "remove", "read", "set"}
          /\ owner[ref[t]] = Nobody /\ owner' = [owner EXCEPT ![ref[t]] = t]
          /\ UNCHANGED <<mMessages, ref, list, age>>
      BY ZenonT(60), <2>2 DEF Lock, GoTo
    <3>2. ~Inside(t) /\ Inside(t)'
      BY <3>1 DEF Inside
    <3>3. owner' \in [Lists -> Threads \cup {Nobody}] /\ ref' \in [Threads -> Lists]
      BY <3>1
    <3>4. ASSUME NEW u \in Threads, Inside(u)' PROVE owner'[ref'[u]] = u
      <4>1. CASE u = t
        BY <2>a, <3>1, <3>2, <3>4, <4>1
      <4>2. CASE u # t
        <5>1. Inside(u) /\ owner[ref[u]] = u /\ u # Nobody
          BY <2>a, <3>4, <4>2
        <5> QED
          BY <3>1, <4>2, <5>1
      <4> QED
        BY <4>1, <4>2
    <3>5. ASSUME NEW u \in Threads, NEW l \in Lists, owner'[l] = u
          PROVE  Inside(u)' /\ (pc'[u] \in {"set", "reread", "relock"} => l = ref'[u])
      <4>1. CASE u = t
        BY <2>a, <3>1, <3>2, <3>5, <4>1 DEF OneMonitor
      <4>2. CASE u # t
        <5>1. owner[l] = u /\ u # Nobody
          BY <3>1, <3>5, <4>2
        <5>2. Inside(u) /\ (pc[u] \in {"set", "reread", "relock"} => l = ref[u])
          BY <5>1 DEF OneMonitor
        <5>3. pc'[u] = pc[u] /\ ref'[u] = ref[u] /\ Inside(u)'
          BY <2>0, <2>a, <3>1, <4>2, <5>2
        <5> QED
          BY <5>2, <5>3
      <4> QED
        BY <4>1, <4>2
    <3> QED
      BY <3>1, <3>3, <3>4, <3>5 DEF OneMonitor
  <2>3. CASE Relock(t)
    <3>1. /\ pc[t] = "relock" /\ pc'[t] = "zero" /\ owner[list[t]] \in {Nobody, t}
          /\ owner' = [owner EXCEPT ![list[t]] = t] /\ UNCHANGED <<mMessages, ref, list, age>>
      BY <2>3 DEF Relock, GoTo
    <3>2. Inside(t) /\ Inside(t)'
      BY <3>1 DEF Inside
    <3>3. owner' \in [Lists -> Threads \cup {Nobody}] /\ ref' \in [Threads -> Lists]
      BY <3>1
    <3>4. ASSUME NEW u \in Threads, Inside(u)' PROVE owner'[ref'[u]] = u
      <4>1. CASE u = t
        BY <2>a, <3>1, <3>2, <3>4, <4>1
      <4>2. CASE u # t
        <5>1. Inside(u) /\ owner[ref[u]] = u /\ u # Nobody
          BY <2>a, <3>4, <4>2
        <5> QED
          BY <3>1, <4>2, <5>1
      <4> QED
        BY <4>1, <4>2
    <3>5. ASSUME NEW u \in Threads, NEW l \in Lists, owner'[l] = u
          PROVE  Inside(u)' /\ (pc'[u] \in {"set", "reread", "relock"} => l = ref'[u])
      <4>1. CASE u = t
        BY <2>a, <3>1, <3>2, <3>5, <4>1 DEF OneMonitor
      <4>2. CASE u # t
        <5>1. owner[l] = u /\ u # Nobody
          BY <3>1, <3>5, <4>2
        <5>2. Inside(u) /\ (pc[u] \in {"set", "reread", "relock"} => l = ref[u])
          BY <5>1 DEF OneMonitor
        <5>3. pc'[u] = pc[u] /\ ref'[u] = ref[u] /\ Inside(u)'
          BY <2>0, <2>a, <3>1, <4>2, <5>2
        <5> QED
          BY <5>2, <5>3
      <4> QED
        BY <4>1, <4>2
    <3> QED
      BY <3>1, <3>3, <3>4, <3>5 DEF OneMonitor
  <2>4. CASE Unlock(t)
    <3>1. /\ pc'[t] = "done" /\ UNCHANGED <<mMessages, ref, list, age>>
          /\ owner' = [l \in Lists |-> IF owner[l] = t THEN Nobody ELSE owner[l]]
      BY <2>4 DEF Unlock, GoTo
    <3>2. ~Inside(t)'
      BY <3>1 DEF Inside
    <3>3. owner' \in [Lists -> Threads \cup {Nobody}] /\ ref' \in [Threads -> Lists]
      BY <3>1
    <3>4. ASSUME NEW u \in Threads, Inside(u)' PROVE owner'[ref'[u]] = u
      <4>1. CASE u = t
        BY <2>a, <3>1, <3>2, <3>4, <4>1
      <4>2. CASE u # t
        <5>1. Inside(u) /\ owner[ref[u]] = u /\ u # Nobody
          BY <2>a, <3>4, <4>2
        <5> QED
          BY <3>1, <4>2, <5>1
      <4> QED
        BY <4>1, <4>2
    <3>5. ASSUME NEW u \in Threads, NEW l \in Lists, owner'[l] = u
          PROVE  Inside(u)' /\ (pc'[u] \in {"set", "reread", "relock"} => l = ref'[u])
      <4>1. CASE u = t
        BY <2>a, <3>1, <3>2, <3>5, <4>1 DEF OneMonitor
      <4>2. CASE u # t
        <5>1. owner[l] = u /\ u # Nobody
          BY <3>1, <3>5, <4>2
        <5>2. Inside(u) /\ (pc[u] \in {"set", "reread", "relock"} => l = ref[u])
          BY <5>1 DEF OneMonitor
        <5>3. pc'[u] = pc[u] /\ ref'[u] = ref[u] /\ Inside(u)'
          BY <2>0, <2>a, <3>1, <4>2, <5>2
        <5> QED
          BY <5>2, <5>3
      <4> QED
        BY <4>1, <4>2
    <3> QED
      BY <3>1, <3>3, <3>4, <3>5 DEF OneMonitor
  <2>5. CASE SetField(t)
    <3>1. pc[t] = "set" /\ pc'[t] = "reread" /\ op[t] \in {"add", "remove", "read", "set"}
          /\ pc[t] \in Places(op[t]) /\ (arg[t] \in IF op[t] = "set" THEN Lists ELSE Messages)
      BY <2>5 DEF InPlace, SetField, GoTo
    <3>2. arg[t] \in Lists
      BY <3>1 DEF Places
    <3>3. UNCHANGED <<owner, ref>> /\ mMessages' \in Lists /\ list' \in [Threads -> Lists]
          /\ age' \in [Lists -> Nat]
      BY SMTT(30), <2>5, <3>2 DEF SetField
    <3> QED
      BY <2>b, <3>1, <3>3 DEF Inside
  <2>6. CASE Reread(t)
    <3>1. /\ pc[t] = "reread" /\ pc'[t] = "relock" /\ UNCHANGED <<mMessages, owner, ref, age>>
          /\ list' \in [Threads -> Lists]
      BY <2>6 DEF Reread, GoTo
    <3> QED
      BY <2>b, <3>1 DEF Inside
  <2>7. CASE Iterator(t) \/ HasNext(t) \/ CountNext(t)
    <3>1. UNCHANGED <<owner, ref, mMessages, age>> /\ list' \in [Threads -> Lists]
      <4>1. CASE Iterator(t)
        BY <4>1 DEF Iterator
      <4>2. CASE HasNext(t)
        BY <4>2 DEF HasNext
      <4>3. CASE CountNext(t)
        BY <4>3 DEF CountNext
      <4> QED
        BY <2>7, <4>1, <4>2, <4>3
    <3>2. pc[t] \in {"zero", "hasNext", "next"} /\ pc'[t] \in {"hasNext", "next", "plus", "unlock"}
      <4>1. CASE Iterator(t)
        BY <4>1 DEF Iterator, GoTo
      <4>2. CASE HasNext(t)
        BY <4>2 DEF HasNext, GoTo
      <4>3. CASE CountNext(t)
        BY <4>3 DEF CountNext, GoTo
      <4> QED
        BY <2>7, <4>1, <4>2, <4>3
    <3> QED
      BY <2>b, <3>1, <3>2 DEF Inside
  <2>8. CASE Body(t)
    <3>1. /\ UNCHANGED <<mMessages, owner, ref, list, age>> /\ Inside(t) /\ Inside(t)'
          /\ pc'[t] \notin Nested
      BY <2>8, BodyFrame DEF Inside
    <3> QED
      BY <2>b, <3>1
  <2> QED
    BY ONLY Step(t), StepKinds, <1>3, <2>1, <2>2, <2>3, <2>4, <2>5, <2>6, <2>7, <2>8
<1>4. ASSUME NEW t \in Threads, Step(t) PROVE LockInv'
  <2> DEFINE AllPlaces == {"call", "lock", "append", "get", "plus", "plus2", "minus", "minus2", "erase",
                           "reread", "relock", "zero", "hasNext", "next", "unlock", "done"} \cup Ops
  <2>1. ASSUME NEW o \in Ops PROVE Places(o) \subseteq AllPlaces
    <3>1. CASE o = "add"
      BY <3>1 DEF Places
    <3>2. CASE o = "remove"
      BY <3>2 DEF Places
    <3>3. CASE o = "read"
      BY <3>3 DEF Places
    <3>4. CASE o = "set"
      BY <3>4 DEF Places
    <3> QED
      BY <3>1, <3>2, <3>3, <3>4
  <2>2. /\ UNCHANGED <<op, arg>> /\ pc' = [pc EXCEPT ![t] = pc'[t]] /\ pc'[t] \in Places(op[t])
        /\ \A u \in Threads \ {t} : pc'[u] = pc[u]
    BY <1>4, StepFrame
  <2>3. pc' \in [Threads -> AllPlaces]
    BY ZenonT(60), <2>1, <2>2
  <2>4. InPlace'
    BY <2>2 DEF InPlace
  <2> QED
    BY <1>1, <1>2, <1>3, <1>4, <2>2, <2>3, <2>4 DEF Inside
<1>5. CASE UNCHANGED chatVars
  BY <1>5 DEF chatVars, InPlace, OneMonitor, Inside
<1> QED
  BY <1>4, <1>5 DEF ChatNext

(* A message is marked by a call that looks for it with setMessageRead.     *)
LEMMA MarkedByStep ==
  ASSUME LockInv, MarkedBy, OneList, NoSet, NEW t \in Threads, Step(t)
  PROVE  MarkedBy'
<1> USE DEF LockInv, ChatTypeOK
<1>1. UNCHANGED <<op, arg>> /\ \A u \in Threads \ {t} : pc'[u] = pc[u]
  BY StepFrame
<1>2. op[t] = "read" /\ pc[t] \in {"minus", "minus2", "unlock", "done"}
        => pc'[t] \in {"minus", "minus2", "unlock", "done"}
  BY DEF Step, Enter, Lock, AskContains, AddToList, IndexOf, OutOfBounds, Get, Erase, MarkRead, Load, Store,
         SetField, Reread, Relock, Iterator, HasNext, CountNext, Unlock, GoTo
<1>3. ASSUME NEW m \in isRead
      PROVE  \E u \in Threads : op'[u] = "read" /\ arg'[u] = m
                               /\ pc'[u] \in {"minus", "minus2", "unlock", "done"}
  <2>1. PICK u \in Threads : op[u] = "read" /\ arg[u] = m /\ pc[u] \in {"minus", "minus2", "unlock", "done"}
    BY DEF MarkedBy
  <2>2. op'[u] = "read" /\ arg'[u] = m /\ pc'[u] \in {"minus", "minus2", "unlock", "done"}
    BY ONLY <1>1, <1>2, <2>1
  <2> QED
    BY <2>2
<1>4. CASE isRead' = isRead
  BY <1>3, <1>4 DEF MarkedBy
<1>5. CASE MarkRead(t)
  <2>1. /\ pc[t] = "get" /\ op[t] = "read" /\ pc'[t] = "minus"
        /\ isRead' = isRead \cup {elems[mMessages][at[t]]}
    BY <1>5 DEF MarkRead, GoTo
  <2>2. elems[mMessages][at[t]] = arg[t]
    BY <2>1 DEF OneList, Found, Indexed
  <2> QED
    BY <1>1, <1>3, <2>1, <2>2 DEF MarkedBy
<1> QED
  BY ONLY Step(t), <1>4, <1>5 DEF Step, Enter, Lock, AskContains, AddToList, IndexOf, OutOfBounds, Get, Erase,
          Load, Store, SetField, Reread, Relock, Iterator, HasNext, CountNext, Unlock

(* Without setMessages the calls take the steps of three methods.           *)
LEMMA OwnSteps ==
  ASSUME LockInv, NoSet, NEW t \in Threads, Step(t)
  PROVE  /\ Enter(t) \/ Lock(t) \/ Body(t) \/ Unlock(t)
         /\ op[t] \in {"add", "remove", "read"} /\ pc[t] \in Places(op[t]) /\ arg[t] \in Messages
<1>1. op[t] \in {"add", "remove", "read"} /\ pc[t] \in Places(op[t]) /\ arg[t] \in Messages
  BY ChatAssumption DEF NoSet, LockInv, InPlace, ChatTypeOK
<1>2. pc[t] \notin {"set", "reread", "relock", "zero", "hasNext", "next"}
  BY <1>1 DEF Places
<1>3. ~SetField(t) /\ ~Reread(t) /\ ~Relock(t) /\ ~Iterator(t) /\ ~HasNext(t) /\ ~CountNext(t)
  BY <1>2 DEF SetField, Reread, Relock, Iterator, HasNext, CountNext, GoTo
<1> QED
  BY <1>1, <1>3, StepKinds

(* There a call works alone: every other one is before its lock or done.    *)
LEMMA Exclusive ==
  ASSUME LockInv, NoSet, OneList, NEW t \in Threads, Step(t)
  PROVE  Enter(t) \/ \A u \in Threads \ {t} : ~Inside(u)
<1> USE ChatAssumption DEF LockInv, ChatTypeOK, OneList
<1>1. CASE Lock(t)
  BY <1>1 DEF Lock, Inside
<1>2. CASE Body(t) \/ Unlock(t)
  <2>1. Inside(t)
    BY <1>2, BodyFrame DEF Inside, Unlock, GoTo
  <2> QED
    BY <2>1 DEF Inside
<1> QED
  BY <1>1, <1>2, OwnSteps

(* What the list holds after the step, in terms of what a call has found.   *)
LEMMA HeldStep ==
  ASSUME LockInv, NoSet, OneList, NEW t \in Threads, Step(t)
  PROVE  /\ mMessages' = Own /\ NoRepeat(elems[Own])' /\ IsFiniteSet(ToSet(elems[Own]))'
         /\ ToSet(elems'[Own]) = CASE AddToList(t) -> ToSet(elems[Own]) \cup {arg[t]}
                                   [] Erase(t)     -> ToSet(elems[Own]) \ {arg[t]}
                                   [] OTHER        -> ToSet(elems[Own])
         /\ AddToList(t) => arg[t] \notin ToSet(elems[Own])
         /\ Erase(t) => arg[t] \in ToSet(elems[Own])
         /\ ~AddToList(t) /\ ~Erase(t) => UNCHANGED elems
<1> USE ChatAssumption DEF LockInv, ChatTypeOK
<1>0. /\ elems[Own] \in Seq(Messages) /\ arg[t] \in Messages
      /\ mMessages = Own /\ NoRepeat(elems[Own]) /\ IsFiniteSet(ToSet(elems[Own])) /\ Found(t)
  BY OwnSteps DEF OneList
<1>1. mMessages' = Own
  BY <1>0, OwnSteps, BodyFrame DEF Enter, Lock, Unlock
<1>2. ~(AddToList(t) /\ Erase(t))
  BY DEF AddToList, Erase, GoTo
<1>3. CASE AddToList(t)
  <2>1. elems'[Own] = Append(elems[Own], arg[t]) /\ arg[t] \notin ToSet(elems[Own])
    BY <1>0, <1>3 DEF AddToList, GoTo, Found
  <2>2. ToSet(elems'[Own]) = ToSet(elems[Own]) \cup {arg[t]} /\ NoRepeat(elems'[Own])
    BY ONLY <1>0, <2>1, AppendHolds
  <2>3. IsFiniteSet(ToSet(elems'[Own]))
    BY ONLY <1>0, <2>2, FS_AddElement
  <2> QED
    BY <1>1, <1>2, <1>3, <2>1, <2>2, <2>3
<1>4. CASE Erase(t)
  <2>1. /\ elems'[Own] = RemoveAt(elems[Own], at[t])
        /\ at[t] \in 1 .. Len(elems[Own]) /\ elems[Own][at[t]] = arg[t]
    BY <1>0, <1>4 DEF Erase, GoTo, Found, Indexed
  <2>2. ToSet(elems'[Own]) = ToSet(elems[Own]) \ {arg[t]} /\ NoRepeat(elems'[Own])
    BY ONLY <1>0, <2>1, RemoveHolds
  <2>3. IsFiniteSet(ToSet(elems'[Own]))
    BY ONLY <1>0, <2>2, FS_RemoveElement
  <2>4. arg[t] \in ToSet(elems[Own])
    BY <1>0, <2>1, LenProperties DEF ToSet
  <2> QED
    BY <1>1, <1>2, <1>4, <2>2, <2>3, <2>4
<1>5. CASE ~AddToList(t) /\ ~Erase(t)
  <2>1. elems' = elems
    BY ONLY Step(t), <1>5 DEF Step, Enter, Lock, AskContains, IndexOf, OutOfBounds, Get, MarkRead,
            Load, Store, SetField, Reread, Relock, Iterator, HasNext, CountNext, Unlock
  <2> QED
    BY <1>0, <1>1, <1>5, <2>1
<1> QED
  BY <1>3, <1>4, <1>5

(* Without setMessages the list stays the chat's own, and what a call has   *)
(* found out stays true while it holds the monitor.                         *)
LEMMA OneListStep ==
  ASSUME LockInv, NoSet, OneList, NEW t \in Threads, Step(t)
  PROVE  OneList'
<1> USE ChatAssumption DEF LockInv, ChatTypeOK
<1>0. /\ op[t] \in {"add", "remove", "read"} /\ pc[t] \in Places(op[t])
      /\ mMessages = Own /\ elems[Own] \in Seq(Messages) /\ Found(t)
      /\ DOMAIN elems[Own] = 1 .. Len(elems[Own])
  BY OwnSteps, LenProperties DEF OneList
<1>1. UNCHANGED <<op, arg, mMessages>> /\ \A u \in Threads \ {t} : pc'[u] = pc[u]
  BY <1>0, StepFrame, HeldStep
<1>2. \A u \in Threads : ref'[u] = Own
  <2>1. \A u \in Threads : ref[u] = Own
    BY DEF OneList
  <2>2. CASE Enter(t)
    <3>1. ref' = [ref EXCEPT ![t] = Own]
      BY <1>0, <2>2 DEF Enter
    <3> QED
      BY <2>1, <3>1
  <2>3. CASE Lock(t) \/ Body(t) \/ Unlock(t)
    <3>1. UNCHANGED ref
      BY <2>3, BodyFrame DEF Lock, Unlock
    <3> QED
      BY <2>1, <3>1
  <2> QED
    BY <2>2, <2>3, OwnSteps
<1>3. Found(t)'
  <2>1. CASE Enter(t) \/ Lock(t) \/ Unlock(t) \/ AddToList(t) \/ Erase(t) \/ OutOfBounds(t)
    <3>1. pc'[t] \in {"lock", "add", "remove", "read", "unlock", "plus", "done"}
      BY <1>0, <2>1 DEF Enter, Lock, Unlock, AddToList, Erase, OutOfBounds, GoTo
    <3> QED
      BY <3>1 DEF Found, Indexed
  <2>2. CASE AskContains(t)
    <3>1. /\ UNCHANGED <<elems, arg>> /\ pc'[t] \in {"unlock", "append"}
          /\ pc'[t] = "append" => ~Contains(elems[Own], arg[t])
      BY <1>0, <2>2 DEF AskContains, GoTo
    <3>2. pc'[t] = "append" => arg[t] \notin ToSet(elems[Own])
      BY <1>0, <3>1 DEF Contains, ToSet
    <3> QED
      BY <3>1, <3>2 DEF Found, Indexed
  <2>3. CASE IndexOf(t)
    <3>1. /\ UNCHANGED <<elems, arg>> /\ pc'[t] \in {"unlock", "get"}
          /\ pc'[t] = "get" => at'[t] \in DOMAIN elems[Own] /\ elems[Own][at'[t]] = arg[t]
      BY <1>0, <2>3 DEF IndexOf, GoTo
    <3> QED
      BY <1>0, <3>1 DEF Found, Indexed
  <2>4. CASE Get(t)
    <3>1. /\ UNCHANGED <<elems, arg, at, isRead, op>> /\ pc[t] = "get" /\ pc'[t] \in {"erase", "minus"}
          /\ pc'[t] = "minus" => elems[Own][at[t]] \notin isRead
      BY <1>0, <2>4 DEF Get, GoTo
    <3> QED
      BY <1>0, <3>1 DEF Found, Indexed
  <2>5. CASE MarkRead(t)
    <3>1. UNCHANGED <<elems, arg, at, op>> /\ pc[t] = "get" /\ pc'[t] = "minus" /\ op[t] = "read"
      BY <2>5 DEF MarkRead, GoTo
    <3> QED
      BY <1>0, <3>1 DEF Found, Indexed
  <2>6. CASE Load(t)
    <3>1. /\ UNCHANGED <<elems, arg, at, op, isRead, mUnreadCount>> /\ tmp'[t] = mUnreadCount
          /\ (pc[t] = "plus" /\ pc'[t] = "plus2") \/ (pc[t] = "minus" /\ pc'[t] = "minus2")
      BY <2>6 DEF Load, GoTo
    <3> QED
      BY <1>0, <3>1 DEF Found, Indexed
  <2>7. CASE Store(t)
    <3>1. /\ UNCHANGED <<elems, arg, at, op>> /\ pc[t] \in {"plus2", "minus2"}
          /\ pc'[t] \in {"hasNext", "unlock", "erase"} /\ (pc'[t] = "erase" => pc[t] = "minus2")
      BY <2>7 DEF Store, GoTo
    <3> QED
      BY <1>0, <3>1 DEF Found, Indexed
  <2> QED
    BY OwnSteps, <2>1, <2>2, <2>3, <2>4, <2>5, <2>6, <2>7 DEF Body
<1>4. ASSUME NEW u \in Threads \ {t} PROVE Found(u)'
  <2>1. Found(u)
    BY DEF OneList
  <2>2. CASE ~Inside(u)
    BY <1>1, <2>2 DEF Found, Indexed, Inside
  <2>3. CASE Enter(t)
    BY <1>1, <2>1, <2>3 DEF Enter, Found
  <2> QED
    BY <2>2, <2>3, Exclusive
<1> QED
  BY <1>0, <1>1, <1>2, <1>3, <1>4, HeldStep DEF OneList

(* Every statement of a call that works alone pays what it owes the list.   *)
LEMMA DueStep ==
  ASSUME LockInv, NoSet, OneList, MarkedBy, MarkedOnce, CountIsDue, NEW t \in Threads, Step(t)
  PROVE  CountIsDue'
<1> USE ChatAssumption DEF LockInv, ChatTypeOK
<1>0. /\ op[t] \in {"add", "remove", "read"} /\ pc[t] \in Places(op[t]) /\ arg[t] \in Messages
      /\ mMessages = Own /\ Found(t) /\ DOMAIN elems[Own] = 1 .. Len(elems[Own])
  BY OwnSteps, LenProperties DEF OneList
<1>1. UNCHANGED <<op, arg>> /\ \A u \in Threads \ {t} : pc'[u] = pc[u]
  BY StepFrame
<1>2. IsFiniteSet(Left) /\ Cardinality(Left) \in Int
  <2>1. IsFiniteSet(ToSet(elems[Own]))
    BY DEF OneList
  <2>2. IsFiniteSet(Left)
    BY ONLY <2>1, FS_Difference DEF Left
  <2>3. Cardinality(Left) \in Nat
    BY ONLY <2>2, FS_CardinalityType
  <2> QED
    BY <2>2, <2>3
<1>3. CASE Enter(t)
  <2>1. UNCHANGED <<op, arg, elems, isRead, mUnreadCount>> /\ pc[t] = "call" /\ pc'[t] = "lock"
    BY <1>3 DEF Enter, GoTo
  <2>2. \A u \in Threads : Inside(u)' <=> Inside(u)
    BY <1>1, <2>1 DEF Inside
  <2>3. \A u \in Threads : Inside(u) => Due(u)' = Due(u)
    BY <1>1, <2>1 DEF Inside, Due
  <2>4. Left' = Left
    BY <2>1 DEF Left
  <2> QED
    BY <2>1, <2>2, <2>3, <2>4 DEF CountIsDue
<1>4. CASE ~Enter(t)
  <2>0. \A u \in Threads \ {t} : ~Inside(u) /\ ~Inside(u)'
    BY <1>1, <1>4, Exclusive DEF Inside
  <2>a. Inside(t) => mUnreadCount + Due(t) = Cardinality(Left)
    BY DEF CountIsDue
  <2>b. ~Inside(t) => mUnreadCount = Cardinality(Left)
    BY <2>0 DEF CountIsDue
  <2>c. SUFFICES /\ Inside(t)' => mUnreadCount' + Due(t)' = Cardinality(Left')
                 /\ ~Inside(t)' => mUnreadCount' = Cardinality(Left')
    BY <2>0 DEF CountIsDue
  <2>1. CASE Lock(t)
    <3>1. /\ UNCHANGED <<elems, isRead, mUnreadCount>> /\ pc[t] = "lock" /\ pc'[t] \in {"add", "remove", "read"}
      BY <1>0, <2>1 DEF Lock, GoTo
    <3>2. Left' = Left /\ Due(t)' = 0
      BY <3>1 DEF Left, Due
    <3>3. ~Inside(t) /\ Inside(t)'
      BY <3>1 DEF Inside
    <3> QED
      BY <1>2, <2>b, <3>1, <3>2, <3>3
  <2>2. CASE AddToList(t)
    <3>1. /\ ToSet(elems'[Own]) = ToSet(elems[Own]) \cup {arg[t]} /\ arg[t] \notin ToSet(elems[Own])
          /\ UNCHANGED <<isRead, mUnreadCount>>
      BY <2>2, HeldStep DEF AddToList
    <3>2. mUnreadCount = Cardinality(Left)
      BY <1>2, <2>2, <2>a DEF AddToList, GoTo, Inside, Due
    <3>3. CASE arg[t] \in isRead
      <4>1. Left' = Left /\ pc'[t] = "unlock"
        BY SMTT(30), <2>2, <3>1, <3>3 DEF AddToList, GoTo, Left
      <4> QED
        BY <1>2, <3>1, <3>2, <4>1 DEF Inside, Due
    <3>4. CASE arg[t] \notin isRead
      <4>1. Left' = Left \cup {arg[t]} /\ arg[t] \notin Left /\ pc'[t] = "plus"
        BY SMTT(30), <2>2, <3>1, <3>4 DEF AddToList, GoTo, Left
      <4>2. Cardinality(Left') = Cardinality(Left) + 1
        BY ONLY <1>2, <4>1, FS_AddElement
      <4> QED
        BY <1>2, <3>1, <3>2, <4>1, <4>2 DEF Inside, Due
    <3> QED
      BY <3>3, <3>4
  <2>3. CASE AskContains(t) \/ IndexOf(t) \/ Get(t) \/ OutOfBounds(t)
    <3>1. UNCHANGED <<op, arg, elems, isRead, mUnreadCount>> /\ Left' = Left
      BY <2>3 DEF AskContains, IndexOf, Get, OutOfBounds, Left
    <3>2. ~OutOfBounds(t)
      BY <1>0 DEF OutOfBounds, GoTo, Found, Indexed
    <3>3. /\ pc[t] \in {"add", "remove", "read", "get"} /\ pc'[t] \in {"append", "unlock", "get", "minus", "erase"}
          /\ pc'[t] = "minus" => op[t] = "remove"
          /\ pc'[t] = "erase" => arg[t] \in isRead
      BY SMTT(30), <1>0, <2>3, <3>2 DEF AskContains, IndexOf, Get, GoTo, Found, Indexed
    <3> QED
      BY <1>2, <2>a, <3>1, <3>3 DEF Inside, Due
  <2>4. CASE Erase(t)
    <3>1. /\ ToSet(elems'[Own]) = ToSet(elems[Own]) \ {arg[t]} /\ UNCHANGED <<isRead, mUnreadCount>>
          /\ pc[t] = "erase" /\ pc'[t] = "unlock" /\ arg[t] \in ToSet(elems[Own])
      BY <2>4, HeldStep DEF Erase, GoTo, AddToList
    <3>2. Left' = Left \ {arg[t]} /\ (arg[t] \in Left <=> arg[t] \notin isRead)
      BY <3>1 DEF Left
    <3>3. Cardinality(Left') = IF arg[t] \in Left THEN Cardinality(Left) - 1 ELSE Cardinality(Left)
      BY ONLY <1>2, <3>2, FS_RemoveElement
    <3> QED
      BY SMTT(30), <1>2, <2>a, <3>1, <3>2, <3>3 DEF Inside, Due
  <2>5. CASE MarkRead(t)
    <3>1. /\ UNCHANGED <<elems, mUnreadCount>> /\ pc[t] = "get" /\ pc'[t] = "minus" /\ op[t] = "read"
          /\ isRead' = isRead \cup {arg[t]} /\ arg[t] \in ToSet(elems[Own])
      BY <1>0, <2>5 DEF MarkRead, GoTo, Found, Indexed, ToSet
    <3>2. arg[t] \notin isRead
      <4>1. ASSUME arg[t] \in isRead
            PROVE  \E u \in Threads : op[u] = "read" /\ arg[u] = arg[t]
                                      /\ pc[u] \in {"minus", "minus2", "unlock", "done"}
        BY <4>1 DEF MarkedBy
      <4> QED
        BY <3>1, <4>1 DEF MarkedOnce
    <3>3. Left' = Left \ {arg[t]} /\ arg[t] \in Left
      BY <3>1, <3>2 DEF Left
    <3>4. Cardinality(Left') = Cardinality(Left) - 1
      BY ONLY <1>2, <3>3, FS_RemoveElement
    <3> QED
      BY <1>1, <1>2, <2>a, <3>1, <3>4 DEF Inside, Due
  <2>6. CASE Load(t)
    <3>1. /\ UNCHANGED <<op, arg, elems, isRead, mUnreadCount>> /\ Left' = Left
          /\ \/ pc[t] = "plus" /\ pc'[t] = "plus2"
             \/ pc[t] = "minus" /\ pc'[t] = "minus2"
      BY <2>6 DEF Load, GoTo, Left
    <3> QED
      BY <1>2, <2>a, <3>1 DEF Inside, Due
  <2>7. CASE Store(t)
    <3>1. UNCHANGED <<op, arg, elems, isRead>> /\ Left' = Left
      BY <2>7 DEF Store, Left
    <3>2. CASE pc[t] = "plus2"
      <4>1. pc'[t] = "unlock" /\ mUnreadCount' = mUnreadCount + 1
        BY <1>0, <2>7, <3>2 DEF Store, GoTo, Found
      <4> QED
        BY <1>2, <2>a, <3>1, <3>2, <4>1 DEF Inside, Due
    <3>3. CASE pc[t] = "minus2" /\ op[t] = "remove"
      <4>1. pc'[t] = "erase" /\ mUnreadCount' = mUnreadCount - 1 /\ arg[t] \notin isRead
        BY <1>0, <2>7, <3>3 DEF Store, GoTo, Found
      <4> QED
        BY <1>2, <2>a, <3>1, <3>3, <4>1 DEF Inside, Due
    <3>4. CASE pc[t] = "minus2" /\ op[t] = "read"
      <4>1. pc'[t] = "unlock" /\ mUnreadCount' = mUnreadCount - 1
        BY <1>0, <2>7, <3>4 DEF Store, GoTo, Found
      <4> QED
        BY <1>2, <2>a, <3>1, <3>4, <4>1 DEF Inside, Due
    <3> QED
      BY <1>0, <2>7, <3>2, <3>3, <3>4 DEF Store, GoTo, Places
  <2>8. CASE Unlock(t)
    <3>1. /\ UNCHANGED <<op, arg, elems, isRead, mUnreadCount>> /\ Left' = Left
          /\ pc[t] = "unlock" /\ pc'[t] = "done"
      BY <2>8 DEF Unlock, GoTo, Left
    <3> QED
      BY <1>2, <2>a, <3>1 DEF Inside, Due
  <2> QED
    BY ONLY <1>4, OwnSteps, LockInv, NoSet, t \in Threads, Step(t),
            <2>1, <2>2, <2>3, <2>4, <2>5, <2>6, <2>7, <2>8 DEF Body
<1> QED
  BY <1>3, <1>4

(* The inductive invariant of a chat: the monitors exclude, and the counter *)
(* is right up to what the call at work owes it.                            *)
THEOREM ChatSafety == ChatSpec => [](LockInv /\ CountInv)
<1>1. ASSUME ChatInit PROVE LockInv /\ CountInv
  <2> USE <1>1, ChatAssumption DEF ChatInit
  <2>1. pc \in [Threads -> {"call"}] /\ \A t \in Threads : pc[t] = "call" /\ ~Inside(t)
    BY DEF Inside
  <2>2. InPlace
    BY DEF InPlace, Places
  <2>3. ChatTypeOK
    BY DEF ChatTypeOK
  <2>4. MarkedBy
    BY DEF MarkedBy
  <2>5. ToSet(elems[Own]) = {} /\ Left = {} /\ NoRepeat(elems[Own])
    BY DEF Left, ToSet, NoRepeat
  <2>6. IsFiniteSet(ToSet(elems[Own])) /\ Cardinality(Left) = 0
    BY ONLY <2>5, FS_EmptySet
  <2>7. OneList
    BY <2>1, <2>5, <2>6 DEF OneList, Found, Indexed
  <2>8. CountIsDue
    BY <2>1, <2>6 DEF CountIsDue
  <2>9. OneMonitor
    BY DEF OneMonitor
  <2> QED
    BY <2>2, <2>3, <2>4, <2>7, <2>8, <2>9 DEF LockInv, CountInv
<1>2. ASSUME LockInv, CountInv, [ChatNext]_chatVars
      PROVE  LockInv' /\ CountInv'
  <2>1. LockInv'
    BY <1>2, LockStep
  <2>2. ASSUME NEW t \in Threads, Step(t) PROVE CountInv'
    <3>1. UNCHANGED <<op, arg>>
      BY <1>2, <2>2, StepFrame
    <3>2. (NoSet' <=> NoSet) /\ (MarkedOnce' <=> MarkedOnce)
      BY <3>1 DEF NoSet, MarkedOnce
    <3>3. NoSet => OneList' /\ MarkedBy'
      BY <1>2, <2>2, OneListStep, MarkedByStep DEF CountInv
    <3>4. NoSet /\ MarkedOnce => CountIsDue'
      BY <1>2, <2>2, DueStep DEF CountInv
    <3> QED
      BY <3>2, <3>3, <3>4 DEF CountInv
  <2>3. CASE UNCHANGED chatVars
    <3> USE <2>3 DEF chatVars
    <3>1. (NoSet' <=> NoSet) /\ (MarkedOnce' <=> MarkedOnce)
      BY DEF NoSet, MarkedOnce
    <3>2. (OneList => OneList') /\ (MarkedBy => MarkedBy')
      BY DEF OneList, Found, MarkedBy
    <3>3. \A t \in Threads : (Inside(t)' <=> Inside(t)) /\ Due(t)' = Due(t)
      BY DEF Inside, Due
    <3>4. Left' = Left
      BY DEF Left
    <3>5. CountIsDue => CountIsDue'
      BY <3>3, <3>4 DEF CountIsDue
    <3>6. NoSet => OneList /\ MarkedBy /\ (MarkedOnce => CountIsDue)
      BY <1>2 DEF CountInv
    <3> QED
      BY ONLY <2>1, <3>1, <3>2, <3>5, <3>6 DEF CountInv
  <2> QED
    BY <1>2, <2>1, <2>2, <2>3 DEF ChatNext
<1> QED
  BY <1>1, <1>2, PTL DEF ChatSpec

(* The monitors exclude, and when every call has returned the counter is    *)
(* the number of messages of the chat that are not read, whatever the       *)
(* threads did at one time, unless a list was set or a message marked twice.*)
THEOREM CountedUnderLockHolds == ChatSpec => []CountedUnderLock
<1>1. ASSUME LockInv, CountInv PROVE CountedUnderLock
  <2>1. ASSUME \A t \in Threads : pc[t] = "done" /\ op[t] # "set", MarkedOnce
        PROVE  mUnreadCount = Cardinality(ToSet(elems[mMessages]) \ isRead)
    BY <1>1, <2>1 DEF CountInv, NoSet, OneList, CountIsDue, Inside, Left
  <2> QED
    BY <1>1, <2>1 DEF LockInv, CountedUnderLock, CounterIsRight, MarkedOnce
<1> QED
  BY <1>1, ChatSafety, PTL

-----------------------------------------------------------------------------
(* With new lists, a list that is still to be set is nowhere in use, and a  *)
(* call of setMessages waits for a younger list than it holds.              *)
ToBeSet(t) == op[t] = "set" /\ pc[t] \in {"call", "lock", "set"}

Younger(t) ==
  /\ age[ref[t]] <= age[mMessages]
  /\ pc[t] = "reread" => age[ref[t]] < age[mMessages]
  /\ pc[t] = "relock" => age[ref[t]] < age[list[t]]
  /\ ToBeSet(t) => arg[t] # mMessages /\ \A u \in Threads : arg[t] # ref[u] /\ arg[t] # list[u]

AgeInv == FreshLists => \A t \in Threads : Younger(t)

LEMMA AgeStep ==
  ASSUME LockInv, FreshLists, \A t \in Threads : Younger(t), NEW t \in Threads, Step(t)
  PROVE  \A u \in Threads : Younger(u)'
<1> USE ChatAssumption DEF LockInv, ChatTypeOK
<1>0. /\ UNCHANGED <<op, arg>> /\ \A u \in Threads \ {t} : pc'[u] = pc[u]
      /\ pc[t] \in Places(op[t]) /\ op[t] \in {"add", "remove", "read", "set"}
  BY StepFrame DEF InPlace
<1>1. CASE UNCHANGED <<mMessages, ref, list, age>> /\ pc'[t] \notin {"reread", "relock"}
           /\ (pc'[t] = "lock" => pc[t] = "call") /\ (pc'[t] \in {"call", "set"} => pc[t] = "lock")
  <2> SUFFICES ASSUME NEW u \in Threads PROVE Younger(u)'
    OBVIOUS
  <2>1. Younger(u)
    OBVIOUS
  <2>2. /\ ToBeSet(u)' => ToBeSet(u)
        /\ (pc'[u] = "reread" => pc[u] = "reread") /\ (pc'[u] = "relock" => pc[u] = "relock")
    BY <1>0, <1>1 DEF ToBeSet
  <2> QED
    BY ONLY <1>0, <1>1, <2>1, <2>2 DEF Younger
<1>2. CASE Enter(t)
  <2>1. /\ UNCHANGED <<mMessages, list, age>> /\ ref' = [ref EXCEPT ![t] = mMessages]
        /\ pc[t] = "call" /\ pc'[t] = "lock"
    BY <1>2 DEF Enter, GoTo
  <2> SUFFICES ASSUME NEW u \in Threads PROVE Younger(u)'
    OBVIOUS
  <2>2. /\ ToBeSet(u)' => ToBeSet(u)
        /\ (pc'[u] = "reread" => pc[u] = "reread" /\ u # t)
        /\ (pc'[u] = "relock" => pc[u] = "relock" /\ u # t)
    BY <1>0, <2>1 DEF ToBeSet
  <2>3. /\ \A v \in Threads : ref'[v] = ref[v] \/ ref'[v] = mMessages
        /\ u # t => ref'[u] = ref[u]
        /\ age[mMessages] <= age[mMessages]
    BY <2>1
  <2> QED
    BY SMTT(30), <1>0, <2>1, <2>2, <2>3 DEF Younger
<1>3. CASE SetField(t)
  <2>1. /\ mMessages' = arg[t] /\ UNCHANGED <<ref, list>> /\ pc[t] = "set" /\ pc'[t] = "reread"
        /\ age' = [age EXCEPT ![arg[t]] = age[mMessages] + 1]
    BY <1>3 DEF SetField, GoTo
  <2>2. op[t] = "set" /\ arg[t] \in Lists
    BY <1>0, <2>1 DEF Places, InPlace
  <2>3. /\ age'[mMessages'] = age[mMessages] + 1
        /\ \A u \in Threads : age'[ref[u]] = age[ref[u]] /\ age'[list[u]] = age[list[u]]
    BY <2>1, <2>2 DEF Younger, ToBeSet
  <2>4. ASSUME NEW u \in Threads
        PROVE  /\ age'[ref'[u]] < age'[mMessages'] /\ age'[ref'[u]] <= age'[mMessages']
               /\ pc'[u] = "relock" => age'[ref'[u]] < age'[list'[u]]
    <3>1. age[ref[u]] <= age[mMessages] /\ age[ref[u]] \in Nat /\ age[mMessages] \in Nat
          /\ (pc[u] = "relock" => age[ref[u]] < age[list[u]])
      BY DEF Younger
    <3>2. pc'[u] = "relock" => pc[u] = "relock" /\ u # t
      BY <1>0, <2>1
    <3>3. age'[ref'[u]] = age[ref[u]] /\ age'[list'[u]] = age[list[u]]
      BY <2>1, <2>3
    <3> QED
      BY ONLY <2>3, <3>1, <3>2, <3>3
  <2>5. ASSUME NEW u \in Threads, ToBeSet(u)'
        PROVE  arg'[u] # mMessages' /\ \A v \in Threads : arg'[u] # ref'[v] /\ arg'[u] # list'[v]
    <3>1. u # t /\ ToBeSet(u)
      BY <1>0, <2>1, <2>5 DEF ToBeSet
    <3>2. arg[u] # arg[t]
      BY <2>2, <3>1 DEF FreshLists, ToBeSet
    <3> QED
      BY <1>0, <2>1, <3>1, <3>2 DEF Younger
  <2> QED
    BY <2>4, <2>5 DEF Younger
<1>4. CASE Reread(t)
  <2>1. /\ UNCHANGED <<mMessages, ref, age>> /\ list' = [list EXCEPT ![t] = mMessages]
        /\ pc[t] = "reread" /\ pc'[t] = "relock"
    BY <1>4 DEF Reread, GoTo
  <2> SUFFICES ASSUME NEW u \in Threads PROVE Younger(u)'
    OBVIOUS
  <2>2. /\ ToBeSet(u)' => ToBeSet(u)
        /\ (pc'[u] = "reread" => pc[u] = "reread" /\ u # t)
        /\ (pc'[u] = "relock" => (IF u = t THEN pc[u] = "reread" ELSE pc[u] = "relock"))
    BY <1>0, <2>1 DEF ToBeSet
  <2>3. /\ \A v \in Threads : list'[v] = list[v] \/ list'[v] = mMessages
        /\ IF u = t THEN list'[u] = mMessages ELSE list'[u] = list[u]
    BY <2>1
  <2> QED
    BY SMTT(30), <1>0, <2>1, <2>2, <2>3 DEF Younger
<1>5. CASE Iterator(t)
  <2>1. /\ UNCHANGED <<mMessages, ref, age>> /\ list' = [list EXCEPT ![t] = mMessages]
        /\ pc[t] = "zero" /\ pc'[t] = "hasNext"
    BY <1>5 DEF Iterator, GoTo
  <2> SUFFICES ASSUME NEW u \in Threads PROVE Younger(u)'
    OBVIOUS
  <2>2. /\ ToBeSet(u)' => ToBeSet(u)
        /\ (pc'[u] = "reread" => pc[u] = "reread" /\ u # t)
        /\ (pc'[u] = "relock" => (IF u = t THEN pc[u] = "reread" ELSE pc[u] = "relock"))
    BY <1>0, <2>1 DEF ToBeSet
  <2>3. /\ \A v \in Threads : list'[v] = list[v] \/ list'[v] = mMessages
        /\ IF u = t THEN list'[u] = mMessages ELSE list'[u] = list[u]
    BY <2>1
  <2> QED
    BY SMTT(30), <1>0, <2>1, <2>2, <2>3 DEF Younger
<1>6. CASE Lock(t)
  <2>1. /\ UNCHANGED <<mMessages, ref, list, age>> /\ pc[t] = "lock"
        /\ pc'[t] \in {"add", "remove", "read", "set"}
    BY <1>0, <1>6 DEF Lock, GoTo
  <2> QED
    BY <1>1, <2>1
<1>7. CASE Body(t)
  BY <1>1, <1>7, BodyFrame
<1>8. CASE Relock(t)
  BY <1>1, <1>8 DEF Relock, GoTo
<1>9. CASE HasNext(t)
  BY <1>1, <1>9 DEF HasNext, GoTo
<1>10. CASE CountNext(t)
  <2>1. /\ UNCHANGED <<mMessages, ref, list, age>> /\ pc[t] = "next"
        /\ pc'[t] \in {"hasNext", "plus", "unlock"}
    BY <1>10 DEF CountNext, GoTo
  <2> QED
    BY <1>1, <2>1
<1>11. CASE Unlock(t)
  BY <1>1, <1>11 DEF Unlock, GoTo
<1> QED
  BY ONLY Step(t), t \in Threads, StepKinds, <1>2, <1>3, <1>4, <1>5, <1>6, <1>7, <1>8, <1>9, <1>10, <1>11

(* Of any calls, one holds the youngest list.                               *)
LEMMA Youngest ==
  ASSUME LockInv, \A t \in Threads : Younger(t), NEW T \in SUBSET Threads, T # {}
  PROVE  \E t \in T : \A u \in T : ~(age[ref[t]] < age[ref[u]])
<1> USE DEF LockInv, ChatTypeOK
<1> DEFINE Distance == {age[mMessages] - age[ref[t]] : t \in T}
<1>1. \A t \in T : age[mMessages] - age[ref[t]] \in Nat /\ age[ref[t]] \in Nat /\ age[mMessages] \in Nat
  BY DEF Younger
<1>2. Distance \subseteq Nat /\ Distance # {}
  BY <1>1
<1>3. PICK d \in Distance : \A e \in Distance : ~(<<e, d>> \in OpToRel(<, Nat))
  <2> HIDE DEF Distance
  <2> QED
    BY ONLY <1>2, NatLessThanWellFounded, WFMin
<1>4. \A e \in Distance : ~(e < d)
  BY <1>2, <1>3 DEF OpToRel
<1>5. PICK t \in T : d = age[mMessages] - age[ref[t]]
  BY <1>3
<1>6. ASSUME NEW u \in T PROVE ~(age[ref[t]] < age[ref[u]])
  <2>1. ~(age[mMessages] - age[ref[u]] < age[mMessages] - age[ref[t]])
    BY <1>4, <1>5
  <2>2. /\ age[mMessages] \in Nat /\ age[ref[t]] \in Nat /\ age[ref[u]] \in Nat
    BY <1>1
  <2> QED
    BY ONLY <2>1, <2>2
<1> QED
  BY <1>6

(* Calls of setMessages that give the chat new lists only, whatever their   *)
(* number and order, never stop in the nested monitors: each of them waits  *)
(* for a list younger than the one it holds.                                *)
THEOREM FreshListsNeverCross == ChatSpec => [](FreshLists => ~CrossedSets)
<1>1. ChatInit => AgeInv
  BY ChatAssumption DEF ChatInit, AgeInv, Younger, ToBeSet, FreshLists
<1>2. ASSUME LockInv, AgeInv, [ChatNext]_chatVars PROVE AgeInv'
  <2>1. ASSUME NEW t \in Threads, Step(t) PROVE AgeInv'
    <3>1. UNCHANGED <<op, arg>>
      BY <1>2, <2>1, StepFrame
    <3>2. FreshLists' <=> FreshLists
      BY <3>1 DEF FreshLists
    <3> QED
      BY <1>2, <2>1, <3>2, AgeStep DEF AgeInv
  <2>2. CASE UNCHANGED chatVars
    BY <1>2, <2>2 DEF chatVars, AgeInv, Younger, ToBeSet, FreshLists
  <2> QED
    BY <1>2, <2>1, <2>2 DEF ChatNext
<1>3. ASSUME LockInv, AgeInv, FreshLists, CrossedSets PROVE FALSE
  <2>1. PICK T \in (SUBSET Threads) \ {{}} :
          \A t \in T : pc[t] = "relock" /\ owner[list[t]] \in T \ {t}
    BY <1>3 DEF CrossedSets
  <2>2. PICK t \in T : \A u \in T : ~(age[ref[t]] < age[ref[u]])
    <3>1. T \in SUBSET Threads /\ T # {} /\ \A x \in Threads : Younger(x)
      BY <1>3, <2>1 DEF AgeInv
    <3> QED
      BY ONLY <1>3, <3>1, Youngest
  <2>3. PICK u \in T : owner[list[t]] = u
    BY <2>1
  <2>4. list[t] = ref[u] /\ age[ref[t]] < age[list[t]]
    <3>1. /\ t \in Threads /\ u \in Threads /\ list[t] \in Lists
          /\ pc[t] = "relock" /\ pc[u] = "relock" /\ owner[list[t]] = u
      BY <1>3, <2>1, <2>3 DEF LockInv, ChatTypeOK
    <3>2. list[t] = ref[u]
      BY <1>3, <3>1 DEF LockInv, OneMonitor
    <3>3. Younger(t)
      BY <1>3, <3>1 DEF AgeInv
    <3> QED
      BY <3>1, <3>2, <3>3 DEF Younger
  <2> QED
    BY <2>2, <2>4
<1>4. LockInv /\ AgeInv => (FreshLists => ~CrossedSets)
  BY <1>3
<1>5. LockInv /\ CountInv => LockInv
  OBVIOUS
<1> QED
  BY <1>1, <1>2, <1>4, <1>5, ChatSafety, PTL DEF ChatSpec

====

----------------------------- MODULE IMStorage -----------------------------
(***************************************************************************)
(* AbstractIMStorage with its AbstractCommunicationChats, called from one  *)
(* thread.  A message is known to the storage twice: by its id, in         *)
(* mMessagesMap, and in the list of a chat.  Two message objects are equal *)
(* when their ids are, so a copy received again stands for the first one.  *)
(* The chats are kept in a map by their ids (CID), while deleteMessage      *)
(* looks in that map for the two users of the message (U, whatever the      *)
(* subclass takes for the two types): it finds a chat only when its key is  *)
(* equal to the recipient or to the sender.                                 *)
(***************************************************************************)
EXTENDS Integers, FiniteSets, FiniteSetsExt

CONSTANTS
  Ids,
  Objects,    \* the message objects
  IdOf,       \* mId of each object
  Chats,      \* the ids of the chats, the keys of mChatsMap
  Home,       \* the chats the client adds a message to, by its id
  Users,      \* the user objects: some, all or none of them are chat ids
  Recipient,  \* the users of each message
  Sender,
  None

ASSUME StorageAssumption ==
  /\ IdOf \in [Objects -> Ids] /\ None \notin Objects
  /\ Home \in [Ids -> SUBSET Chats]
  /\ Recipient \in [Ids -> Users] /\ Sender \in [Ids -> Users]

VARIABLES
  chats,      \* the keys of mChatsMap
  messages,   \* mMessages of each chat: no two objects of one id
  unread,     \* mUnreadCount of each chat
  byId,       \* mMessagesMap
  read,       \* the objects whose isRead is set
  remarked    \* history: a message that was read was marked as read again

vars == <<chats, messages, unread, byId, read, remarked>>

Init ==
  /\ chats = {} /\ messages = [c \in Chats |-> {}] /\ unread = [c \in Chats |-> 0]
  /\ byId = [i \in Ids |-> None] /\ read = {} /\ remarked = FALSE

(* indexOf and get: the object of the list that is equal to o.              *)
Equal(c, o) == {p \in messages[c] : IdOf[p] = IdOf[o]}

-----------------------------------------------------------------------------
(* AbstractCommunicationChat                                                *)

(* Mutant: contains is not asked.                                           *)
AddToAlways(c, o) ==
  /\ messages' = [messages EXCEPT ![c] = @ \cup {o}]
  /\ unread' = IF o \in read THEN unread ELSE [unread EXCEPT ![c] = @ + 1]

(* addMessage of the chat                                                   *)
AddTo(c, o) ==
  IF Equal(c, o) # {}
    THEN UNCHANGED <<messages, unread>>
    ELSE /\ messages' = [messages EXCEPT ![c] = @ \cup {o}]
         /\ unread' = IF o \in read THEN unread ELSE [unread EXCEPT ![c] = @ + 1]

(* removeMessage of each chat in cs                                         *)
RemoveFrom(cs, o) ==
  /\ messages' = [c \in Chats |-> IF c \in cs THEN messages[c] \ Equal(c, o) ELSE messages[c]]
  /\ unread' = [c \in Chats |->
                  IF c \in cs THEN unread[c] - Cardinality(Equal(c, o) \ read) ELSE unread[c]]

RemoveMessage(c, o) ==
  /\ c \in chats
  /\ RemoveFrom({c}, o)
  /\ UNCHANGED <<chats, byId, read, remarked>>

(* setMessageRead of the chat, which does not ask for isRead.  Bound: a     *)
(* message that is read is marked again once.                               *)
SetMessageRead(c, o) ==
  /\ c \in chats /\ Equal(c, o) # {}
  /\ \/ Equal(c, o) \cap read = {} /\ UNCHANGED remarked
     \/ Equal(c, o) \cap read # {} /\ ~remarked /\ remarked' = TRUE
  /\ read' = read \cup Equal(c, o)
  /\ unread' = [unread EXCEPT ![c] = @ - 1]
  /\ UNCHANGED <<chats, messages, byId>>

-----------------------------------------------------------------------------
(* AbstractIMStorage                                                        *)

(* getChatById makes the chat that is not there.                            *)
GetChatById(c) ==
  /\ chats' = chats \cup {c}
  /\ UNCHANGED <<messages, unread, byId, read, remarked>>

(* addMessage: the map is written whether or not the chat takes the object. *)
AddMessage(c, o) ==
  /\ c \in Home[IdOf[o]]
  /\ chats' = chats \cup {c}
  /\ byId' = [byId EXCEPT ![IdOf[o]] = o]
  /\ AddTo(c, o)
  /\ UNCHANGED <<read, remarked>>

(* The chats mChatsMap.get finds under the recipient and the sender.        *)
FoundChats(o) == {Recipient[IdOf[o]], Sender[IdOf[o]]} \cap chats

(* Mutant: the sender's chat is not looked up.                              *)
DeleteForRecipient(o) ==
  /\ RemoveFrom({Recipient[IdOf[o]]} \cap chats, o)
  /\ byId' = [byId EXCEPT ![IdOf[o]] = None]
  /\ UNCHANGED <<chats, read, remarked>>

(* deleteMessage, which returns whether it found a chat                     *)
Delete(o) ==
  /\ RemoveFrom(FoundChats(o), o)
  /\ byId' = [byId EXCEPT ![IdOf[o]] = None]
  /\ UNCHANGED <<chats, read, remarked>>

DeleteMessage(o) == Delete(o)

DeleteMessageById(i) ==
  \/ /\ byId[i] = None
     /\ UNCHANGED vars
  \/ byId[i] # None /\ Delete(byId[i])

(* removeAllChats clears mChatsMap only; the chats that getChatById makes   *)
(* afterwards are new and empty.                                            *)
RemoveAllChats ==
  /\ chats' = {} /\ messages' = [c \in Chats |-> {}] /\ unread' = [c \in Chats |-> 0]
  /\ UNCHANGED <<byId, read, remarked>>

(* getUnreadMessageCount: the sum over the chats of the map.                *)
Total(f) == MapThenSumSet(LAMBDA c : f[c], chats)
UnreadMessageCount == Total(unread)

-----------------------------------------------------------------------------
Next ==
  \/ \E c \in Chats : GetChatById(c)
  \/ \E c \in Chats, o \in Objects : AddMessage(c, o) \/ RemoveMessage(c, o) \/ SetMessageRead(c, o)
  \/ \E o \in Objects : DeleteMessage(o)
  \/ \E i \in Ids : DeleteMessageById(i)
  \/ RemoveAllChats

Spec == Init /\ [][Next]_vars

-----------------------------------------------------------------------------
(* Every variable has the type the code gives it, and a chat counts below   *)
(* zero only when a message was marked as read twice.                       *)
TypeOK ==
  /\ chats \subseteq Chats /\ messages \in [Chats -> SUBSET Objects]
  /\ unread \in [Chats -> Int] /\ byId \in [Ids -> Objects \cup {None}]
  /\ read \subseteq Objects /\ remarked \in BOOLEAN
  /\ ~remarked => \A c \in Chats : unread[c] >= 0

(* getUnreadMessageCount is the number of messages in the storage that are  *)
(* not read, whichever copies of them were added, marked and deleted.       *)
UnreadIsCount ==
  ~remarked => UnreadMessageCount = Total([c \in Chats |-> Cardinality(messages[c] \ read)])

(* The counters agree with the chats and are never negative.                *)
CountersAgree == TypeOK /\ UnreadIsCount

(* A message that is in the chat of its sender or of its recipient can be   *)
(* found by its id: whatever was added, deleted and added again through     *)
(* whichever copy, the two indexes lose it together there.  In a chat with  *)
(* another key it may be left behind without its id: see DeleteIsWhole.     *)
ChatsAreIndexed ==
  \A c \in chats : \A o \in messages[c] :
    c \in {Recipient[IdOf[o]], Sender[IdOf[o]]} => byId[IdOf[o]] # None

-----------------------------------------------------------------------------
(* What the documentation says and the code does not do.                    *)

(* "Delete message.  @return true if message was found and deleted"         *)
(* (deleteMessage): with true the message is in no chat and not in the map  *)
(* of ids, with false nothing has changed.                                  *)
DeleteIsWhole ==
  [][\A o \in Objects : DeleteMessage(o) =>
       \/ /\ FoundChats(o) # {}
          /\ byId'[IdOf[o]] = None
          /\ \A c \in Chats : \A p \in messages'[c] : IdOf[p] # IdOf[o]
       \/ FoundChats(o) = {} /\ UNCHANGED vars]_vars

=============================================================================

------------------------------ MODULE ChatLock ------------------------------
(***************************************************************************)
(* One AbstractCommunicationChat used by several threads: addMessage,      *)
(* removeMessage, setMessageRead and setMessages, each holding the monitor *)
(* of the list object that mMessages named when the method began, while    *)
(* every statement of the body reads the field mMessages again.  Each      *)
(* thread makes one call, with any message or any list, so that two        *)
(* setMessages may cross and a list may be set that was there before.  A   *)
(* call of ArrayList is one step; an exception of a list that changed      *)
(* meanwhile leaves the method and gives its monitors back.                *)
(***************************************************************************)
EXTENDS Integers, FiniteSets, SequencesExt

CONSTANTS
  Threads,
  Messages,   \* message objects with different ids
  Lists,      \* the list objects
  Own,        \* the list the constructor makes
  Content,    \* what each list holds at the start
  Ops,        \* the calls a thread may make
  Nobody

ASSUME ChatAssumption ==
  /\ Own \in Lists /\ Nobody \notin Threads /\ Nobody \notin Lists
  /\ Content \in [Lists -> Seq(Messages)] /\ Content[Own] = <<>>
  /\ Ops \subseteq {"add", "remove", "read", "set"}

VARIABLES
  op,        \* the call each thread makes, and
  arg,       \* its argument: a message, or a list for setMessages
  mMessages, \* the list object
  elems,     \* what each list holds
  isRead,    \* messages whose isRead is set
  mUnreadCount,
  owner,     \* who holds the monitor of each list
  pc,        \* where each thread is
  ref,       \* the list whose monitor its method has asked for
  list,      \* setMessages: the list of its second monitor, then of its loop
  at,        \* the index a call has found, or that of its iterator
  stale,     \* threads whose iterator is over a list that has changed
  tmp,       \* mUnreadCount as read by ++ or --
  age        \* history: how many lists were set before each list was

chatVars == <<op, arg, mMessages, elems, isRead, mUnreadCount, owner, pc, ref, list, at, stale, tmp, age>>

ChatInit ==
  /\ op \in [Threads -> Ops] /\ arg \in [Threads -> Messages \cup Lists]
  /\ \A t \in Threads : arg[t] \in IF op[t] = "set" THEN Lists ELSE Messages
  /\ mMessages = Own /\ elems = Content /\ isRead = {} /\ mUnreadCount = 0
  /\ owner = [l \in Lists |-> Nobody]
  /\ pc = [t \in Threads |-> "call"] /\ ref = [t \in Threads |-> Own]
  /\ list = [t \in Threads |-> Own] /\ at = [t \in Threads |-> 0] /\ stale = {}
  /\ tmp = [t \in Threads |-> 0] /\ age = [l \in Lists |-> 0]

GoTo(t, from, to) == pc[t] = from /\ pc' = [pc EXCEPT ![t] = to]

(* The loop of setMessages.                                                 *)
Counting == {"hasNext", "next", "plus", "plus2"}

(* The iterators over the list that a call changes are out of date.         *)
Outdate(l) ==
  stale' = stale \cup {u \in Threads : op[u] = "set" /\ pc[u] \in Counting /\ list[u] = l}

(* synchronized (mMessages): the field is read, then its monitor is taken.  *)
Enter(t) ==
  /\ GoTo(t, "call", "lock")
  /\ ref' = [ref EXCEPT ![t] = mMessages]
  /\ UNCHANGED <<op, arg, mMessages, elems, isRead, mUnreadCount, owner, list, at, stale, tmp, age>>

Lock(t) ==
  /\ GoTo(t, "lock", op[t])
  /\ owner[ref[t]] = Nobody
  /\ owner' = [owner EXCEPT ![ref[t]] = t]
  /\ UNCHANGED <<op, arg, mMessages, elems, isRead, mUnreadCount, ref, list, at, stale, tmp, age>>

(* addMessage: contains, then add and the test of isRead.                   *)
AskContains(t) ==
  /\ GoTo(t, "add", IF Contains(elems[mMessages], arg[t]) THEN "unlock" ELSE "append")
  /\ UNCHANGED <<op, arg, mMessages, elems, isRead, mUnreadCount, owner, ref, list, at, stale, tmp, age>>

AddToList(t) ==
  /\ GoTo(t, "append", IF arg[t] \in isRead THEN "unlock" ELSE "plus")
  /\ elems' = [elems EXCEPT ![mMessages] = Append(@, arg[t])]
  /\ Outdate(mMessages)
  /\ UNCHANGED <<op, arg, mMessages, isRead, mUnreadCount, owner, ref, list, at, tmp, age>>

(* removeMessage and setMessageRead: indexOf.                               *)
IndexOf(t) ==
  /\ \/ /\ ~Contains(elems[mMessages], arg[t])
        /\ GoTo(t, op[t], "unlock")
        /\ UNCHANGED at
     \/ \E i \in DOMAIN elems[mMessages] :
          /\ elems[mMessages][i] = arg[t]
          /\ \A j \in 1 .. i - 1 : elems[mMessages][j] # arg[t]
          /\ GoTo(t, op[t], "get")
          /\ at' = [at EXCEPT ![t] = i]
  /\ op[t] \in {"remove", "read"}
  /\ UNCHANGED <<op, arg, mMessages, elems, isRead, mUnreadCount, owner, ref, list, stale, tmp, age>>

(* The call of an index that the list does not have any more throws.        *)
OutOfBounds(t) ==
  /\ at[t] \notin DOMAIN elems[mMessages]
  /\ GoTo(t, "get", "unlock") \/ GoTo(t, "erase", "unlock")
  /\ UNCHANGED <<op, arg, mMessages, elems, isRead, mUnreadCount, owner, ref, list, at, stale, tmp, age>>

(* Mutant: the counter is decremented for a message that is read, too.      *)
GetBlindly(t) ==
  /\ op[t] = "remove" /\ at[t] \in DOMAIN elems[mMessages]
  /\ GoTo(t, "get", "minus")
  /\ UNCHANGED <<op, arg, mMessages, elems, isRead, mUnreadCount, owner, ref, list, at, stale, tmp, age>>

(* removeMessage: get and the test of isRead; remove when the counter is    *)
(* done.                                                                    *)
Get(t) ==
  /\ op[t] = "remove" /\ at[t] \in DOMAIN elems[mMessages]
  /\ GoTo(t, "get", IF elems[mMessages][at[t]] \in isRead THEN "erase" ELSE "minus")
  /\ UNCHANGED <<op, arg, mMessages, elems, isRead, mUnreadCount, owner, ref, list, at, stale, tmp, age>>

Erase(t) ==
  /\ GoTo(t, "erase", "unlock")
  /\ at[t] \in DOMAIN elems[mMessages]
  /\ elems' = [elems EXCEPT ![mMessages] = RemoveAt(@, at[t])]
  /\ Outdate(mMessages)
  /\ UNCHANGED <<op, arg, mMessages, isRead, mUnreadCount, owner, ref, list, at, tmp, age>>

(* setMessageRead: get and setRead(true).                                   *)
MarkRead(t) ==
  /\ op[t] = "read" /\ at[t] \in DOMAIN elems[mMessages]
  /\ GoTo(t, "get", "minus")
  /\ isRead' = isRead \cup {elems[mMessages][at[t]]}
  /\ UNCHANGED <<op, arg, mMessages, elems, mUnreadCount, owner, ref, list, at, stale, tmp, age>>

(* mUnreadCount++ and mUnreadCount--: a read and a write.                   *)
Load(t) ==
  /\ GoTo(t, "plus", "plus2") \/ GoTo(t, "minus", "minus2")
  /\ tmp' = [tmp EXCEPT ![t] = mUnreadCount]
  /\ UNCHANGED <<op, arg, mMessages, elems, isRead, mUnreadCount, owner, ref, list, at, stale, age>>

Store(t) ==
  /\ \/ /\ GoTo(t, "plus2", IF op[t] = "set" THEN "hasNext" ELSE "unlock")
        /\ mUnreadCount' = tmp[t] + 1
     \/ /\ GoTo(t, "minus2", IF op[t] = "remove" THEN "erase" ELSE "unlock")
        /\ mUnreadCount' = tmp[t] - 1
  /\ UNCHANGED <<op, arg, mMessages, elems, isRead, owner, ref, list, at, stale, tmp, age>>

-----------------------------------------------------------------------------
(* setMessages                                                              *)

(* The field is replaced, and read again for the second monitor.            *)
SetField(t) ==
  /\ GoTo(t, "set", "reread")
  /\ mMessages' = arg[t]
  /\ age' = [age EXCEPT ![arg[t]] = age[mMessages] + 1]
  /\ UNCHANGED <<op, arg, elems, isRead, mUnreadCount, owner, ref, list, at, stale, tmp>>

Reread(t) ==
  /\ GoTo(t, "reread", "relock")
  /\ list' = [list EXCEPT ![t] = mMessages]
  /\ UNCHANGED <<op, arg, mMessages, elems, isRead, mUnreadCount, owner, ref, at, stale, tmp, age>>

Relock(t) ==
  /\ GoTo(t, "relock", "zero")
  /\ owner[list[t]] \in {Nobody, t}
  /\ owner' = [owner EXCEPT ![list[t]] = t]
  /\ mUnreadCount' = 0
  /\ UNCHANGED <<op, arg, mMessages, elems, isRead, ref, list, at, stale, tmp, age>>

(* The loop reads the field once more.                                      *)
Iterator(t) ==
  /\ GoTo(t, "zero", "hasNext")
  /\ list' = [list EXCEPT ![t] = mMessages]
  /\ at' = [at EXCEPT ![t] = 0] /\ stale' = stale \ {t}
  /\ UNCHANGED <<op, arg, mMessages, elems, isRead, mUnreadCount, owner, ref, tmp, age>>

HasNext(t) ==
  /\ GoTo(t, "hasNext", IF at[t] = Len(elems[list[t]]) THEN "unlock" ELSE "next")
  /\ UNCHANGED <<op, arg, mMessages, elems, isRead, mUnreadCount, owner, ref, list, at, stale, tmp, age>>

(* Mutant: the loop steps over unread messages only.                        *)
CountNextSticks(t) ==
  LET m == elems[list[t]][at[t] + 1]
  IN  /\ \/ t \in stale /\ GoTo(t, "next", "unlock") /\ UNCHANGED at
         \/ /\ t \notin stale /\ GoTo(t, "next", IF m \in isRead THEN "hasNext" ELSE "plus")
            /\ at' = IF m \in isRead THEN at ELSE [at EXCEPT ![t] = @ + 1]
      /\ UNCHANGED <<op, arg, mMessages, elems, isRead, mUnreadCount, owner, ref, list, stale, tmp, age>>

(* next() throws when the list has changed since the iterator was made.     *)
CountNext(t) ==
  LET m == elems[list[t]][at[t] + 1]
  IN  /\ \/ t \in stale /\ GoTo(t, "next", "unlock") /\ UNCHANGED at
         \/ /\ t \notin stale /\ GoTo(t, "next", IF m \in isRead THEN "hasNext" ELSE "plus")
            /\ at' = [at EXCEPT ![t] = @ + 1]
      /\ UNCHANGED <<op, arg, mMessages, elems, isRead, mUnreadCount, owner, ref, list, stale, tmp, age>>

(* The end of the synchronized blocks, by a return or an exception.         *)
Unlock(t) ==
  /\ GoTo(t, "unlock", "done")
  /\ owner' = [l \in Lists |-> IF owner[l] = t THEN Nobody ELSE owner[l]]
  /\ UNCHANGED <<op, arg, mMessages, elems, isRead, mUnreadCount, ref, list, at, stale, tmp, age>>

Step(t) ==
  \/ Enter(t) \/ Lock(t) \/ AskContains(t) \/ AddToList(t) \/ IndexOf(t) \/ OutOfBounds(t) \/ Get(t)
  \/ Erase(t) \/ MarkRead(t) \/ Load(t) \/ Store(t) \/ SetField(t) \/ Reread(t) \/ Relock(t)
  \/ Iterator(t) \/ HasNext(t) \/ CountNext(t) \/ Unlock(t)

ChatNext == \E t \in Threads : Step(t)

ChatSpec == ChatInit /\ [][ChatNext]_chatVars /\ \A t \in Threads : WF_chatVars(Step(t))

-----------------------------------------------------------------------------
(* Every variable has the type the code gives it, and a call between its    *)
(* lock and its return holds the monitor it asked for.                      *)
ChatTypeOK ==
  /\ op \in [Threads -> Ops] /\ arg \in [Threads -> Messages \cup Lists]
  /\ mMessages \in Lists /\ elems \in [Lists -> Seq(Messages)] /\ isRead \subseteq Messages
  /\ mUnreadCount \in Int /\ owner \in [Lists -> Threads \cup {Nobody}]
  /\ pc \in [Threads -> {"call", "lock", "append", "get", "plus", "plus2", "minus", "minus2", "erase",
                         "reread", "relock", "zero", "hasNext", "next", "unlock", "done"} \cup Ops]
  /\ ref \in [Threads -> Lists] /\ list \in [Threads -> Lists] /\ at \in [Threads -> Nat]
  /\ stale \subseteq Threads /\ tmp \in [Threads -> Int] /\ age \in [Lists -> Nat]
  /\ \A t \in Threads : pc[t] \notin {"call", "lock", "done"} => owner[ref[t]] = t

(* When every call has returned, the counter is the number of unread        *)
(* messages in the list, whatever the order of the calls, unless the list   *)
(* was replaced or a message marked as read twice.                          *)
CounterIsRight ==
  (/\ \A t \in Threads : pc[t] = "done" /\ op[t] # "set"
   /\ \A t, u \in Threads : op[t] = "read" /\ op[u] = "read" /\ arg[t] = arg[u] => t = u)
     => mUnreadCount = Cardinality(ToSet(elems[mMessages]) \ isRead)

(* The monitors exclude (a call works in the monitor it has asked for), and *)
(* the counter comes out right.                                             *)
CountedUnderLock == ChatTypeOK /\ CounterIsRight

(* Every list given to setMessages is a new one.                            *)
FreshLists ==
  /\ \A t \in Threads : op[t] = "set" => arg[t] # Own
  /\ \A t, u \in Threads : op[t] = "set" /\ op[u] = "set" /\ arg[t] = arg[u] => t = u

(* Calls of setMessages that each have their first monitor and wait for the *)
(* second, which is the first one of another of them: they wait for ever.   *)
CrossedSets ==
  \E T \in (SUBSET Threads) \ {{}} : \A t \in T : pc[t] = "relock" /\ owner[list[t]] \in T \ {t}

(* Every call returns or throws, with its monitors given back, however the  *)
(* threads and the lists they set interfere, with one exception: calls of   *)
(* setMessages may cross in their nested monitors (58-60) and stop, and     *)
(* only when a list is set that is the chat's own or is set twice.          *)
CallsReturn ==
  <>(\/ \A t \in Threads : pc[t] = "done"
     \/ ~FreshLists /\ CrossedSets)

=============================================================================

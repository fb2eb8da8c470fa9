---------------------------- MODULE UDPDiscovery ----------------------------
(***************************************************************************)
(* UDPBroadcastDiscovery: startDiscovery and stopDiscovery, called from    *)
(* any thread, the sender thread (mBackgroundSender) and the receiver      *)
(* thread (mBackgroundReceiver) of each run, and the fields they share     *)
(* without a lock.  A run is one call of startDiscovery that got past its  *)
(* test: it has a socket, a sender thread and a receiver thread, unless     *)
(* making the socket fails.                                                *)
(***************************************************************************)
EXTENDS Integers, FiniteSets

CONSTANTS
  Callers,   \* the threads that call startDiscovery
  MaxRuns,   \* bound: number of runs
  Retries    \* mRetryCount

ASSUME DiscoveryAssumption ==
  MaxRuns \in Nat /\ Retries \in Nat

Runs == 1 .. MaxRuns
None == 0

VARIABLES
  isWorking,
  mSocket,          \* the run whose socket the field holds, or None
  mSenderThread,    \* the run whose thread the field holds, or None
  mReceiverThread,
  open,             \* the runs whose socket is open
  made,             \* number of runs made so far
  call,             \* where each caller is in startDiscovery, and
  mine,             \* the run it is making
  sender,           \* where the sender thread of each run is
  count,            \* count of its loop
  awaited,          \* the receiver thread it joins
  receiver,         \* where the receiver thread of each run is
  reported,         \* runs whose end was reported (onDiscoveryFinished)
  rushed,           \* history: runs started while the last one was leaving
  clashed           \* history: two callers were in startDiscovery at once

vars == <<isWorking, mSocket, mSenderThread, mReceiverThread, open, made, call, mine, sender,
          count, awaited, receiver, reported, rushed, clashed>>

fields == <<isWorking, mSocket, mSenderThread, mReceiverThread, open>>
calls == <<made, call, mine>>

CallPcs == {"idle", "socket", "timeout", "assign", "start"}
SenderPcs == {"new", "unmade", "begin", "makeReceiver", "startReceiver", "loop", "send", "stopWork", "alive",
              "join", "clearSender", "clearReceiver", "close", "finish", "done", "dead"}
ReceiverPcs == {"new", "test", "receive", "handle", "done"}

(* The runs whose sender is about to clear the fields and close the socket. *)
Leaving == {g \in Runs : sender[g] \in {"clearReceiver", "close", "finish"}}
Over == {"new", "unmade", "done", "dead"}

(* Callers that have found mSenderThread null and not yet assigned it.      *)
Makers == {c \in Callers : call[c] \in {"socket", "timeout", "assign"}}

Init ==
  /\ isWorking = FALSE /\ mSocket = None /\ mSenderThread = None /\ mReceiverThread = None
  /\ open = {} /\ made = 0 /\ call = [c \in Callers |-> "idle"] /\ mine = [c \in Callers |-> None]
  /\ sender = [g \in Runs |-> "new"] /\ count = [g \in Runs |-> Retries]
  /\ awaited = [g \in Runs |-> None] /\ receiver = [g \in Runs |-> "new"]
  /\ reported = {} /\ rushed = {} /\ clashed = FALSE

Caller(c, from, to) == call[c] = from /\ call' = [call EXCEPT ![c] = to]
Sender(g, from, to) == sender[g] = from /\ sender' = [sender EXCEPT ![g] = to]
Receiver(g, from, to) == receiver[g] = from /\ receiver' = [receiver EXCEPT ![g] = to]

-----------------------------------------------------------------------------
(* startDiscovery.  When a run is on, it throws and changes nothing.        *)

(* Mutant: whether a run is on is not tested.                               *)
StartUntested(c) ==
  /\ made < MaxRuns
  /\ Caller(c, "idle", "socket")
  /\ made' = made + 1
  /\ mine' = [mine EXCEPT ![c] = made + 1]
  /\ clashed' = (clashed \/ Makers # {})
  /\ UNCHANGED <<fields, sender, count, awaited, receiver, reported, rushed>>

StartDiscovery(c) ==
  /\ mSenderThread = None
  /\ made < MaxRuns
  /\ Caller(c, "idle", "socket")
  /\ made' = made + 1
  /\ mine' = [mine EXCEPT ![c] = made + 1]
  /\ rushed' = IF Leaving = {} THEN rushed ELSE rushed \cup {made + 1}
  /\ clashed' = (clashed \/ Makers # {})
  /\ UNCHANGED <<fields, sender, count, awaited, receiver, reported>>

(* The constructor may throw SocketException; the run then has no thread.   *)
MakeSocket(c) ==
  /\ \/ /\ Caller(c, "socket", "timeout")
        /\ mSocket' = mine[c]
        /\ open' = open \cup {mine[c]}
        /\ UNCHANGED sender
     \/ /\ Caller(c, "socket", "idle")
        /\ sender' = [sender EXCEPT ![mine[c]] = "unmade"]
        /\ UNCHANGED <<mSocket, open>>
  /\ UNCHANGED <<isWorking, mSenderThread, mReceiverThread, made, mine, count, awaited, receiver,
                 reported, rushed, clashed>>

(* setSoTimeout, on the socket of the field, throws when that is closed and *)
(* may throw when it is open, which it then stays.                          *)
SetTimeout(c) ==
  /\ \/ mSocket \in open /\ Caller(c, "timeout", "assign") /\ UNCHANGED sender
     \/ /\ Caller(c, "timeout", "idle")
        /\ sender' = [sender EXCEPT ![mine[c]] = "unmade"]
  /\ UNCHANGED <<fields, made, mine, count, awaited, receiver, reported, rushed, clashed>>

MakeSender(c) ==
  /\ Caller(c, "assign", "start")
  /\ mSenderThread' = mine[c]
  /\ UNCHANGED <<isWorking, mSocket, mReceiverThread, open, made, mine, sender, count, awaited,
                 receiver, reported, rushed, clashed>>

(* start throws when the thread of the field has been started before.       *)
StartSender(c) ==
  /\ Caller(c, "start", "idle")
  /\ sender' = IF mSenderThread # None /\ sender[mSenderThread] = "new"
                 THEN [sender EXCEPT ![mSenderThread] = "begin"] ELSE sender
  /\ UNCHANGED <<fields, made, mine, count, awaited, receiver, reported, rushed, clashed>>

StopDiscovery ==
  /\ isWorking' = FALSE
  /\ UNCHANGED <<mSocket, mSenderThread, mReceiverThread, open, calls, sender, count, awaited,
                 receiver, reported, rushed, clashed>>

-----------------------------------------------------------------------------
(* mBackgroundSender                                                        *)

Begin(g) ==
  /\ Sender(g, "begin", "makeReceiver")
  /\ isWorking' = TRUE
  /\ UNCHANGED <<mSocket, mSenderThread, mReceiverThread, open, calls, count, awaited, receiver,
                 reported, rushed, clashed>>

MakeReceiver(g) ==
  /\ Sender(g, "makeReceiver", "startReceiver")
  /\ mReceiverThread' = g
  /\ UNCHANGED <<isWorking, mSocket, mSenderThread, open, calls, count, awaited, receiver,
                 reported, rushed, clashed>>

(* The field is read again: it may be null, or another run's thread.        *)
StartReceiver(g) ==
  /\ \/ /\ mReceiverThread = None
        /\ Sender(g, "startReceiver", "dead")
        /\ UNCHANGED receiver
     \/ /\ mReceiverThread # None
        /\ IF receiver[mReceiverThread] = "new"
             THEN /\ Sender(g, "startReceiver", "loop")
                  /\ receiver' = [receiver EXCEPT ![mReceiverThread] = "test"]
             ELSE Sender(g, "startReceiver", "dead") /\ UNCHANGED receiver
  /\ UNCHANGED <<fields, calls, count, awaited, reported, rushed, clashed>>

Loop(g) ==
  /\ Sender(g, "loop", IF count[g] > 0 /\ isWorking THEN "send" ELSE "stopWork")
  /\ count' = IF count[g] > 0 THEN [count EXCEPT ![g] = @ - 1] ELSE count
  /\ UNCHANGED <<fields, calls, awaited, receiver, reported, rushed, clashed>>

(* send, whose exceptions are dropped, and the sleep behind it.             *)
Send(g) ==
  /\ Sender(g, "send", "loop")
  /\ UNCHANGED <<fields, calls, count, awaited, receiver, reported, rushed, clashed>>

StopWork(g) ==
  /\ Sender(g, "stopWork", "alive")
  /\ isWorking' = FALSE
  /\ UNCHANGED <<mSocket, mSenderThread, mReceiverThread, open, calls, count, awaited, receiver,
                 reported, rushed, clashed>>

(* Mutant: the receiver thread is not joined.                               *)
AliveNoJoin(g) ==
  /\ Sender(g, "alive", IF mReceiverThread = None THEN "dead" ELSE "clearSender")
  /\ awaited' = [awaited EXCEPT ![g] = mReceiverThread]
  /\ UNCHANGED <<fields, calls, count, receiver, reported, rushed, clashed>>

Alive(g) ==
  /\ Sender(g, "alive", IF mReceiverThread = None THEN "dead" ELSE "join")
  /\ awaited' = [awaited EXCEPT ![g] = mReceiverThread]
  /\ UNCHANGED <<fields, calls, count, receiver, reported, rushed, clashed>>

Join(g) ==
  /\ Sender(g, "join", "clearSender")
  /\ receiver[awaited[g]] = "done"
  /\ UNCHANGED <<fields, calls, count, awaited, receiver, reported, rushed, clashed>>

ClearSender(g) ==
  /\ Sender(g, "clearSender", "clearReceiver")
  /\ mSenderThread' = None
  /\ UNCHANGED <<isWorking, mSocket, mReceiverThread, open, calls, count, awaited, receiver,
                 reported, rushed, clashed>>

ClearReceiver(g) ==
  /\ Sender(g, "clearReceiver", "close")
  /\ mReceiverThread' = None
  /\ UNCHANGED <<isWorking, mSocket, mSenderThread, open, calls, count, awaited, receiver,
                 reported, rushed, clashed>>

(* The socket of the field is closed, whichever run's it is.                *)
Close(g) ==
  /\ Sender(g, "close", "finish")
  /\ open' = open \ {mSocket}
  /\ UNCHANGED <<isWorking, mSocket, mSenderThread, mReceiverThread, calls, count, awaited,
                 receiver, reported, rushed, clashed>>

Finish(g) ==
  /\ Sender(g, "finish", "done")
  /\ reported' = reported \cup {g}
  /\ UNCHANGED <<fields, calls, count, awaited, receiver, rushed, clashed>>

-----------------------------------------------------------------------------
(* mBackgroundReceiver                                                      *)

TestWorking(g) ==
  /\ Receiver(g, "test", IF isWorking THEN "receive" ELSE "done")
  /\ UNCHANGED <<fields, calls, sender, count, awaited, reported, rushed, clashed>>

(* receive: an answer has come.                                             *)
Receive(g) ==
  /\ mSocket \in open
  /\ Receiver(g, "receive", "handle")
  /\ UNCHANGED <<fields, calls, sender, count, awaited, reported, rushed, clashed>>

(* Mutant: the socket has no timeout.                                       *)
ReceiveFailsIfClosed(g) ==
  /\ mSocket \notin open
  /\ Receiver(g, "receive", "test")
  /\ UNCHANGED <<fields, calls, sender, count, awaited, reported, rushed, clashed>>

(* receive: an IOException, at the latest when its timeout (mDelay) is over *)
ReceiveFails(g) ==
  /\ Receiver(g, "receive", "test")
  /\ UNCHANGED <<fields, calls, sender, count, awaited, reported, rushed, clashed>>

Handle(g) ==
  /\ Receiver(g, "handle", "test")
  /\ UNCHANGED <<fields, calls, sender, count, awaited, reported, rushed, clashed>>

-----------------------------------------------------------------------------
CallStep(c) == MakeSocket(c) \/ SetTimeout(c) \/ MakeSender(c) \/ StartSender(c)

SenderStep(g) ==
  \/ Begin(g) \/ MakeReceiver(g) \/ StartReceiver(g) \/ Loop(g) \/ Send(g) \/ StopWork(g)
  \/ Alive(g) \/ Join(g) \/ ClearSender(g) \/ ClearReceiver(g) \/ Close(g) \/ Finish(g)

ReceiverStep(g) == TestWorking(g) \/ ReceiveFails(g) \/ Handle(g)

Next ==
  \/ \E c \in Callers : StartDiscovery(c) \/ CallStep(c)
  \/ \E g \in Runs : SenderStep(g) \/ ReceiverStep(g) \/ Receive(g)
  \/ StopDiscovery

(* Threads are scheduled, and receive returns within its timeout; nobody    *)
(* has to answer.                                                           *)
Fairness ==
  /\ \A c \in Callers : WF_vars(CallStep(c))
  /\ \A g \in Runs : WF_vars(SenderStep(g)) /\ WF_vars(ReceiverStep(g))

Spec == Init /\ [][Next]_vars /\ Fairness

-----------------------------------------------------------------------------
(* Every variable has the type the code gives it, and a call that makes a   *)
(* run has its number.                                                      *)
TypeOK ==
  /\ isWorking \in BOOLEAN /\ mSocket \in Runs \cup {None} /\ mSenderThread \in Runs \cup {None}
  /\ mReceiverThread \in Runs \cup {None} /\ open \subseteq Runs /\ made \in 0 .. MaxRuns
  /\ call \in [Callers -> CallPcs] /\ mine \in [Callers -> Runs \cup {None}]
  /\ \A c \in Callers : call[c] # "idle" => mine[c] # None
  /\ sender \in [Runs -> SenderPcs] /\ count \in [Runs -> 0 .. Retries]
  /\ awaited \in [Runs -> Runs \cup {None}] /\ receiver \in [Runs -> ReceiverPcs]
  /\ reported \subseteq Runs /\ rushed \subseteq Runs /\ clashed \in BOOLEAN

(* At most one run searches: the next one begins when the last one has      *)
(* joined its receiver.                                                     *)
OneSearchAtATime ==
  \A g, h \in Runs :
    g # h /\ sender[g] \notin Over /\ sender[h] \notin Over => g \in Leaving \/ h \in Leaving

(* What the client sees of the fields, and that it is a UDPSearch.          *)
Phase ==
  IF clashed THEN "clashed"
  ELSE IF Makers # {} THEN "making"
  ELSE IF (\E c \in Callers : call[c] = "start") \/ (\E g \in Runs : sender[g] = "begin")
    THEN "starting"
  ELSE IF \E g \in Runs : sender[g] = "dead" THEN "dead"
  ELSE IF mSenderThread = None THEN "off"
  ELSE IF isWorking THEN "searching" ELSE "ending"

Search == INSTANCE UDPSearch
            WITH phase <- Phase, pending <- IF clashed THEN 0 ELSE Cardinality(Leaving),
                 hurried <- ~clashed /\ made \in rushed

(* Whatever the threads do, the client sees one search at a time, and the   *)
(* reports of their ends one for each; a search dies only if it was started *)
(* while the last one was leaving.  Behind a clash of two callers nothing   *)
(* is said.                                                                 *)
IsASearch == Search!SearchSpec

(* A server is announced before the end of its run is reported.             *)
NoLateServer == \A g \in Runs : receiver[g] \in {"receive", "handle"} => g \notin reported

(* A run sends its requests through its own socket, which is open, unless   *)
(* it was started while the last run was clearing its fields.               *)
SendsOnOwnSocket ==
  \A g \in Runs \ rushed : sender[g] = "send" => mSocket = g /\ g \in open

(* Runs do not meet: one search, and each on its own socket, whoever calls  *)
(* startDiscovery, as long as no two callers do it at once (lines 74-80).   *)
SearchesAreApart == TypeOK /\ (clashed \/ (OneSearchAtATime /\ SendsOnOwnSocket))

(* When nothing runs, no socket is left open but those of a rushed run, of  *)
(* the run before it, which then closed the wrong one, and of a start that  *)
(* threw behind the constructor.                                            *)
NoSocketLeaks ==
  (\A g \in Runs : sender[g] \in Over) /\ (\A c \in Callers : call[c] = "idle")
    => \A g \in open : g \in rushed \/ g + 1 \in rushed \/ sender[g] = "unmade"

(* A run leaves nothing behind: no thread that announces, no socket.        *)
RunsEndCleanly == clashed \/ (NoLateServer /\ NoSocketLeaks)

(* Every run ends and says so, whether or not it is stopped and whether or  *)
(* not anybody answers.  The exceptions: its start throws SocketException,  *)
(* its sender dies of a null mReceiverThread (117, 138), and only if it was *)
(* started while the last run was leaving, or two callers clash.            *)
EveryRunIsReported ==
  \A g \in Runs : g <= made ~>
    \/ g \in reported \/ sender[g] = "unmade"
    \/ (sender[g] = "dead" /\ g \in rushed)
    \/ clashed

=============================================================================

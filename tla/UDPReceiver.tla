----------------------------- MODULE UDPReceiver -----------------------------
(***************************************************************************)
(* UDPBroadcastReceiver, the side that answers a discovery: startReceiver  *)
(* and stopReceiver, called by one thread whenever it likes (onResume and  *)
(* onPause of a fragment), and the thread that receives, which reads the   *)
(* field mSocket anew at every use.  A socket is open as long as it holds  *)
(* the port, which one socket can hold at a time.                          *)
(*                                                                         *)
(* Sockets and threads are named by the numbers 1, 2, ... in the order in  *)
(* which they are made.                                                    *)
(***************************************************************************)
EXTENDS Naturals, FiniteSets

CONSTANT MaxStarts   \* bound: number of sockets that are made

ASSUME ReceiverAssumption == MaxStarts \in Nat

Runs == 1 .. MaxStarts
None == 0

VARIABLES
  mSocket, mReceiverThread,
  made,          \* sockets made so far
  open,          \* the sockets that hold the port
  call,          \* where the caller is
  receiver,      \* where each thread is,
  sock,          \* the socket it waits at or had its packet from,
  interrupted,   \* and whether its interrupt flag is set
  hurried        \* history: the last socket was made while a thread was there

vars == <<mSocket, mReceiverThread, made, open, call, receiver, sock, interrupted, hurried>>

ReceiverPcs == {"new", "top", "receive", "handle", "sleep", "failed", "end", "dead"}

Init ==
  /\ mSocket = None /\ mReceiverThread = None /\ made = 0 /\ open = {} /\ call = "idle"
  /\ receiver = [t \in Runs |-> "new"] /\ sock = [t \in Runs |-> None]
  /\ interrupted = [t \in Runs |-> FALSE] /\ hurried = FALSE

Goes(t, from, to) == receiver[t] = from /\ receiver' = [receiver EXCEPT ![t] = to]

-----------------------------------------------------------------------------
(* startReceiver.  It throws, and changes nothing, when the port is held.   *)
MakeSocket ==
  /\ call = "idle" /\ open = {} /\ made < MaxStarts
  /\ made' = made + 1 /\ open' = {made + 1} /\ mSocket' = made + 1
  /\ hurried' = (mReceiverThread # None)
  /\ call' = "start"
  /\ UNCHANGED <<mReceiverThread, receiver, sock, interrupted>>

(* Mutant: a thread that is there is not looked for.                        *)
MakeThreadAlways ==
  /\ call = "start" /\ call' = "idle"
  /\ mReceiverThread' = made
  /\ receiver' = [receiver EXCEPT ![made] = "top"]
  /\ UNCHANGED <<mSocket, made, open, sock, interrupted, hurried>>

(* The new thread, or the exception that leaves the new socket open         *)
MakeThread ==
  /\ call = "start" /\ call' = "idle"
  /\ IF mReceiverThread = None
     THEN mReceiverThread' = made /\ receiver' = [receiver EXCEPT ![made] = "top"]
     ELSE UNCHANGED <<mReceiverThread, receiver>>
  /\ UNCHANGED <<mSocket, made, open, sock, interrupted, hurried>>

(* stopReceiver.  Without a thread its first line throws.                   *)
Interrupt ==
  /\ call = "idle" /\ mReceiverThread # None
  /\ interrupted' = [interrupted EXCEPT ![mReceiverThread] = TRUE]
  /\ call' = "close"
  /\ UNCHANGED <<mSocket, mReceiverThread, made, open, receiver, sock, hurried>>

(* Mutant: the thread is interrupted, and the socket left to it.            *)
CloseNothing ==
  /\ call = "close" /\ call' = "idle"
  /\ UNCHANGED <<mSocket, mReceiverThread, made, open, receiver, sock, interrupted, hurried>>

Close ==
  /\ call = "close" /\ call' = "idle"
  /\ open' = open \ {mSocket}
  /\ UNCHANGED <<mSocket, mReceiverThread, made, receiver, sock, interrupted, hurried>>

-----------------------------------------------------------------------------
(* mBackgroundReceiver                                                      *)
ReadSocket(t) ==
  /\ Goes(t, "top", "receive")
  /\ sock' = [sock EXCEPT ![t] = mSocket]
  /\ UNCHANGED <<mSocket, mReceiverThread, made, open, call, interrupted, hurried>>

(* A packet comes, which an interrupt does not bring about.                 *)
Receive(t) ==
  /\ sock[t] \in open
  /\ Goes(t, "receive", "handle")
  /\ UNCHANGED <<mSocket, mReceiverThread, made, open, call, sock, interrupted, hurried>>

(* receive throws when its socket is closed, and may when it is not.        *)
ReceiveFails(t) ==
  /\ Goes(t, "receive", "failed")
  /\ UNCHANGED <<mSocket, mReceiverThread, made, open, call, sock, interrupted, hurried>>

(* handleIncomePacket(mSocket, packet)                                      *)
Handle(t) ==
  /\ Goes(t, "handle", "sleep")
  /\ UNCHANGED <<mSocket, mReceiverThread, made, open, call, sock, interrupted, hurried>>

(* Thread.sleep ends, or throws                                             *)
Sleep(t) ==
  /\ Goes(t, "sleep", IF interrupted[t] THEN "end" ELSE "top")
  /\ interrupted' = [interrupted EXCEPT ![t] = FALSE]
  /\ UNCHANGED <<mSocket, mReceiverThread, made, open, call, sock, hurried>>

(* Mutant: every exception of receive ends the thread.                      *)
EndWhenFailed(t) ==
  /\ Goes(t, "failed", "end")
  /\ UNCHANGED <<mSocket, mReceiverThread, made, open, call, sock, interrupted, hurried>>

(* mSocket.isClosed()                                                       *)
TestClosed(t) ==
  /\ Goes(t, "failed", IF mSocket \in open THEN "top" ELSE "end")
  /\ UNCHANGED <<mSocket, mReceiverThread, made, open, call, sock, interrupted, hurried>>

End(t) ==
  /\ Goes(t, "end", "dead")
  /\ mReceiverThread' = None
  /\ UNCHANGED <<mSocket, made, open, call, sock, interrupted, hurried>>

-----------------------------------------------------------------------------
Caller == MakeSocket \/ MakeThread \/ Interrupt \/ Close
Thread(t) ==
  \/ ReadSocket(t) \/ Receive(t) \/ ReceiveFails(t) \/ Handle(t) \/ Sleep(t) \/ TestClosed(t) \/ End(t)

Next == Caller \/ \E t \in Runs : Thread(t)

(* A call that has begun goes on, and a thread is scheduled unless it waits *)
(* for a packet: none is owed.                                              *)
Waits(t) == receiver[t] = "receive" /\ sock[t] \in open
Fairness ==
  WF_vars(MakeThread \/ Close) /\ \A t \in Runs : WF_vars(~Waits(t) /\ Thread(t))

Spec == Init /\ [][Next]_vars /\ Fairness

-----------------------------------------------------------------------------
TypeOK ==
  /\ mSocket \in 0 .. made /\ mReceiverThread \in 0 .. made /\ made \in 0 .. MaxStarts
  /\ open \in SUBSET Runs /\ call \in {"idle", "start", "close"}
  /\ receiver \in [Runs -> ReceiverPcs] /\ sock \in [Runs -> 0 .. made]
  /\ interrupted \in [Runs -> BOOLEAN] /\ hurried \in BOOLEAN

(* However starts and stops come, one thread receives, and the field names  *)
(* it as long as it may still touch the socket: a second one would take the *)
(* packets of the first.                                                    *)
OneReceiver ==
  /\ TypeOK
  /\ \A t \in Runs : receiver[t] \notin {"new", "dead"} => mReceiverThread = t

(* Whoever holds the port answers: a socket that is open between calls has  *)
(* a thread that nobody has told to stop and that waits at this socket,     *)
(* whatever errors it has met, unless the socket was made while the thread  *)
(* of the last one was there.                                               *)
PortIsServed ==
  call = "idle" /\ open # {} /\ ~hurried =>
    /\ mSocket \in open /\ mReceiverThread # None
    /\ receiver[mReceiverThread] # "end" /\ ~interrupted[mReceiverThread]
    /\ receiver[mReceiverThread] \in {"receive", "handle"} => sock[mReceiverThread] = mSocket

(* A stop ends the thread, wherever it is and whether or not packets come,  *)
(* if no socket is made before that.                                        *)
StopEnds ==
  \A n \in Runs : (made = n /\ call = "close") ~> (mReceiverThread = None \/ made > n)

=============================================================================

------------------------ MODULE UDPReceiver_proofs ------------------------
(***************************************************************************)
(* Proofs about UDPReceiver, for every number of starts.  IInv adds to the *)
(* two invariants of the run that the field mSocket holds the last socket  *)
(* that was made, the only one that can be open, and that a start that is  *)
(* not hurried finds no thread.                                            *)
(***************************************************************************)
EXTENDS UDPReceiver, TLAPS

Lives(t) == receiver[t] \notin {"new", "dead"}

(* The field and the threads                                                *)
Threads ==
  /\ \A t \in Runs : Lives(t) <=> mReceiverThread = t
  /\ \A t \in Runs : receiver[t] = "new" => ~interrupted[t]
  /\ \A t \in Runs : t > made => receiver[t] = "new"

(* The field and the sockets                                                *)
Sockets ==
  /\ mSocket = made /\ open \subseteq {made}
  /\ call = "start" => made \in Runs /\ receiver[made] = "new" /\ open = {made}
                         /\ (~hurried => mReceiverThread = None)

IInv == TypeOK /\ Threads /\ Sockets /\ PortIsServed

-----------------------------------------------------------------------------
LEMMA InitHolds == Init => IInv
<1> SUFFICES ASSUME Init PROVE IInv
  OBVIOUS
<1>1. TypeOK
  <2>1. made = 0 /\ 0 \in 0 .. 0 /\ 0 \in 0 .. MaxStarts
    BY ReceiverAssumption DEF Init
  <2>2. sock \in [Runs -> 0 .. made] /\ receiver \in [Runs -> ReceiverPcs]
    BY <2>1 DEF Init, ReceiverPcs, None
  <2>3. mSocket \in 0 .. made /\ mReceiverThread \in 0 .. made
    BY <2>1 DEF Init, None
  <2> QED
    BY <2>1, <2>2, <2>3 DEF Init, TypeOK
<1>2. Threads
  BY DEF Init, Threads, Lives, Runs, None
<1>3. Sockets
  BY DEF Init, Sockets, None
<1>4. PortIsServed
  BY DEF Init, PortIsServed
<1> QED
  BY <1>1, <1>2, <1>3, <1>4 DEF IInv

LEMMA MakeSocketKeeps == ASSUME IInv, MakeSocket PROVE IInv'
<1>1. /\ call = "idle" /\ made < MaxStarts /\ made' = made + 1 /\ open' = {made + 1} /\ mSocket' = made + 1
      /\ hurried' = (mReceiverThread # None) /\ call' = "start"
      /\ UNCHANGED <<mReceiverThread, receiver, sock, interrupted>>
  BY DEF MakeSocket
<1>2. TypeOK /\ Threads
  BY DEF IInv
<1>3. made \in Nat /\ made + 1 \in Runs /\ made + 1 \in 0 .. MaxStarts
  BY <1>1, <1>2, ReceiverAssumption DEF TypeOK, Runs
<1>4. \A n : n \in 0 .. made => n \in 0 .. made + 1
  BY <1>3
<1>5. TypeOK'
  <2>1. mSocket' \in 0 .. made' /\ mReceiverThread' \in 0 .. made'
    BY <1>1, <1>2, <1>3, <1>4 DEF TypeOK
  <2>2. sock' \in [Runs -> 0 .. made']
    BY <1>1, <1>2, <1>4 DEF TypeOK
  <2> QED
    BY <1>1, <1>2, <1>3, <2>1, <2>2 DEF TypeOK
<1>6. Threads'
  <2>1. \A t \in Runs : t > made + 1 => t > made
    BY <1>3 DEF Runs
  <2> QED
    BY <1>1, <1>2, <2>1 DEF Threads, Lives
<1>7. Sockets'
  <2>1. receiver[made + 1] = "new"
    BY <1>2, <1>3 DEF Threads
  <2> QED
    BY <1>1, <1>3, <2>1 DEF Sockets
<1>8. PortIsServed'
  BY <1>1 DEF PortIsServed
<1> QED
  BY <1>5, <1>6, <1>7, <1>8 DEF IInv

LEMMA MakeThreadKeeps == ASSUME IInv, MakeThread PROVE IInv'
<1>1. /\ call = "start" /\ call' = "idle"
      /\ UNCHANGED <<mSocket, made, open, sock, interrupted, hurried>>
  BY DEF MakeThread
<1>2. TypeOK /\ Threads /\ Sockets
  BY DEF IInv
<1>3. made \in Runs /\ receiver[made] = "new" /\ open = {made} /\ mSocket = made /\ made # None
  BY <1>1, <1>2, ReceiverAssumption DEF Sockets, Runs, None
<1>4. CASE mReceiverThread = None
  <2>1. mReceiverThread' = made /\ receiver' = [receiver EXCEPT ![made] = "top"]
    BY <1>4 DEF MakeThread
  <2>2. /\ receiver' \in [Runs -> ReceiverPcs] /\ receiver'[made] = "top"
        /\ \A t \in Runs : t # made => receiver'[t] = receiver[t]
    BY <1>2, <1>3, <2>1 DEF TypeOK, ReceiverPcs
  <2>3. TypeOK'
    BY <1>1, <1>2, <1>3, <2>1, <2>2 DEF TypeOK
  <2>4. \A t \in Runs : ~Lives(t)
    BY <1>2, <1>4 DEF Threads, Runs, None
  <2>5. Threads'
    BY <1>1, <1>2, <1>3, <2>1, <2>2, <2>4 DEF Threads, Lives, Runs
  <2>6. Sockets'
    BY <1>1, <1>2 DEF Sockets
  <2>7. PortIsServed'
    BY <1>1, <1>2, <1>3, <2>1, <2>2 DEF PortIsServed, Threads
  <2> QED
    BY <2>3, <2>5, <2>6, <2>7 DEF IInv
<1>5. CASE mReceiverThread # None
  <2>1. UNCHANGED <<mReceiverThread, receiver>>
    BY <1>5 DEF MakeThread
  <2>2. hurried
    BY <1>1, <1>2, <1>5 DEF Sockets, TypeOK
  <2> QED
    BY <1>1, <1>2, <2>1, <2>2 DEF IInv, TypeOK, Threads, Lives, Sockets, PortIsServed
<1> QED
  BY <1>4, <1>5

LEMMA InterruptKeeps == ASSUME IInv, Interrupt PROVE IInv'
<1>1. /\ call = "idle" /\ mReceiverThread # None /\ call' = "close"
      /\ interrupted' = [interrupted EXCEPT ![mReceiverThread] = TRUE]
      /\ UNCHANGED <<mSocket, mReceiverThread, made, open, receiver, sock, hurried>>
  BY DEF Interrupt
<1>2. TypeOK /\ Threads /\ Sockets
  BY DEF IInv
<1>3. interrupted' \in [Runs -> BOOLEAN] /\ \A t \in Runs : t # mReceiverThread => interrupted'[t] = interrupted[t]
  BY <1>1, <1>2 DEF TypeOK
<1>4. TypeOK'
  BY <1>1, <1>2, <1>3 DEF TypeOK
<1>5. Threads'
  BY <1>1, <1>2, <1>3 DEF Threads, Lives
<1>6. Sockets' /\ PortIsServed'
  BY <1>1, <1>2 DEF Sockets, PortIsServed
<1> QED
  BY <1>4, <1>5, <1>6 DEF IInv

LEMMA CloseKeeps == ASSUME IInv, Close PROVE IInv'
<1>1. /\ call = "close" /\ call' = "idle" /\ open' = open \ {mSocket}
      /\ UNCHANGED <<mSocket, mReceiverThread, made, receiver, sock, interrupted, hurried>>
  BY DEF Close
<1>2. TypeOK /\ Threads /\ Sockets
  BY DEF IInv
<1>3. open' = {}
  BY <1>1, <1>2 DEF Sockets
<1> QED
  BY <1>1, <1>2, <1>3 DEF IInv, TypeOK, Threads, Lives, Sockets, PortIsServed

(* A thread goes from one place of its loop to another.                     *)
LEMMA ThreadGoes ==
  ASSUME IInv, NEW t \in Runs, NEW from \in ReceiverPcs \ {"new", "dead"},
         NEW to \in ReceiverPcs \ {"new", "dead"}, Goes(t, from, to),
         UNCHANGED <<mSocket, mReceiverThread, made, open, call, hurried>>,
         sock' \in [Runs -> 0 .. made], interrupted' \in [Runs -> BOOLEAN],
         \A u \in Runs : u # t => interrupted'[u] = interrupted[u]
  PROVE  /\ TypeOK' /\ Threads' /\ Sockets'
         /\ mReceiverThread = t /\ receiver[t] = from /\ receiver'[t] = to
<1>1. /\ receiver[t] = from /\ receiver' \in [Runs -> ReceiverPcs] /\ receiver'[t] = to
      /\ \A u \in Runs : u # t => receiver'[u] = receiver[u]
  BY DEF Goes, IInv, TypeOK
<1>2. mReceiverThread = t
  BY <1>1 DEF IInv, Threads, Lives
<1>3. TypeOK'
  BY <1>1 DEF IInv, TypeOK
<1>4. Threads'
  BY <1>1 DEF IInv, Threads, Lives
<1>5. Sockets'
  BY <1>1 DEF IInv, Sockets
<1> QED
  BY <1>1, <1>2, <1>3, <1>4, <1>5

LEMMA ThreadKeeps == ASSUME IInv, NEW t \in Runs, Thread(t) PROVE IInv'
<1>1. TypeOK /\ Threads /\ Sockets /\ PortIsServed
  BY DEF IInv
<1>2. CASE ReadSocket(t)
  <2>1. /\ Goes(t, "top", "receive") /\ sock' = [sock EXCEPT ![t] = mSocket]
        /\ UNCHANGED <<mSocket, mReceiverThread, made, open, call, interrupted, hurried>>
    BY <1>2 DEF ReadSocket
  <2>2. sock' \in [Runs -> 0 .. made] /\ sock'[t] = mSocket /\ interrupted' \in [Runs -> BOOLEAN]
    BY <1>1, <2>1 DEF TypeOK
  <2>3. /\ TypeOK' /\ Threads' /\ Sockets'
        /\ mReceiverThread = t /\ receiver[t] = "top" /\ receiver'[t] = "receive"
    BY <2>1, <2>2, ThreadGoes DEF ReceiverPcs
  <2> QED
    BY <1>1, <2>1, <2>2, <2>3 DEF IInv, PortIsServed
<1>3. CASE Receive(t)
  <2>1. /\ Goes(t, "receive", "handle")
        /\ UNCHANGED <<mSocket, mReceiverThread, made, open, call, sock, interrupted, hurried>>
    BY <1>3 DEF Receive
  <2>2. /\ TypeOK' /\ Threads' /\ Sockets'
        /\ mReceiverThread = t /\ receiver[t] = "receive" /\ receiver'[t] = "handle"
    BY <1>1, <2>1, ThreadGoes DEF ReceiverPcs, TypeOK
  <2> QED
    BY <1>1, <2>1, <2>2 DEF IInv, PortIsServed
<1>4. CASE ReceiveFails(t)
  <2>1. /\ Goes(t, "receive", "failed")
        /\ UNCHANGED <<mSocket, mReceiverThread, made, open, call, sock, interrupted, hurried>>
    BY <1>4 DEF ReceiveFails
  <2>2. /\ TypeOK' /\ Threads' /\ Sockets'
        /\ mReceiverThread = t /\ receiver[t] = "receive" /\ receiver'[t] = "failed"
    BY <1>1, <2>1, ThreadGoes DEF ReceiverPcs, TypeOK
  <2> QED
    BY <1>1, <2>1, <2>2 DEF IInv, PortIsServed
<1>5. CASE Handle(t)
  <2>1. /\ Goes(t, "handle", "sleep")
        /\ UNCHANGED <<mSocket, mReceiverThread, made, open, call, sock, interrupted, hurried>>
    BY <1>5 DEF Handle
  <2>2. /\ TypeOK' /\ Threads' /\ Sockets'
        /\ mReceiverThread = t /\ receiver[t] = "handle" /\ receiver'[t] = "sleep"
    BY <1>1, <2>1, ThreadGoes DEF ReceiverPcs, TypeOK
  <2> QED
    BY <1>1, <2>1, <2>2 DEF IInv, PortIsServed
<1>6. CASE Sleep(t)
  <2>1. /\ Goes(t, "sleep", IF interrupted[t] THEN "end" ELSE "top")
        /\ interrupted' = [interrupted EXCEPT ![t] = FALSE]
        /\ UNCHANGED <<mSocket, mReceiverThread, made, open, call, sock, hurried>>
    BY <1>6 DEF Sleep
  <2>2. /\ interrupted' \in [Runs -> BOOLEAN] /\ sock' \in [Runs -> 0 .. made]
        /\ \A u \in Runs : u # t => interrupted'[u] = interrupted[u]
        /\ interrupted'[t] = FALSE
    BY <1>1, <2>1 DEF TypeOK
  <2>3. PICK to : to = IF interrupted[t] THEN "end" ELSE "top"
    OBVIOUS
  <2>4. "sleep" \in ReceiverPcs \ {"new", "dead"} /\ to \in ReceiverPcs \ {"new", "dead"}
        /\ Goes(t, "sleep", to)
        /\ UNCHANGED <<mSocket, mReceiverThread, made, open, call, hurried>>
    BY <2>1, <2>3 DEF ReceiverPcs
  <2>5. TypeOK' /\ Threads' /\ Sockets' /\ mReceiverThread = t /\ receiver[t] = "sleep" /\ receiver'[t] = to
    BY <2>2, <2>4, ThreadGoes, Zenon
  <2>6. PortIsServed'
    BY <1>1, <2>1, <2>2, <2>3, <2>5 DEF PortIsServed
  <2> QED
    BY <2>5, <2>6 DEF IInv
<1>7. CASE TestClosed(t)
  <2>1. /\ Goes(t, "failed", IF mSocket \in open THEN "top" ELSE "end")
        /\ UNCHANGED <<mSocket, mReceiverThread, made, open, call, sock, interrupted, hurried>>
    BY <1>7 DEF TestClosed
  <2>2. (IF mSocket \in open THEN "top" ELSE "end") \in ReceiverPcs \ {"new", "dead"}
    BY DEF ReceiverPcs
  <2>3. /\ TypeOK' /\ Threads' /\ Sockets' /\ mReceiverThread = t
        /\ receiver[t] = "failed" /\ receiver'[t] = IF mSocket \in open THEN "top" ELSE "end"
    BY <1>1, <2>1, <2>2, ThreadGoes DEF ReceiverPcs, TypeOK
  <2>4. PortIsServed'
    BY <1>1, <2>1, <2>3 DEF PortIsServed
  <2> QED
    BY <2>3, <2>4 DEF IInv
<1>8. CASE End(t)
  <2>1. /\ receiver[t] = "end" /\ receiver' = [receiver EXCEPT ![t] = "dead"] /\ mReceiverThread' = None
        /\ UNCHANGED <<mSocket, made, open, call, sock, interrupted, hurried>>
    BY <1>8 DEF End, Goes
  <2>2. /\ receiver' \in [Runs -> ReceiverPcs] /\ receiver'[t] = "dead"
        /\ \A u \in Runs : u # t => receiver'[u] = receiver[u]
    BY <1>1, <2>1 DEF TypeOK, ReceiverPcs
  <2>3. mReceiverThread = t
    BY <1>1, <2>1 DEF Threads, Lives
  <2>4. TypeOK'
    BY <1>1, <2>1, <2>2 DEF TypeOK, None
  <2>5. Threads'
    BY <1>1, <2>1, <2>2, <2>3 DEF Threads, Lives, Runs, None
  <2>6. Sockets'
    BY <1>1, <2>1, <2>2 DEF Sockets
  <2>7. PortIsServed'
    BY <1>1, <2>1, <2>3 DEF PortIsServed
  <2> QED
    BY <2>4, <2>5, <2>6, <2>7 DEF IInv
<1> QED
  BY <1>2, <1>3, <1>4, <1>5, <1>6, <1>7, <1>8 DEF Thread

LEMMA StepKeeps == IInv /\ [Next]_vars => IInv'
<1> SUFFICES ASSUME IInv, [Next]_vars PROVE IInv'
  OBVIOUS
<1>1. CASE Caller
  BY <1>1, MakeSocketKeeps, MakeThreadKeeps, InterruptKeeps, CloseKeeps DEF Caller
<1>2. ASSUME NEW t \in Runs, Thread(t) PROVE IInv'
  BY <1>2, ThreadKeeps
<1>3. CASE UNCHANGED vars
  BY <1>3 DEF vars, IInv, TypeOK, Threads, Lives, Sockets, PortIsServed
<1> QED
  BY <1>1, <1>2, <1>3 DEF Next

(* The inductive invariant holds in every behaviour of the receiver.        *)
THEOREM ReceiverSafety == Spec => []IInv
BY InitHolds, StepKeeps, PTL DEF Spec

(* One thread receives, and the field mReceiverThread names it as long as   *)
(* it may touch the socket (startReceiver and the end of run).              *)
THEOREM OneReceiverHolds == Spec => []OneReceiver
<1>1. IInv => OneReceiver
  BY DEF IInv, Threads, Lives, OneReceiver
<1> QED
  BY <1>1, ReceiverSafety, PTL

(* An open socket has a thread that waits at it, unless it was made beside  *)
(* a thread that was leaving (startReceiver, stopReceiver and run).         *)
THEOREM PortIsServedHolds == Spec => []PortIsServed
<1>1. IInv => PortIsServed
  BY DEF IInv
<1> QED
  BY <1>1, ReceiverSafety, PTL

=============================================================================

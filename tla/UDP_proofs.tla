------------------------------ MODULE UDP_proofs ------------------------------
(***************************************************************************)
(* Proofs about UDPDiscovery, for every number of runs, requests and       *)
(* threads that call startDiscovery, as long as no two of them are in it   *)
(* at once (clashed): the test of mSenderThread and its assignment are     *)
(* apart, and behind a clash two runs search at once.  Then proofs about   *)
(* UDPScanner, the loader over that discovery, for every set of devices,   *)
(* time to live and number of starts: timers and searches do not multiply, *)
(* and the list holds the devices heard of late.                           *)
(***************************************************************************)
EXTENDS UDPDiscovery, UDPScanner, FiniteSetTheorems, TLAPS

(***************************************************************************)
(* UDPDiscovery                                                            *)
(***************************************************************************)

(* A sender thread that has begun and still is the one of the field         *)
Active == {"begin", "makeReceiver", "startReceiver", "loop", "send", "stopWork", "alive", "join",
           "clearSender"}
Going == {"clearReceiver", "close", "finish"}

Making == \E c \in Callers : call[c] # "idle"

(* The one call of startDiscovery makes the last run, whose thread is not   *)
(* begun.                                                                   *)
CallInv ==
  \A c \in Callers : call[c] # "idle" =>
    /\ \A d \in Callers : call[d] # "idle" => d = c
    /\ made \in Runs /\ mine[c] = made /\ sender[made] = "new"
    /\ mSenderThread = IF call[c] = "start" THEN made ELSE None

(* The field mSenderThread names the run that is on, which is the last one. *)
(* Runs before it are leaving or over.                                      *)
FieldInv(g) ==
  /\ g > made => sender[g] = "new" /\ g \notin open /\ g \notin rushed
  /\ g <= made /\ sender[g] = "new" => g = made /\ Making
  /\ sender[g] \in Active \cup {"dead"} => mSenderThread = g /\ g = made /\ ~Making

(* The receiver thread of a run is started by its sender and joined by it;  *)
(* what another run may have done to the field is to clear it.              *)
ReceiverInv(g) ==
  /\ sender[g] \in {"new", "begin", "makeReceiver", "startReceiver"} => receiver[g] = "new"
  /\ sender[g] \in Active \ {"begin", "makeReceiver"} => mReceiverThread \in {None, g}
  /\ sender[g] \in Active \ {"begin", "makeReceiver"} /\ g \notin rushed => mReceiverThread = g
  /\ sender[g] = "join" => awaited[g] = g
  /\ sender[g] \in {"clearSender", "done"} \cup Going => receiver[g] = "done"
  /\ sender[g] \in {"alive", "join", "clearSender"} => ~isWorking
  /\ g \in reported => sender[g] = "done"
  /\ sender[g] = "dead" => g \in rushed

(* A run that is not rushed has the fields to itself until the next one     *)
(* begins, and the next one is rushed if it has not done with them.         *)
SocketInv(g) ==
  /\ g = made /\ g \notin rushed => \A h \in Runs : sender[h] \in Going => h = g
  /\ g < made /\ sender[g] \in Going => g + 1 \in rushed
  /\ g = made /\ g \notin rushed /\ sender[g] \in Active \cup {"clearReceiver", "close"}
       => mSocket = g /\ g \in open
  /\ g = made /\ g \notin rushed /\ (\E c \in Callers : call[c] \in {"timeout", "assign", "start"})
       => mSocket = g /\ g \in open
  /\ g \notin rushed /\ g + 1 \notin rushed /\ sender[g] \in {"finish", "done"} => g \notin open

RunsInv == CallInv /\ \A g \in Runs : FieldInv(g) /\ ReceiverInv(g) /\ SocketInv(g)

IInv == TypeOK /\ (clashed \/ RunsInv)

-----------------------------------------------------------------------------
(* Types                                                                    *)
LEMMA TypeStep == TypeOK /\ [Next]_vars => TypeOK'
<1> SUFFICES ASSUME TypeOK, [Next]_vars PROVE TypeOK'
  OBVIOUS
<1> USE DiscoveryAssumption DEF TypeOK, fields, calls, Caller, Sender, Receiver, CallPcs, SenderPcs, ReceiverPcs
<1>1. ASSUME NEW c \in Callers, StartDiscovery(c) \/ CallStep(c) PROVE TypeOK'
  <2>1. CASE StartDiscovery(c)
    <3>1. made + 1 \in Runs /\ made + 1 \in 0 .. MaxRuns /\ made + 1 # None
      BY <2>1 DEF StartDiscovery, Runs, None
    <3>2. call' \in [Callers -> CallPcs] /\ mine' \in [Callers -> Runs \cup {None}]
      BY <2>1, <3>1 DEF StartDiscovery
    <3>3. \A d \in Callers : call'[d] # "idle" => mine'[d] # None
      BY <2>1, <3>1 DEF StartDiscovery
    <3>4. made' \in 0 .. MaxRuns /\ rushed' \subseteq Runs /\ clashed' \in BOOLEAN
      BY <2>1, <3>1 DEF StartDiscovery
    <3> QED
      BY <2>1, <3>2, <3>3, <3>4 DEF StartDiscovery
  <2>2. CASE MakeSocket(c)
    BY <2>2 DEF MakeSocket
  <2>3. CASE SetTimeout(c)
    BY <2>3 DEF SetTimeout
  <2>4. CASE MakeSender(c)
    BY <2>4 DEF MakeSender
  <2>5. CASE StartSender(c)
    BY <2>5 DEF StartSender
  <2> QED
    BY <1>1, <2>1, <2>2, <2>3, <2>4, <2>5 DEF CallStep
<1>2. ASSUME NEW g \in Runs, SenderStep(g) PROVE TypeOK'
  <2>1. CASE Begin(g)
    BY <2>1 DEF Begin
  <2>2. CASE MakeReceiver(g)
    BY <2>2 DEF MakeReceiver
  <2>3. CASE StartReceiver(g)
    BY <2>3 DEF StartReceiver
  <2>4. CASE Loop(g)
    BY <2>4 DEF Loop
  <2>5. CASE Send(g)
    BY <2>5 DEF Send
  <2>6. CASE StopWork(g)
    BY <2>6 DEF StopWork
  <2>7. CASE Alive(g)
    BY <2>7 DEF Alive
  <2>8. CASE Join(g)
    BY <2>8 DEF Join
  <2>9. CASE ClearSender(g)
    BY <2>9 DEF ClearSender
  <2>10. CASE ClearReceiver(g)
    BY <2>10 DEF ClearReceiver
  <2>11. CASE Close(g)
    BY <2>11 DEF Close
  <2>12. CASE Finish(g)
    BY <2>12 DEF Finish
  <2> QED
    BY <1>2, <2>1, <2>2, <2>3, <2>4, <2>5, <2>6, <2>7, <2>8, <2>9, <2>10, <2>11, <2>12 DEF SenderStep
<1>3. ASSUME NEW g \in Runs, ReceiverStep(g) \/ Receive(g) PROVE TypeOK'
  BY <1>3 DEF ReceiverStep, TestWorking, Receive, ReceiveFails, Handle
<1>4. CASE StopDiscovery \/ UNCHANGED vars
  BY <1>4 DEF StopDiscovery, vars
<1> QED
  BY <1>1, <1>2, <1>3, <1>4 DEF Next

-----------------------------------------------------------------------------
(* A clash stays; only a call of startDiscovery makes one.                  *)
LEMMA ClashStep ==
  ASSUME [Next]_vars
  PROVE  /\ clashed => clashed'
         /\ (clashed' = clashed) \/ \E c \in Callers : StartDiscovery(c)
<1>1. ASSUME NEW g \in Runs, SenderStep(g) PROVE clashed' = clashed
  BY <1>1 DEF SenderStep, Begin, MakeReceiver, StartReceiver, Loop, Send, StopWork, Alive, Join,
              ClearSender, ClearReceiver, Close, Finish
<1>2. ASSUME NEW g \in Runs, ReceiverStep(g) \/ Receive(g) PROVE clashed' = clashed
  BY <1>2 DEF ReceiverStep, TestWorking, Receive, ReceiveFails, Handle
<1>3. ASSUME NEW c \in Callers, CallStep(c) PROVE clashed' = clashed
  BY <1>3 DEF CallStep, MakeSocket, SetTimeout, MakeSender, StartSender
<1>4. ASSUME NEW c \in Callers, StartDiscovery(c) PROVE clashed => clashed'
  BY <1>4 DEF StartDiscovery
<1>5. CASE StopDiscovery \/ UNCHANGED vars
  BY <1>5 DEF StopDiscovery, vars
<1> QED
  BY <1>1, <1>2, <1>3, <1>4, <1>5 DEF Next

LEMMA SenderInvStep ==
  ASSUME IInv, ~clashed, [Next]_vars, NEW h \in Runs, SenderStep(h)
  PROVE  IInv'
<1>a. /\ TypeOK /\ TypeOK' /\ CallInv
      /\ \A g \in Runs : FieldInv(g) /\ ReceiverInv(g) /\ SocketInv(g)
  BY TypeStep DEF IInv, RunsInv
<1> USE DiscoveryAssumption DEF TypeOK, fields, calls, Sender, Runs, None, Active, Going
<1>1. CASE Begin(h)
  <2>1. CallInv'
    BY <1>a, <1>1 DEF Begin, CallInv, FieldInv, Making
  <2>2. ASSUME NEW g \in Runs PROVE FieldInv(g)'
    BY <1>a, <1>1 DEF Begin, CallInv, FieldInv, Making
  <2>3. ASSUME NEW g \in Runs PROVE ReceiverInv(g)'
    BY <1>a, <1>1 DEF Begin, CallInv, FieldInv, ReceiverInv
  <2>4. ASSUME NEW g \in Runs PROVE SocketInv(g)'
    BY <1>a, <1>1 DEF Begin, CallInv, FieldInv, SocketInv
  <2> QED
    BY <1>a, <2>1, <2>2, <2>3, <2>4 DEF IInv, RunsInv
<1>2. CASE MakeReceiver(h)
  <2>1. CallInv'
    BY <1>a, <1>2 DEF MakeReceiver, CallInv, FieldInv, Making
  <2>2. ASSUME NEW g \in Runs PROVE FieldInv(g)'
    BY <1>a, <1>2 DEF MakeReceiver, CallInv, FieldInv, Making
  <2>3. ASSUME NEW g \in Runs PROVE ReceiverInv(g)'
    BY <1>a, <1>2 DEF MakeReceiver, CallInv, FieldInv, ReceiverInv
  <2>4. ASSUME NEW g \in Runs PROVE SocketInv(g)'
    BY <1>a, <1>2 DEF MakeReceiver, CallInv, FieldInv, SocketInv
  <2> QED
    BY <1>a, <2>1, <2>2, <2>3, <2>4 DEF IInv, RunsInv
<1>3. CASE StartReceiver(h)
  <2>1. CallInv'
    BY <1>a, <1>3 DEF StartReceiver, CallInv, FieldInv, Making
  <2>2. ASSUME NEW g \in Runs PROVE FieldInv(g)'
    BY <1>a, <1>3 DEF StartReceiver, CallInv, FieldInv, Making
  <2>3. ASSUME NEW g \in Runs PROVE ReceiverInv(g)'
    BY SMTT(30), <1>a, <1>3 DEF StartReceiver, CallInv, FieldInv, ReceiverInv
  <2>4. ASSUME NEW g \in Runs PROVE SocketInv(g)'
    BY <1>a, <1>3 DEF StartReceiver, CallInv, FieldInv, SocketInv
  <2> QED
    BY <1>a, <2>1, <2>2, <2>3, <2>4 DEF IInv, RunsInv
<1>4. CASE Loop(h)
  <2>1. CallInv'
    BY <1>a, <1>4 DEF Loop, CallInv, FieldInv, Making
  <2>2. ASSUME NEW g \in Runs PROVE FieldInv(g)'
    BY <1>a, <1>4 DEF Loop, CallInv, FieldInv, Making
  <2>3. ASSUME NEW g \in Runs PROVE ReceiverInv(g)'
    BY <1>a, <1>4 DEF Loop, CallInv, FieldInv, ReceiverInv
  <2>4. ASSUME NEW g \in Runs PROVE SocketInv(g)'
    BY <1>a, <1>4 DEF Loop, CallInv, FieldInv, SocketInv
  <2> QED
    BY <1>a, <2>1, <2>2, <2>3, <2>4 DEF IInv, RunsInv
<1>5. CASE Send(h)
  <2>1. CallInv'
    BY <1>a, <1>5 DEF Send, CallInv, FieldInv, Making
  <2>2. ASSUME NEW g \in Runs PROVE FieldInv(g)'
    BY <1>a, <1>5 DEF Send, CallInv, FieldInv, Making
  <2>3. ASSUME NEW g \in Runs PROVE ReceiverInv(g)'
    BY <1>a, <1>5 DEF Send, CallInv, FieldInv, ReceiverInv
  <2>4. ASSUME NEW g \in Runs PROVE SocketInv(g)'
    BY <1>a, <1>5 DEF Send, CallInv, FieldInv, SocketInv
  <2> QED
    BY <1>a, <2>1, <2>2, <2>3, <2>4 DEF IInv, RunsInv
<1>6. CASE StopWork(h)
  <2>1. CallInv'
    BY <1>a, <1>6 DEF StopWork, CallInv, FieldInv, Making
  <2>2. ASSUME NEW g \in Runs PROVE FieldInv(g)'
    BY <1>a, <1>6 DEF StopWork, CallInv, FieldInv, Making
  <2>3. ASSUME NEW g \in Runs PROVE ReceiverInv(g)'
    BY <1>a, <1>6 DEF StopWork, CallInv, FieldInv, ReceiverInv
  <2>4. ASSUME NEW g \in Runs PROVE SocketInv(g)'
    BY <1>a, <1>6 DEF StopWork, CallInv, FieldInv, SocketInv
  <2> QED
    BY <1>a, <2>1, <2>2, <2>3, <2>4 DEF IInv, RunsInv
<1>7. CASE Alive(h)
  <2>1. CallInv'
    BY <1>a, <1>7 DEF Alive, CallInv, FieldInv, Making
  <2>2. ASSUME NEW g \in Runs PROVE FieldInv(g)'
    BY <1>a, <1>7 DEF Alive, CallInv, FieldInv, Making
  <2>3. ASSUME NEW g \in Runs PROVE ReceiverInv(g)'
    BY <1>a, <1>7 DEF Alive, CallInv, FieldInv, ReceiverInv
  <2>4. ASSUME NEW g \in Runs PROVE SocketInv(g)'
    BY <1>a, <1>7 DEF Alive, CallInv, FieldInv, SocketInv
  <2> QED
    BY <1>a, <2>1, <2>2, <2>3, <2>4 DEF IInv, RunsInv
<1>8. CASE Join(h)
  <2>1. CallInv'
    BY <1>a, <1>8 DEF Join, CallInv, FieldInv, Making
  <2>2. ASSUME NEW g \in Runs PROVE FieldInv(g)'
    BY <1>a, <1>8 DEF Join, CallInv, FieldInv, Making
  <2>3. ASSUME NEW g \in Runs PROVE ReceiverInv(g)'
    BY <1>a, <1>8 DEF Join, CallInv, FieldInv, ReceiverInv
  <2>4. ASSUME NEW g \in Runs PROVE SocketInv(g)'
    BY <1>a, <1>8 DEF Join, CallInv, FieldInv, SocketInv
  <2> QED
    BY <1>a, <2>1, <2>2, <2>3, <2>4 DEF IInv, RunsInv
<1>9. CASE ClearSender(h)
  <2>1. CallInv'
    BY <1>a, <1>9 DEF ClearSender, CallInv, FieldInv, Making
  <2>2. ASSUME NEW g \in Runs PROVE FieldInv(g)'
    BY <1>a, <1>9 DEF ClearSender, CallInv, FieldInv, Making
  <2>3. ASSUME NEW g \in Runs PROVE ReceiverInv(g)'
    BY <1>a, <1>9 DEF ClearSender, CallInv, FieldInv, ReceiverInv
  <2>4. ASSUME NEW g \in Runs PROVE SocketInv(g)'
    BY <1>a, <1>9 DEF ClearSender, CallInv, FieldInv, SocketInv
  <2> QED
    BY <1>a, <2>1, <2>2, <2>3, <2>4 DEF IInv, RunsInv
<1>10. CASE ClearReceiver(h)
  <2>1. CallInv'
    BY <1>a, <1>10 DEF ClearReceiver, CallInv, FieldInv, Making
  <2>2. ASSUME NEW g \in Runs PROVE FieldInv(g)'
    BY <1>a, <1>10 DEF ClearReceiver, CallInv, FieldInv, Making
  <2>3. ASSUME NEW g \in Runs PROVE ReceiverInv(g)'
    BY <1>a, <1>10 DEF ClearReceiver, CallInv, FieldInv, ReceiverInv, SocketInv
  <2>4. ASSUME NEW g \in Runs PROVE SocketInv(g)'
    BY <1>a, <1>10 DEF ClearReceiver, CallInv, FieldInv, SocketInv
  <2> QED
    BY <1>a, <2>1, <2>2, <2>3, <2>4 DEF IInv, RunsInv
<1>11. CASE Close(h)
  <2>1. CallInv'
    BY <1>a, <1>11 DEF Close, CallInv, FieldInv, Making
  <2>2. ASSUME NEW g \in Runs PROVE FieldInv(g)'
    BY <1>a, <1>11 DEF Close, CallInv, FieldInv, Making
  <2>3. ASSUME NEW g \in Runs PROVE ReceiverInv(g)'
    BY <1>a, <1>11 DEF Close, CallInv, FieldInv, ReceiverInv
  <2>4. ASSUME NEW g \in Runs PROVE SocketInv(g)'
    BY <1>a, <1>11 DEF Close, CallInv, FieldInv, SocketInv
  <2> QED
    BY <1>a, <2>1, <2>2, <2>3, <2>4 DEF IInv, RunsInv
<1>12. CASE Finish(h)
  <2>1. CallInv'
    BY <1>a, <1>12 DEF Finish, CallInv, FieldInv, Making
  <2>2. ASSUME NEW g \in Runs PROVE FieldInv(g)'
    BY <1>a, <1>12 DEF Finish, CallInv, FieldInv, Making
  <2>3. ASSUME NEW g \in Runs PROVE ReceiverInv(g)'
    BY <1>a, <1>12 DEF Finish, CallInv, FieldInv, ReceiverInv
  <2>4. ASSUME NEW g \in Runs PROVE SocketInv(g)'
    BY <1>a, <1>12 DEF Finish, CallInv, FieldInv, SocketInv
  <2> QED
    BY <1>a, <2>1, <2>2, <2>3, <2>4 DEF IInv, RunsInv
<1> QED
  BY <1>1, <1>2, <1>3, <1>4, <1>5, <1>6, <1>7, <1>8, <1>9, <1>10, <1>11, <1>12 DEF SenderStep

LEMMA CallerInvStep ==
  ASSUME IInv, ~clashed, ~clashed', [Next]_vars, NEW c \in Callers, StartDiscovery(c) \/ CallStep(c)
  PROVE  IInv'
<1>a. /\ TypeOK /\ TypeOK' /\ CallInv
      /\ \A g \in Runs : FieldInv(g) /\ ReceiverInv(g) /\ SocketInv(g)
  BY TypeStep DEF IInv, RunsInv
<1> USE DiscoveryAssumption DEF TypeOK, fields, calls, Caller, Runs, None, Active, Going
<1>1. CASE StartDiscovery(c)
  <2>1. /\ mSenderThread = None /\ call[c] = "idle" /\ made' = made + 1 /\ made' \in Runs
        /\ ~Making /\ call'[c] = "socket" /\ mine'[c] = made' /\ Making'
        /\ \A d \in Callers \ {c} : call'[d] = "idle"
        /\ UNCHANGED <<fields, sender, receiver, count, awaited, reported>>
    <3>1. Makers = {} /\ mSenderThread = None
      BY <1>1 DEF StartDiscovery
    <3>2. \A d \in Callers : call[d] = "idle"
      BY <1>a, <3>1 DEF Makers, CallInv, CallPcs
    <3> QED
      BY <1>a, <1>1, <3>2 DEF StartDiscovery, Making
  <2>2. rushed \subseteq rushed' /\ rushed' \subseteq rushed \cup {made'} /\ (made' \notin rushed' => \A h \in Runs : sender[h] \notin Going)
    BY <1>a, <1>1 DEF StartDiscovery, Leaving
  <2>3. sender[made'] = "new" /\ CallInv'
    <3>1. made' > made /\ sender[made'] = "new"
      BY <1>a, <2>1 DEF FieldInv
    <3> QED
      BY <2>1, <3>1 DEF CallInv
  <2>4. ASSUME NEW g \in Runs PROVE FieldInv(g)'
    <3>1. /\ g > made' => g > made
          /\ g <= made' => g <= made \/ g = made'
          /\ sender[g] \notin Active \cup {"dead"}
      BY <1>a, <2>1 DEF FieldInv
    <3> QED
      BY <1>a, <2>1, <2>2, <3>1 DEF FieldInv
  <2>5. ASSUME NEW g \in Runs PROVE ReceiverInv(g)'
    BY <1>a, <2>1, <2>2 DEF FieldInv, ReceiverInv
  <2>6. ASSUME NEW g \in Runs PROVE SocketInv(g)'
    <3>1. g + 1 \in rushed' \/ g \notin Runs \/ g # made \/ sender[g] \notin Going
      BY <1>a, <1>1, <2>1 DEF StartDiscovery, Leaving
    <3>2. g <= made' => g <= made \/ g = made'
      BY <1>a, <2>1
    <3>3. sender[made'] = "new" /\ \A d \in Callers : call'[d] \notin {"timeout", "assign", "start"}
      BY <2>1, <2>3
    <3>4. g < made' /\ sender[g] \in Going => g + 1 \in rushed'
      BY <1>a, <2>1, <2>2, <3>1, <3>2 DEF SocketInv
    <3>5. g \notin rushed' /\ g + 1 \notin rushed' /\ sender[g] \in {"finish", "done"} => g \notin open
      BY <1>a, <2>2 DEF SocketInv
    <3> QED
      BY <1>a, <2>1, <2>2, <3>3, <3>4, <3>5 DEF SocketInv
  <2> QED
    BY <1>a, <2>3, <2>4, <2>5, <2>6 DEF IInv, RunsInv
<1>2. CASE MakeSocket(c)
  <2>1. CallInv'
    BY <1>a, <1>2 DEF MakeSocket, CallInv, FieldInv, Making
  <2>2. ASSUME NEW g \in Runs PROVE FieldInv(g)'
    BY <1>a, <1>2 DEF MakeSocket, CallInv, FieldInv, Making
  <2>3. ASSUME NEW g \in Runs PROVE ReceiverInv(g)'
    BY <1>a, <1>2 DEF MakeSocket, CallInv, FieldInv, ReceiverInv
  <2>4. ASSUME NEW g \in Runs PROVE SocketInv(g)'
    BY <1>a, <1>2 DEF MakeSocket, CallInv, FieldInv, SocketInv
  <2> QED
    BY <1>a, <2>1, <2>2, <2>3, <2>4 DEF IInv, RunsInv
<1>3. CASE SetTimeout(c)
  <2>1. CallInv'
    BY <1>a, <1>3 DEF SetTimeout, CallInv, FieldInv, Making
  <2>2. ASSUME NEW g \in Runs PROVE FieldInv(g)'
    BY <1>a, <1>3 DEF SetTimeout, CallInv, FieldInv, Making
  <2>3. ASSUME NEW g \in Runs PROVE ReceiverInv(g)'
    BY <1>a, <1>3 DEF SetTimeout, CallInv, FieldInv, ReceiverInv
  <2>4. ASSUME NEW g \in Runs PROVE SocketInv(g)'
    BY SMTT(30), <1>a, <1>3 DEF SetTimeout, CallInv, FieldInv, SocketInv
  <2> QED
    BY <1>a, <2>1, <2>2, <2>3, <2>4 DEF IInv, RunsInv
<1>4. CASE MakeSender(c)
  <2>1. CallInv'
    BY <1>a, <1>4 DEF MakeSender, CallInv, FieldInv, Making
  <2>2. ASSUME NEW g \in Runs PROVE FieldInv(g)'
    BY <1>a, <1>4 DEF MakeSender, CallInv, FieldInv, Making
  <2>3. ASSUME NEW g \in Runs PROVE ReceiverInv(g)'
    BY <1>a, <1>4 DEF MakeSender, CallInv, FieldInv, ReceiverInv
  <2>4. ASSUME NEW g \in Runs PROVE SocketInv(g)'
    BY <1>a, <1>4 DEF MakeSender, CallInv, FieldInv, SocketInv
  <2> QED
    BY <1>a, <2>1, <2>2, <2>3, <2>4 DEF IInv, RunsInv
<1>5. CASE StartSender(c)
  <2>1. CallInv'
    BY <1>a, <1>5 DEF StartSender, CallInv, FieldInv, Making
  <2>2. ASSUME NEW g \in Runs PROVE FieldInv(g)'
    BY <1>a, <1>5 DEF StartSender, CallInv, FieldInv, Making
  <2>3. ASSUME NEW g \in Runs PROVE ReceiverInv(g)'
    BY <1>a, <1>5 DEF StartSender, CallInv, FieldInv, ReceiverInv
  <2>4. ASSUME NEW g \in Runs PROVE SocketInv(g)'
    BY <1>a, <1>5 DEF StartSender, CallInv, FieldInv, SocketInv
  <2> QED
    BY <1>a, <2>1, <2>2, <2>3, <2>4 DEF IInv, RunsInv
<1> QED
  BY <1>1, <1>2, <1>3, <1>4, <1>5 DEF CallStep

LEMMA OtherInvStep ==
  ASSUME IInv, ~clashed, [Next]_vars,
         \/ \E g \in Runs : ReceiverStep(g) \/ Receive(g)
         \/ StopDiscovery \/ UNCHANGED vars
  PROVE  IInv'
<1>a. /\ TypeOK /\ TypeOK' /\ CallInv
      /\ \A g \in Runs : FieldInv(g) /\ ReceiverInv(g) /\ SocketInv(g)
  BY TypeStep DEF IInv, RunsInv
<1> USE DEF TypeOK, fields, calls, None, Active, Going
<1>1. ASSUME NEW h \in Runs, ReceiverStep(h) \/ Receive(h) PROVE IInv'
  <2>1. /\ UNCHANGED <<fields, calls, sender, count, awaited, reported, rushed, clashed>>
        /\ receiver[h] \in {"test", "receive", "handle"}
        /\ \A g \in Runs \ {h} : receiver'[g] = receiver[g]
    BY <1>a, <1>1 DEF ReceiverStep, TestWorking, Receive, ReceiveFails, Handle, Receiver
  <2>2. CallInv' /\ \A g \in Runs : FieldInv(g)' /\ SocketInv(g)'
    BY <1>a, <2>1 DEF CallInv, FieldInv, SocketInv, Making
  <2>3. ASSUME NEW g \in Runs PROVE ReceiverInv(g)'
    BY <1>a, <2>1 DEF ReceiverInv
  <2> QED
    BY <1>a, <2>2, <2>3 DEF IInv, RunsInv
<1>2. CASE StopDiscovery
  <2>1. CallInv' /\ \A g \in Runs : FieldInv(g)' /\ SocketInv(g)'
    BY <1>a, <1>2 DEF StopDiscovery, CallInv, FieldInv, SocketInv, Making
  <2>2. ASSUME NEW g \in Runs PROVE ReceiverInv(g)'
    BY <1>a, <1>2 DEF StopDiscovery, ReceiverInv
  <2> QED
    BY <1>a, <2>1, <2>2 DEF IInv, RunsInv
<1>3. CASE UNCHANGED vars
  BY <1>a, <1>3 DEF vars, IInv, RunsInv, CallInv, FieldInv, ReceiverInv, SocketInv, Making
<1> QED
  BY <1>1, <1>2, <1>3

-----------------------------------------------------------------------------
(* The inductive invariant                                                  *)
THEOREM DiscoverySafety == Spec => []IInv
<1>1. ASSUME Init PROVE IInv
  <2>1. TypeOK
    <3>1. made \in 0 .. MaxRuns /\ Retries \in 0 .. Retries
      BY <1>1, DiscoveryAssumption DEF Init
    <3>2. count \in [Runs -> 0 .. Retries] /\ awaited \in [Runs -> Runs \cup {None}]
      BY <1>1, <3>1 DEF Init
    <3>3. sender \in [Runs -> SenderPcs] /\ receiver \in [Runs -> ReceiverPcs]
      BY <1>1 DEF Init, SenderPcs, ReceiverPcs
    <3>4. call \in [Callers -> CallPcs] /\ mine \in [Callers -> Runs \cup {None}]
      BY <1>1 DEF Init, CallPcs
    <3> QED
      BY <1>1, <3>1, <3>2, <3>3, <3>4 DEF Init, TypeOK
  <2>2. CallInv /\ ~Making
    BY <1>1 DEF Init, CallInv, Making
  <2>3. ASSUME NEW g \in Runs PROVE FieldInv(g) /\ ReceiverInv(g) /\ SocketInv(g)
    BY <1>1, <2>2 DEF Init, FieldInv, ReceiverInv, SocketInv, Active, Going, Runs
  <2> QED
    BY <2>1, <2>2, <2>3 DEF IInv, RunsInv
<1>2. ASSUME IInv, [Next]_vars PROVE IInv'
  <2>1. CASE clashed'
    BY <1>2, <2>1, TypeStep DEF IInv
  <2>2. CASE ~clashed'
    BY <1>2, <2>2, ClashStep, SenderInvStep, CallerInvStep, OtherInvStep DEF Next
  <2> QED
    BY <2>1, <2>2
<1> QED
  BY <1>1, <1>2, PTL DEF Spec

(* One run searches at a time, and it sends its requests through its own    *)
(* open socket, unless startDiscovery was called while the sender thread of *)
(* the last run was clearing the fields; any number of threads may call it, *)
(* as long as no two are in it at once.                                     *)
THEOREM SearchesAreApartHolds == Spec => []SearchesAreApart
<1>1. ASSUME TypeOK, RunsInv PROVE OneSearchAtATime /\ SendsOnOwnSocket
  <2> USE <1>1 DEF RunsInv, TypeOK, Runs
  <2>1. \A g \in Runs : sender[g] \notin Over => (sender[g] \in Active /\ g = made) \/ g \in Leaving
    BY DEF FieldInv, Over, Active, Leaving, SenderPcs
  <2>2. OneSearchAtATime
    BY <2>1 DEF OneSearchAtATime
  <2>3. SendsOnOwnSocket
    BY DEF SendsOnOwnSocket, FieldInv, SocketInv, Active
  <2> QED
    BY <2>2, <2>3
<1>2. IInv => SearchesAreApart
  BY <1>1 DEF IInv, SearchesAreApart
<1> QED
  BY <1>2, DiscoverySafety, PTL

(* No receiver thread announces a server behind the report of its run, and  *)
(* the sender thread closes the socket of its run, but for rushed runs and  *)
(* starts that threw.                                                       *)
THEOREM RunsEndCleanlyHolds == Spec => []RunsEndCleanly
<1>1. ASSUME TypeOK, RunsInv PROVE NoLateServer /\ NoSocketLeaks
  <2> USE <1>1 DEF RunsInv, TypeOK, Runs
  <2>1. NoLateServer
    BY DEF NoLateServer, ReceiverInv
  <2>2. ASSUME \A g \in Runs : sender[g] \in Over, \A c \in Callers : call[c] = "idle",
               NEW g \in open, g \notin rushed, g + 1 \notin rushed, sender[g] # "unmade"
        PROVE  FALSE
    <3>1. sender[g] = "done"
      BY <2>2 DEF Over, Making, FieldInv, ReceiverInv
    <3> QED
      BY <2>2, <3>1 DEF SocketInv
  <2> QED
    BY <2>1, <2>2 DEF NoSocketLeaks
<1>2. IInv => RunsEndCleanly
  BY <1>1 DEF IInv, RunsEndCleanly
<1> QED
  BY <1>2, DiscoverySafety, PTL

-----------------------------------------------------------------------------
(* What the client sees                                                     *)
Starting == (\E c \in Callers : call[c] = "start") \/ (\E g \in Runs : sender[g] = "begin")

(* The run that is on, once its sender thread has begun                     *)
On(g) == ~Making /\ mSenderThread = g /\ sender[g] \in Active \ {"begin"}

PhaseIs ==
  /\ Making /\ ~Starting => Phase = "making"
  /\ Starting => Phase = "starting"
  /\ ~Making /\ mSenderThread = None => Phase = "off"
  /\ \A g \in Runs : On(g) => Phase = IF isWorking THEN "searching" ELSE "ending"
  /\ \A g \in Runs : sender[g] = "dead" => Phase = "dead"

LEMMA PhaseFacts ==
  /\ TypeOK /\ RunsInv /\ ~clashed => PhaseIs
  /\ TypeOK' /\ RunsInv' /\ ~clashed' => PhaseIs'
<1>1. TypeOK /\ RunsInv /\ ~clashed => PhaseIs
  <2> HAVE TypeOK /\ RunsInv /\ ~clashed
  <2> USE DEF TypeOK, CallPcs, RunsInv, Runs, None
  <2>1. Starting => Makers = {}
    BY DEF Starting, Makers, CallInv, FieldInv, Active, Making
  <2>2. Making /\ ~Starting => Makers # {}
    BY DEF Making, Starting, Makers, CallInv
  <2>3. Makers # {} => Making
    BY DEF Making, Makers
  <2>4. ASSUME NEW g \in Runs, sender[g] = "begin" \/ sender[g] = "dead" \/ On(g)
        PROVE  mSenderThread = g /\ g # None /\ ~Making
    BY <2>4 DEF FieldInv, Active, On
  <2>5. Starting /\ mSenderThread \in Runs => sender[mSenderThread] \in {"new", "begin"}
    BY <2>4 DEF Starting, CallInv
  <2>6. Starting => mSenderThread # None
    BY <2>4 DEF Starting, CallInv
  <2>7. Making /\ ~Starting => Phase = "making"
    BY <2>2 DEF Phase
  <2>8. Starting => Phase = "starting"
    BY <2>1 DEF Phase, Starting
  <2>9. ~Making /\ mSenderThread = None => Phase = "off"
    BY <2>3, <2>4, <2>6 DEF Phase, Starting
  <2>10. ASSUME NEW g \in Runs, On(g) PROVE Phase = IF isWorking THEN "searching" ELSE "ending"
    <3>1. mSenderThread = g /\ g # None /\ ~Making /\ sender[g] \in Active \ {"begin"}
      BY <2>4, <2>10 DEF On
    <3>2. ~Starting /\ Makers = {} /\ \A h \in Runs : sender[h] # "dead"
      BY <2>3, <2>4, <2>5, <3>1 DEF Active
    <3> QED
      BY <3>1, <3>2 DEF Phase, Starting
  <2>11. ASSUME NEW g \in Runs, sender[g] = "dead" PROVE Phase = "dead"
    <3>1. ~Starting /\ Makers = {}
      BY <2>3, <2>4, <2>5, <2>11
    <3> QED
      BY <2>11, <3>1 DEF Phase, Starting
  <2> QED
    BY <2>7, <2>8, <2>9, <2>10, <2>11 DEF PhaseIs
<1> QED
  BY <1>1, PTL

LEMMA LeavingFacts ==
  /\ IsFiniteSet(Leaving) /\ IsFiniteSet(Leaving')
  /\ Cardinality(Leaving) \in Nat /\ Cardinality(Leaving') \in Nat
<1>1. IsFiniteSet(Runs)
  BY FS_Interval, DiscoveryAssumption, 1 \in Int, MaxRuns \in Int DEF Runs
<1>2. Leaving \subseteq Runs /\ Leaving' \subseteq Runs
  BY DEF Leaving
<1> QED
  BY <1>1, <1>2, FS_Subset, FS_CardinalityType

(* Every step of the threads is a step of the search or a stutter.          *)
LEMMA SearchStep ==
  ASSUME IInv, IInv', ~clashed, ~clashed', [Next]_vars
  PROVE  [Search!SearchNext]_(Search!searchVars)
<1> DEFINE Hurried == ~clashed /\ made \in rushed
           Kept == Leaving' = Leaving /\ Hurried' = Hurried
           Same == Phase' = Phase /\ Kept
<1>a. TypeOK /\ TypeOK' /\ RunsInv /\ RunsInv'
  BY DEF IInv
<1>b. PhaseIs /\ PhaseIs'
  BY <1>a, PhaseFacts
<1>s. ASSUME Same PROVE UNCHANGED Search!searchVars
  BY <1>s DEF Search!searchVars
<1>1. ASSUME NEW c \in Callers, StartDiscovery(c) PROVE Search!SearchStart
  <2>1. Makers = {} /\ mSenderThread = None /\ UNCHANGED mSenderThread
    BY <1>1 DEF StartDiscovery, fields
  <2>2. ~Making
    BY <1>a, <2>1 DEF TypeOK, CallPcs, RunsInv, Makers, CallInv, Making, None, Runs
  <2>3. \A g \in Runs : sender'[g] = sender[g] /\ sender[g] # "begin"
    BY <1>1, <1>a, <2>1 DEF StartDiscovery, RunsInv, FieldInv, Active, None, Runs
  <2>4. Making' /\ ~Starting'
    BY <1>1, <1>a, <2>2, <2>3 DEF StartDiscovery, Caller, TypeOK, Making, Starting
  <2>5. Phase = "off" /\ Phase' = "making"
    BY <1>b, <2>1, <2>2, <2>4 DEF PhaseIs
  <2>6. Leaving' = Leaving
    BY <1>1 DEF StartDiscovery, Leaving
  <2>7. Hurried' <=> Leaving # {}
    <3>1. made + 1 \in Runs /\ made + 1 > made
      BY <1>1, <1>a, DiscoveryAssumption DEF StartDiscovery, TypeOK, Runs
    <3>2. made + 1 \notin rushed
      BY <1>a, <3>1 DEF RunsInv, FieldInv
    <3> QED
      BY <1>1, <3>1, <3>2 DEF StartDiscovery
  <2>8. Hurried' = (Cardinality(Leaving) > 0)
    <3>1. Leaving # {} <=> Cardinality(Leaving) > 0
      BY LeavingFacts, FS_EmptySet
    <3> QED
      BY <2>7, <3>1
  <2> QED
    BY <2>5, <2>6, <2>8 DEF Search!SearchStart
<1>2. ASSUME NEW c \in Callers, MakeSocket(c) \/ SetTimeout(c) PROVE Same \/ Search!SearchFail
  <2>1. /\ call[c] \in {"socket", "timeout"} /\ mSenderThread = None /\ sender[made] = "new" /\ made \in Runs
        /\ mine[c] = made
        /\ \A d \in Callers \ {c} : call[d] = "idle" /\ call'[d] = "idle"
        /\ UNCHANGED <<mSenderThread, made, rushed>>
    BY <1>2, <1>a DEF MakeSocket, SetTimeout, Caller, TypeOK, RunsInv, CallInv, fields
  <2>2. /\ sender' \in {sender, [sender EXCEPT ![made] = "unmade"]}
        /\ call'[c] = "idle" \/ (call'[c] \in {"timeout", "assign"} /\ sender' = sender)
    BY <1>2, <1>a, <2>1 DEF MakeSocket, SetTimeout, Caller, TypeOK, fields
  <2>3. Making /\ \A g \in Runs : sender[g] # "begin" /\ sender'[g] # "begin"
    BY <1>a, <2>1, <2>2 DEF RunsInv, FieldInv, Active, Making, TypeOK, None, Runs
  <2>4. Phase = "making"
    BY <1>b, <2>1, <2>3 DEF PhaseIs, Starting
  <2>5. Kept
    BY <1>a, <2>1, <2>2 DEF Leaving, TypeOK
  <2>6. CASE call'[c] = "idle"
    <3>1. ~Making' /\ mSenderThread' = None
      BY <2>1, <2>6 DEF Making
    <3>2. Phase' = "off"
      BY <1>b, <3>1 DEF PhaseIs
    <3> QED
      BY <2>4, <2>5, <3>2 DEF Search!SearchFail, Search!Move
  <2>7. CASE call'[c] \in {"timeout", "assign"}
    <3>1. Making' /\ ~Starting'
      BY <2>1, <2>3, <2>7 DEF Making, Starting
    <3> QED
      BY <1>b, <2>4, <2>5, <3>1 DEF PhaseIs
  <2> QED
    BY <2>2, <2>6, <2>7
<1>3. ASSUME NEW c \in Callers, MakeSender(c) PROVE Search!SearchAssign
  <2>1. /\ call[c] = "assign" /\ call'[c] = "start" /\ mSenderThread = None
        /\ \A d \in Callers \ {c} : call[d] = "idle"
        /\ UNCHANGED <<sender, made, rushed>>
    BY <1>3, <1>a DEF MakeSender, Caller, TypeOK, RunsInv, CallInv
  <2>2. Making /\ ~Starting
    BY <1>a, <2>1 DEF RunsInv, FieldInv, Active, Making, Starting, None, Runs
  <2>3. Starting'
    BY <1>a, <2>1 DEF Starting, RunsInv, CallInv
  <2>4. Phase = "making" /\ Phase' = "starting" /\ Kept
    BY <1>b, <2>1, <2>2, <2>3 DEF PhaseIs, Leaving
  <2> QED
    BY <2>4 DEF Search!SearchAssign, Search!Move
<1>4. ASSUME NEW c \in Callers, StartSender(c) PROVE Same
  <2>1. call[c] = "start" /\ mSenderThread = made /\ made \in Runs /\ sender[made] = "new"
    BY <1>4, <1>a DEF StartSender, Caller, RunsInv, CallInv, TypeOK
  <2>2. sender' = [sender EXCEPT ![made] = "begin"] /\ UNCHANGED <<made, rushed>>
    BY <1>4, <2>1 DEF StartSender, Runs, None, calls
  <2>3. Starting /\ Starting'
    BY <1>a, <2>1, <2>2 DEF TypeOK, Starting, RunsInv
  <2>4. Phase = "starting" /\ Phase' = "starting"
    BY <1>b, <2>3 DEF PhaseIs
  <2>5. Leaving' = Leaving
    BY <1>a, <2>1, <2>2 DEF Leaving, TypeOK
  <2> QED
    BY <2>2, <2>4, <2>5
<1>5. ASSUME NEW h \in Runs, Begin(h) PROVE Search!SearchBegin
  <2>1. mSenderThread = h /\ ~Making /\ ~Making' /\ h # None /\ sender[h] = "begin"
    BY <1>5, <1>a DEF Begin, Sender, calls, RunsInv, FieldInv, Active, Making, Runs, None
  <2>2. Starting
    BY <2>1 DEF Starting
  <2>3. On(h)' /\ isWorking'
    BY <1>5, <1>a, <2>1 DEF Begin, Sender, TypeOK, On, Active, Making
  <2>4. Phase = "starting" /\ Phase' = "searching"
    BY <1>b, <2>2, <2>3 DEF PhaseIs
  <2>5. Kept
    BY <1>5, <1>a DEF Begin, Sender, Leaving, TypeOK, calls
  <2> QED
    BY <2>4, <2>5 DEF Search!SearchBegin, Search!Move
<1>6. ASSUME NEW h \in Runs,
             MakeReceiver(h) \/ StartReceiver(h) \/ Loop(h) \/ Send(h) \/ StopWork(h) \/ Alive(h) \/ Join(h)
      PROVE  Same \/ Search!SearchEnd \/ Search!SearchDie
  <2>1. /\ sender[h] \in Active \ {"begin"} /\ sender'[h] \in (Active \ {"begin"}) \cup {"dead"}
        /\ \A g \in Runs \ {h} : sender'[g] = sender[g]
        /\ UNCHANGED <<mSenderThread, call, made, rushed>> /\ isWorking' \in {isWorking, FALSE}
        /\ sender'[h] = "dead" => isWorking' = isWorking
    <3>0. sender \in [Runs -> SenderPcs] /\ isWorking \in BOOLEAN
      BY <1>a DEF TypeOK
    <3>1. CASE MakeReceiver(h)
      BY <3>0, <3>1 DEF MakeReceiver, Sender, fields, calls, Active
    <3>2. CASE StartReceiver(h)
      BY <3>0, <3>2 DEF StartReceiver, Sender, fields, calls, Active
    <3>3. CASE Loop(h)
      BY <3>0, <3>3 DEF Loop, Sender, fields, calls, Active
    <3>4. CASE Send(h)
      BY <3>0, <3>4 DEF Send, Sender, fields, calls, Active
    <3>5. CASE StopWork(h)
      BY <3>0, <3>5 DEF StopWork, Sender, fields, calls, Active
    <3>6. CASE Alive(h)
      BY <3>0, <3>6 DEF Alive, Sender, fields, calls, Active
    <3>7. CASE Join(h)
      BY <3>0, <3>7 DEF Join, Sender, fields, calls, Active
    <3> QED
      BY <1>6, <3>1, <3>2, <3>3, <3>4, <3>5, <3>6, <3>7
  <2>2. mSenderThread = h /\ h = made /\ ~Making /\ ~Making'
    BY <1>a, <2>1 DEF RunsInv, FieldInv, Making
  <2>3. Phase = IF isWorking THEN "searching" ELSE "ending"
    BY <1>b, <2>1, <2>2 DEF PhaseIs, On
  <2>4. Leaving' = Leaving /\ Kept
    BY <2>1 DEF Leaving, Active
  <2>5. CASE sender'[h] = "dead"
    <3>1. Hurried
      BY <1>a, <2>1, <2>2, <2>5 DEF RunsInv, ReceiverInv
    <3>2. Phase' = "dead"
      BY <1>b, <2>5 DEF PhaseIs
    <3> QED
      BY <2>3, <2>4, <3>1, <3>2 DEF Search!SearchDie, Search!Move
  <2>6. CASE sender'[h] # "dead"
    <3>1. Phase' = IF isWorking' THEN "searching" ELSE "ending"
      BY <1>b, <2>1, <2>2, <2>6 DEF PhaseIs, On
    <3>2. CASE isWorking' = isWorking
      BY <2>3, <2>4, <3>1, <3>2
    <3>3. CASE isWorking /\ ~isWorking'
      BY <2>3, <2>4, <3>1, <3>3 DEF Search!SearchEnd, Search!Move
    <3> QED
      BY <1>a, <2>1, <3>2, <3>3 DEF TypeOK
  <2> QED
    BY <2>5, <2>6
<1>7. ASSUME NEW h \in Runs, ClearSender(h) PROVE Search!SearchClear
  <2>1. On(h) /\ ~Making' /\ ~isWorking
    BY <1>7, <1>a DEF ClearSender, Sender, calls, RunsInv, FieldInv, ReceiverInv, Active, Making, On
  <2>2. Phase = "ending" /\ Phase' = "off"
    BY <1>7, <1>b, <2>1 DEF ClearSender, PhaseIs
  <2>3. Leaving' = Leaving \cup {h} /\ h \notin Leaving
    BY <1>7, <1>a DEF ClearSender, Sender, Leaving, TypeOK
  <2>4. Cardinality(Leaving') = Cardinality(Leaving) + 1
    BY <2>3, LeavingFacts, FS_AddElement
  <2>5. Hurried' = Hurried
    BY <1>7 DEF ClearSender, calls
  <2> QED
    BY <2>2, <2>4, <2>5 DEF Search!SearchClear
<1>8. ASSUME NEW h \in Runs, ClearReceiver(h) \/ Close(h) \/ Finish(h)
      PROVE  Phase' = Phase /\ Hurried' = Hurried
  <2>1. /\ \A g \in Runs : (sender'[g] = "begin" <=> sender[g] = "begin") /\ (sender'[g] = "dead" <=> sender[g] = "dead")
        /\ UNCHANGED <<mSenderThread, call, isWorking, clashed, made, rushed>>
    BY <1>8, <1>a DEF ClearReceiver, Close, Finish, Sender, calls, fields, TypeOK
  <2> QED
    BY <2>1 DEF Phase, Makers
<1>9. ASSUME NEW h \in Runs, ClearReceiver(h) \/ Close(h) PROVE Same
  <2>1. Leaving' = Leaving
    BY <1>9, <1>a DEF ClearReceiver, Close, Sender, Leaving, TypeOK
  <2> QED
    BY <1>8, <1>9, <2>1
<1>10. ASSUME NEW h \in Runs, Finish(h) PROVE Search!SearchReport
  <2>1. Leaving' = Leaving \ {h} /\ h \in Leaving
    BY <1>10, <1>a DEF Finish, Sender, Leaving, TypeOK
  <2>2. Cardinality(Leaving') = Cardinality(Leaving) - 1 /\ Cardinality(Leaving) > 0
    BY <2>1, LeavingFacts, FS_RemoveElement
  <2> QED
    BY <1>8, <1>10, <2>2 DEF Search!SearchReport
<1>11. ASSUME NEW h \in Runs, ReceiverStep(h) \/ Receive(h) PROVE Same
  <2>1. UNCHANGED <<mSenderThread, call, isWorking, sender, made, rushed>>
    BY <1>11 DEF ReceiverStep, TestWorking, Receive, ReceiveFails, Handle, calls, fields
  <2> QED
    BY <2>1 DEF Phase, Leaving, Makers
<1>12. CASE StopDiscovery
  <2>1. UNCHANGED <<mSenderThread, call, sender, made, rushed>> /\ ~isWorking'
    BY <1>12 DEF StopDiscovery, calls
  <2>2. Same \/ Search!SearchEnd
    BY <2>1 DEF Phase, Leaving, Makers, Search!SearchEnd, Search!Move
  <2> QED
    BY <1>s, <2>2 DEF Search!SearchNext
<1>13. CASE UNCHANGED vars
  BY <1>13, <1>s DEF vars, Phase, Leaving, Makers
<1>14. ASSUME NEW h \in Runs, SenderStep(h) PROVE [Search!SearchNext]_(Search!searchVars)
  BY <1>14, <1>s, <1>5, <1>6, <1>7, <1>9, <1>10 DEF SenderStep, Search!SearchNext
<1>15. ASSUME NEW c \in Callers, StartDiscovery(c) \/ CallStep(c)
       PROVE  [Search!SearchNext]_(Search!searchVars)
  BY <1>15, <1>s, <1>1, <1>2, <1>3, <1>4 DEF CallStep, Search!SearchNext
<1> QED
  BY <1>11, <1>12, <1>13, <1>14, <1>15, <1>s DEF Next

(* The step on which two callers are in startDiscovery at once, and the     *)
(* steps behind it                                                          *)
LEMMA ClashIsASearchStep ==
  ASSUME IInv, clashed', [Next]_vars
  PROVE  [Search!SearchNext]_(Search!searchVars)
<1>1. CASE clashed
  BY <1>1 DEF Phase, Search!searchVars
<1>2. CASE ~clashed
  <2>1. PICK c \in Callers : StartDiscovery(c)
    BY <1>2, ClashStep
  <2>2. Makers # {}
    BY <1>2, <2>1 DEF StartDiscovery
  <2>3. Phase = "making" /\ Phase' = "clashed"
    BY <1>2, <2>2 DEF Phase
  <2> QED
    BY <2>3 DEF Search!SearchClash, Search!SearchNext
<1> QED
  BY <1>1, <1>2 DEF IInv, TypeOK

(* The threads implement the search of UDPSearch: it is made, on, ended and *)
(* cleared away in this order whatever they and stopDiscovery do to         *)
(* isWorking and the fields, each report is that of one search, and a       *)
(* search dies only if it was started before the last one was reported; up  *)
(* to the step at which two callers are in startDiscovery at once.          *)
THEOREM IsASearchHolds == Spec => IsASearch
<1>1. ASSUME Init PROVE Search!SearchInit
  <2>1. Leaving = {} /\ Phase = "off" /\ ~clashed /\ rushed = {}
    BY <1>1 DEF Init, Leaving, Phase, Makers
  <2> QED
    BY <2>1, FS_EmptySet DEF Search!SearchInit
<1>2. ASSUME IInv, IInv', [Next]_vars PROVE [Search!SearchNext]_(Search!searchVars)
  <2>1. clashed => clashed'
    BY <1>2, ClashStep
  <2> QED
    BY <1>2, <2>1, SearchStep, ClashIsASearchStep
<1> QED
  BY <1>1, <1>2, DiscoverySafety, PTL DEF Spec, IsASearch, Search!SearchSpec

-----------------------------------------------------------------------------
(***************************************************************************)
(* UDPScanner                                                              *)
(***************************************************************************)

(* A listed device has as many searches to live as it has been silent less  *)
(* than MAX_TTL.                                                            *)
LivesAsHeard ==
  \A d \in Devices : ttl[d] = IF silence[d] <= MaxTTL THEN MaxTTL - silence[d] ELSE Absent

LoaderInv == LoaderTypeOK /\ LivesAsHeard /\ OneChainForEachStart

-----------------------------------------------------------------------------
(* Timers and restarting threads are finitely many.                         *)
LEMMA Finite ==
  ASSUME NEW S, S \subseteq TimerIds \cup {Main}
  PROVE  IsFiniteSet(S) /\ Cardinality(S) \in Nat
<1>1. IsFiniteSet(1 .. MaxStarts)
  BY FS_Interval, ScannerAssumption, 1 \in Int, MaxStarts \in Int
<1>2. IsFiniteSet(TimerIds \cup {Main})
  BY <1>1, FS_AddElement DEF TimerIds
<1>3. IsFiniteSet(S)
  BY <1>2, FS_Subset
<1> QED
  BY <1>3, FS_CardinalityType

(* What a set gains and loses by an element                                 *)
LEMMA Counts ==
  ASSUME NEW S, IsFiniteSet(S), NEW x
  PROVE  /\ Cardinality(S) \in Nat
         /\ Cardinality(S \cup {x}) \in Nat /\ Cardinality(S \ {x}) \in Nat
         /\ Cardinality(S \cup {x}) <= Cardinality(S) + 1
         /\ Cardinality(S \ {x}) <= Cardinality(S)
         /\ x \in S => Cardinality(S \ {x}) = Cardinality(S) - 1
  BY FS_AddElement, FS_RemoveElement, FS_CardinalityType

-----------------------------------------------------------------------------
(* The list ages and is renewed together with the silence.                  *)
LEMMA HeardStep ==
  ASSUME LoaderInv, [LoaderNext]_loaderVars
  PROVE  /\ LivesAsHeard'
         /\ ttl' \in [Devices -> Absent .. MaxTTL] /\ silence' \in [Devices -> 0 .. MaxTTL + 1]
<1>1. /\ MaxTTL \in Nat /\ ttl \in [Devices -> Absent .. MaxTTL]
      /\ silence \in [Devices -> 0 .. MaxTTL + 1] /\ LivesAsHeard
  BY ScannerAssumption DEF LoaderInv, LoaderTypeOK
<1>2. CASE UNCHANGED <<ttl, silence>>
  BY <1>1, <1>2 DEF LivesAsHeard
<1>3. ASSUME NEW d \in Devices, OnNewServer(d)
      PROVE  /\ LivesAsHeard'
             /\ ttl' \in [Devices -> Absent .. MaxTTL] /\ silence' \in [Devices -> 0 .. MaxTTL + 1]
  BY <1>1, <1>3 DEF OnNewServer, LivesAsHeard, Absent
<1>4. CASE OnDiscoveryFinished
  <2>1. /\ ttl' = [d \in Devices |-> IF ttl[d] > 0 THEN ttl[d] - 1 ELSE Absent]
        /\ silence' = [d \in Devices |-> IF silence[d] <= MaxTTL THEN silence[d] + 1 ELSE silence[d]]
    BY <1>4 DEF OnDiscoveryFinished, Aged
  <2> QED
    BY <1>1, <2>1 DEF LivesAsHeard, Absent
<1> QED
  BY <1>2, <1>3, <1>4
     DEF LoaderNext, loaderVars, scannerVars, OnStartLoading, OnStopLoading, RestartStart, RestartFinish, FireTimer, Schedule, Searching, lists

(* Every step hands a chain on, ends it, or is a start.  The thread that    *)
(* makes a search stands for it until the search is made.                   *)
LEMMA ChainStep ==
  ASSUME LoaderInv, [LoaderNext]_loaderVars
  PROVE  /\ phase' \in Phases /\ hurried' \in BOOLEAN /\ pending' \in Nat
         /\ started' \in BOOLEAN /\ starts' \in 0 .. MaxStarts /\ timers' \subseteq TimerIds
         /\ mTimer' \in TimerIds \cup {NoTimer} /\ restarting' \subseteq TimerIds \cup {Main}
         /\ maker' \in restarting' \cup {NoTimer} /\ lost' \in BOOLEAN
         /\ scheduling' \in Nat
         /\ OneChainForEachStart'
<1> DEFINE Chains == Busy + pending + scheduling + Cardinality(timers) + Cardinality(restarting)
           Typed == /\ phase \in Phases /\ hurried \in BOOLEAN /\ pending \in Nat
                    /\ started \in BOOLEAN /\ starts \in 0 .. MaxStarts /\ timers \subseteq TimerIds
                    /\ mTimer \in TimerIds \cup {NoTimer} /\ restarting \subseteq TimerIds \cup {Main}
                    /\ maker \in restarting \cup {NoTimer} /\ lost \in BOOLEAN
                    /\ scheduling \in Nat
<1> SUFFICES Typed' /\ (Chains <= starts)'
  BY DEF OneChainForEachStart, Busy
<1>1. Typed /\ Chains <= starts /\ MaxStarts \in Nat
  BY ScannerAssumption DEF LoaderInv, LoaderTypeOK, OneChainForEachStart, Busy
<1>2. /\ IsFiniteSet(timers) /\ Cardinality(timers) \in Nat
      /\ IsFiniteSet(restarting) /\ Cardinality(restarting) \in Nat
  BY Finite DEF LoaderInv, LoaderTypeOK
<1>3. ASSUME StopSearch
      PROVE  Busy' = Busy /\ pending' = pending /\ hurried' = hurried /\ phase' \in {phase, "ending"}
  BY <1>3 DEF StopSearch, SearchEnd, Move, Busy, searchVars
<1>4. CASE OnStartLoading
  <2>1. Cardinality(restarting') \in Nat /\ Cardinality(restarting') <= Cardinality(restarting) + 1
    BY <1>2, <1>4, Counts DEF OnStartLoading, RestartStop
  <2>2. Typed'
    BY <1>1, <1>3, <1>4 DEF OnStartLoading, RestartStop, Phases
  <2>3. /\ Busy' = Busy /\ pending' = pending /\ scheduling' = scheduling /\ timers' = timers
        /\ starts' = starts + 1
    BY <1>3, <1>4 DEF OnStartLoading, RestartStop
  <2> QED
    BY <1>1, <1>2, <2>1, <2>2, <2>3 DEF Busy
<1>5. CASE OnStopLoading
  <2>1. Cardinality(timers') \in Nat /\ Cardinality(timers') <= Cardinality(timers)
    BY <1>2, <1>5, Counts DEF OnStopLoading
  <2>2. Typed'
    BY <1>1, <1>3, <1>5 DEF OnStopLoading, Phases
  <2>3. /\ Busy' = Busy /\ pending' = pending /\ scheduling' = scheduling /\ restarting' = restarting
        /\ starts' = starts
    BY <1>3, <1>5 DEF OnStopLoading
  <2> QED
    BY <1>1, <1>2, <2>1, <2>2, <2>3 DEF Busy
<1>6. ASSUME NEW w \in TimerIds \cup {Main}, RestartStart(w) PROVE Typed' /\ (Chains <= starts)'
  <2>1. UNCHANGED <<started, starts, timers, mTimer, lost, scheduling>> /\ w \in restarting \ {maker}
    BY <1>6 DEF RestartStart
  <2>2. CASE phase = "off" /\ SearchStart /\ maker' = w /\ UNCHANGED restarting
    BY <1>1, <1>2, <2>1, <2>2 DEF SearchStart, Phases, Busy
  <2>3. CASE phase = "making" /\ SearchClash /\ restarting' = restarting \ {w} /\ UNCHANGED maker
    <3>1. Cardinality(restarting') \in Nat /\ Cardinality(restarting') <= Cardinality(restarting)
      BY <1>2, <2>3, Counts
    <3>2. phase' = "clashed" /\ hurried' = FALSE /\ pending' = 0 /\ Busy = 0 /\ Busy' = 0
      BY <2>3 DEF SearchClash, Busy
    <3>3. Typed'
      BY <1>1, <2>1, <2>3, <3>2 DEF Phases
    <3>4. UNCHANGED <<timers, scheduling, starts>>
      BY <2>1
    <3> QED
      BY <1>1, <1>2, <3>1, <3>2, <3>3, <3>4
  <2>4. CASE restarting' = restarting \ {w} /\ UNCHANGED <<searchVars, maker>>
    <3>1. Cardinality(restarting') \in Nat /\ Cardinality(restarting') <= Cardinality(restarting)
      BY <1>2, <2>4, Counts
    <3> QED
      BY <1>1, <1>2, <2>1, <2>4, <3>1 DEF searchVars, Busy
  <2> QED
    BY <1>6, <2>2, <2>3, <2>4 DEF RestartStart
<1>7. CASE RestartFinish
  <2>1. /\ UNCHANGED <<started, starts, timers, mTimer, scheduling>> /\ maker \in restarting
        /\ restarting' = restarting \ {maker} /\ maker' = NoTimer
        /\ SearchAssign \/ SearchFail \/ UNCHANGED searchVars
        /\ lost' \in BOOLEAN
    BY <1>1, <1>7 DEF RestartFinish
  <2>2. Cardinality(restarting') \in Nat /\ Cardinality(restarting') = Cardinality(restarting) - 1
    BY <1>2, <2>1, Counts
  <2>3. /\ phase' \in Phases /\ UNCHANGED <<pending, hurried>> /\ Busy \in {0, 1}
        /\ Busy' \in {Busy, Busy + 1}
    BY <1>1, <2>1 DEF SearchAssign, SearchFail, Move, searchVars, Phases, Busy
  <2> QED
    BY <1>1, <1>2, <2>1, <2>2, <2>3 DEF Busy
<1>8. ASSUME NEW i \in TimerIds, FireTimer(i) PROVE Typed' /\ (Chains <= starts)'
  <2>1. /\ Cardinality(timers') \in Nat /\ Cardinality(timers') = Cardinality(timers) - 1
        /\ Cardinality(restarting') \in Nat /\ Cardinality(restarting') <= Cardinality(restarting) + 1
    BY <1>2, <1>8, Counts DEF FireTimer, RestartStop
  <2>2. Typed'
    BY <1>1, <1>3, <1>8 DEF FireTimer, RestartStop, Phases
  <2>3. Busy' = Busy /\ pending' = pending /\ scheduling' = scheduling /\ starts' = starts
    BY <1>3, <1>8 DEF FireTimer, RestartStop
  <2> QED
    BY <1>1, <1>2, <2>1, <2>2, <2>3 DEF Busy
<1>9. ASSUME NEW d \in Devices, OnNewServer(d) PROVE Typed' /\ (Chains <= starts)'
  BY <1>1, <1>9 DEF OnNewServer, searchVars, Busy
<1>10. CASE OnDiscoveryFinished
  <2>1. /\ pending' = pending - 1 /\ pending' \in Nat /\ scheduling' \in {scheduling, scheduling + 1}
        /\ UNCHANGED <<phase, timers, restarting, starts>> /\ Typed'
    BY <1>1, <1>10 DEF OnDiscoveryFinished, SearchReport
  <2> QED
    BY <1>1, <1>2, <2>1 DEF Busy
<1>11. CASE Schedule
  <2>1. PICK i \in TimerIds : timers' = timers \cup {i} /\ mTimer' = i
    BY <1>11 DEF Schedule
  <2>2. Cardinality(timers') \in Nat /\ Cardinality(timers') <= Cardinality(timers) + 1
    BY <1>2, <2>1, Counts
  <2>3. /\ scheduling' = scheduling - 1 /\ scheduling' \in Nat
        /\ UNCHANGED <<phase, pending, restarting, starts>> /\ Typed'
    BY <1>1, <1>11, <2>1 DEF Schedule, searchVars
  <2> QED
    BY <1>1, <1>2, <2>2, <2>3 DEF Busy
<1>12. CASE Searching
  <2>1. Typed' /\ UNCHANGED <<scheduling, timers, restarting, starts>>
    BY <1>1, <1>12 DEF Searching, SearchBegin, SearchEnd, SearchClear, SearchDie, Move, scannerVars, Phases
  <2>2. Busy' + pending' = Busy + pending
    BY <1>1, <1>12 DEF Searching, SearchBegin, SearchEnd, SearchClear, SearchDie, Move, Busy
  <2> QED
    BY <1>1, <1>2, <2>1, <2>2 DEF Busy
<1>13. CASE UNCHANGED loaderVars
  BY <1>1, <1>13 DEF loaderVars, searchVars, scannerVars, Busy
<1> QED
  BY <1>4, <1>5, <1>6, <1>7, <1>8, <1>9, <1>10, <1>11, <1>12, <1>13 DEF LoaderNext

(* The inductive invariant: the types need the bound on the chains, since   *)
(* it is what bounds reports and timers.                                    *)
THEOREM ScannerSafety == LoaderSpec => []LoaderInv
<1>1. ASSUME LoaderInit PROVE LoaderInv
  <2>1. /\ phase = "off" /\ pending = 0 /\ scheduling = 0 /\ starts = 0
        /\ Cardinality(timers) = 0 /\ Cardinality(restarting) = 0
    BY <1>1, FS_EmptySet DEF LoaderInit, SearchInit, ScannerInit
  <2>2. OneChainForEachStart
    BY <2>1 DEF OneChainForEachStart, Busy
  <2>3. MaxTTL \in Nat /\ MaxStarts \in Nat
    BY ScannerAssumption
  <2>4. LivesAsHeard
    BY <1>1, <2>3 DEF LoaderInit, ScannerInit, LivesAsHeard
  <2>5. ttl \in [Devices -> Absent .. MaxTTL] /\ silence \in [Devices -> 0 .. MaxTTL + 1]
    BY <1>1, <2>3 DEF LoaderInit, ScannerInit, Absent
  <2>6. /\ phase \in Phases /\ hurried \in BOOLEAN /\ pending \in 0 .. MaxStarts
        /\ starts \in 0 .. MaxStarts /\ scheduling \in 0 .. MaxStarts
    <3>1. phase \in Phases /\ hurried \in BOOLEAN
      BY <1>1, <2>1 DEF Phases, LoaderInit, SearchInit
    <3> QED
      BY <2>1, <2>3, <3>1
  <2>7. /\ started \in BOOLEAN /\ timers \subseteq TimerIds /\ mTimer \in TimerIds \cup {NoTimer}
        /\ restarting \subseteq TimerIds \cup {Main} /\ maker \in restarting \cup {NoTimer}
        /\ lost \in BOOLEAN
    BY <1>1 DEF LoaderInit, ScannerInit
  <2>8. LoaderTypeOK
    BY <2>5, <2>6, <2>7 DEF LoaderTypeOK
  <2> QED
    BY <2>2, <2>4, <2>8 DEF LoaderInv
<1>2. ASSUME LoaderInv, [LoaderNext]_loaderVars PROVE LoaderInv'
  <2>1. LoaderTypeOK'
    <3>1. /\ IsFiniteSet(timers') /\ Cardinality(timers') \in Nat
          /\ IsFiniteSet(restarting') /\ Cardinality(restarting') \in Nat
      BY <1>2, ChainStep, Finite
    <3>2. starts' \in 0 .. MaxStarts /\ pending' \in Nat /\ scheduling' \in Nat /\ OneChainForEachStart'
      BY <1>2, ChainStep
    <3>3. pending' \in 0 .. MaxStarts /\ scheduling' \in 0 .. MaxStarts
      BY <3>1, <3>2, ScannerAssumption DEF OneChainForEachStart, Busy
    <3> QED
      BY <1>2, <3>3, ChainStep, HeardStep DEF LoaderTypeOK
  <2> QED
    BY <1>2, <2>1, ChainStep, HeardStep DEF LoaderInv
<1> QED
  BY <1>1, <1>2, PTL DEF LoaderSpec

(* However often the loader is stopped and started, and whatever stop or    *)
(* timer is missed, one search, report, timer or restart at most is on its  *)
(* way for each start.                                                      *)
THEOREM ChainsAreBoundedHolds == LoaderSpec => []ChainsAreBounded
<1>1. LoaderInv => ChainsAreBounded
  BY DEF LoaderInv, ChainsAreBounded
<1> QED
  BY <1>1, ScannerSafety, PTL

(* onNewServer and onDiscoveryFinished keep a device listed for MAX_TTL     *)
(* searches behind the last that heard it, and no longer.                   *)
THEOREM ListedIsFreshHolds == LoaderSpec => []ListedIsFresh
<1>1. LoaderInv => ListedIsFresh
  BY ScannerAssumption DEF LoaderInv, LoaderTypeOK, LivesAsHeard, ListedIsFresh, Absent
<1> QED
  BY <1>1, ScannerSafety, PTL
=============================================================================

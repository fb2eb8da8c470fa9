--------------------------- MODULE TaskHub_proofs ---------------------------
(***************************************************************************)
(* Proofs about TaskHub, for every set of tasks and listeners, every queue *)
(* capacity and every number of calls.                                     *)
(***************************************************************************)
EXTENDS TaskHub, SequenceTheorems, TLAPS

-----------------------------------------------------------------------------
(* The removal of one element from a sequence.                              *)

(* What RemoveAt returns, element by element.                               *)
LEMMA RemoveAtElements ==
  ASSUME NEW S, NEW s \in Seq(S), NEW k \in 1 .. Len(s)
  PROVE  /\ RemoveAt(s, k) \in Seq(S)
         /\ Len(RemoveAt(s, k)) = Len(s) - 1
         /\ \A i \in 1 .. Len(s) - 1 :
              RemoveAt(s, k)[i] = IF i < k THEN s[i] ELSE s[i + 1]
<1> DEFINE front == SubSeq(s, 1, k - 1)
           back == SubSeq(s, k + 1, Len(s))
<1>0. /\ Len(s) \in Nat /\ k \in Int
      /\ \A i \in 1 .. k - 1 : s[i] \in S
      /\ \A i \in k + 1 .. Len(s) : s[i] \in S
  BY LenProperties, ElementOfSeq
<1>1. /\ front \in Seq(S) /\ Len(front) = k - 1
      /\ \A i \in 1 .. k - 1 : front[i] = s[i]
  BY <1>0, SubSeqProperties
<1>2. /\ back \in Seq(S) /\ Len(back) = Len(s) - k
      /\ \A i \in 1 .. Len(s) - k : back[i] = s[i + k]
  <2>1. /\ back \in Seq(S)
        /\ Len(back) = IF k + 1 <= Len(s) THEN Len(s) - (k + 1) + 1 ELSE 0
        /\ \A i \in 1 .. Len(s) - (k + 1) + 1 : back[i] = s[(k + 1) + i - 1]
    BY <1>0, SubSeqProperties
  <2>2. \A i \in 1 .. Len(s) - k : (k + 1) + i - 1 = i + k
    BY <1>0
  <2> HIDE DEF back
  <2>. QED BY <1>0, <2>1, <2>2
<1> HIDE DEF front, back
<1>3. /\ front \o back \in Seq(S)
      /\ Len(front \o back) = Len(s) - 1
      /\ \A i \in 1 .. Len(s) - 1 :
           (front \o back)[i] = IF i <= k - 1 THEN front[i] ELSE back[i - (k - 1)]
  <2>1. Len(front) + Len(back) = Len(s) - 1
    BY <1>0, <1>1, <1>2
  <2>2. /\ front \o back \in Seq(S)
        /\ Len(front \o back) = Len(front) + Len(back)
        /\ \A i \in 1 .. Len(front) + Len(back) :
             (front \o back)[i] = IF i <= Len(front) THEN front[i] ELSE back[i - Len(front)]
    BY <1>1, <1>2, ConcatProperties
  <2>3. Len(front) = k - 1
    BY <1>1
  <2>. QED BY <2>1, <2>2, <2>3
<1>4. ASSUME NEW i \in 1 .. Len(s) - 1
      PROVE  (front \o back)[i] = IF i < k THEN s[i] ELSE s[i + 1]
  <2>1. CASE i < k
    <3>0. i <= k - 1
      BY <1>0, <2>1
    <3>1. (front \o back)[i] = front[i]
      BY <1>3, <3>0
    <3>. QED BY <1>0, <1>1, <2>1, <3>1
  <2>2. CASE ~(i < k)
    <3>0. ~(i <= k - 1)
      BY <1>0, <2>2
    <3>1. (front \o back)[i] = back[i - (k - 1)]
      BY <1>3, <3>0
    <3>2. i - (k - 1) \in 1 .. Len(s) - k /\ i - (k - 1) + k = i + 1
      BY <1>0, <2>2
    <3>3. back[i - (k - 1)] = s[i - (k - 1) + k]
      BY <1>2, <3>2
    <3>. QED BY <1>0, <2>2, <3>1, <3>2, <3>3
  <2>. QED BY <2>1, <2>2
<1>5. RemoveAt(s, k) = front \o back
  BY DEF RemoveAt, front, back
<1>. QED BY <1>3, <1>4, <1>5

(* Removing a task from a sequence: nothing new appears, every other task   *)
(* stays, and if no task occurred twice the removed one is gone and none    *)
(* occurs twice afterwards (ArrayBlockingQueue.remove, LinkedList.remove).  *)
LEMMA WithoutFacts ==
  ASSUME NEW S, NEW s \in Seq(S), NEW t
  PROVE  /\ Without(s, t) \in Seq(S)
         /\ Len(Without(s, t)) <= Len(s)
         /\ \A x : Holds(Without(s, t), x) => Holds(s, x)
         /\ \A x : x # t /\ Holds(s, x) => Holds(Without(s, t), x)
         /\ NoRepeat(s) => NoRepeat(Without(s, t)) /\ ~Holds(Without(s, t), t)
<1> DEFINE k == CHOOSE i \in DOMAIN s : s[i] = t
           w == Without(s, t)
<1>1. CASE Holds(s, t)
  <2>2. k \in 1 .. Len(s) /\ s[k] = t
    BY <1>1 DEF Holds
  <2>3. w = RemoveAt(s, k)
    BY <1>1 DEF Without, Holds
  <2> HIDE DEF k
  <2>4. /\ w \in Seq(S) /\ Len(w) = Len(s) - 1
        /\ \A i \in 1 .. Len(s) - 1 : w[i] = IF i < k THEN s[i] ELSE s[i + 1]
    BY <2>2, <2>3, RemoveAtElements
  <2> HIDE DEF w
  <2>5. ASSUME NEW x, Holds(w, x) PROVE Holds(s, x)
    BY <2>2, <2>4, <2>5 DEF Holds
  <2>7. ASSUME NEW x, x # t, Holds(s, x) PROVE Holds(w, x)
    <3>1. PICK i \in 1 .. Len(s) : s[i] = x
      BY <2>7 DEF Holds
    <3>2. i \in Int /\ k \in Int /\ Len(s) \in Nat /\ i # k
      BY <2>2, <2>7, <3>1, LenProperties
    <3>3. CASE i < k
      <4>1. i \in 1 .. Len(s) - 1
        BY <2>2, <3>2, <3>3
      <4>2. w[i] = x
        BY <2>4, <3>1, <3>3, <4>1
      <4>3. i \in DOMAIN w
        BY <2>4, <4>1, LenProperties
      <4>. QED BY <4>2, <4>3 DEF Holds
    <3>4. CASE k < i
      <4>1. i - 1 \in 1 .. Len(s) - 1 /\ ~(i - 1 < k) /\ (i - 1) + 1 = i
        BY <2>2, <3>2, <3>4
      <4>2. w[i - 1] = s[(i - 1) + 1]
        BY <2>4, <4>1
      <4>3. w[i - 1] = x
        BY <3>1, <4>1, <4>2
      <4>4. i - 1 \in DOMAIN w
        BY <2>4, <4>1, LenProperties
      <4>. QED BY <4>3, <4>4 DEF Holds
    <3>. QED BY <3>2, <3>3, <3>4
  <2>6. ASSUME NoRepeat(s) PROVE NoRepeat(w) /\ ~Holds(w, t)
    <3>1. ASSUME NEW i \in 1 .. Len(s) - 1, NEW j \in 1 .. Len(s) - 1, w[i] = w[j]
          PROVE  i = j
      <4>0. i \in Int /\ j \in Int /\ k \in Int
        BY <2>2, LenProperties
      <4>1. /\ w[i] = IF i < k THEN s[i] ELSE s[i + 1]
            /\ w[j] = IF j < k THEN s[j] ELSE s[j + 1]
        BY <2>4
      <4>2. \A a, b \in 1 .. Len(s) : s[a] = s[b] => a = b
        BY <2>6 DEF NoRepeat
      <4>3. i \in 1 .. Len(s) /\ j \in 1 .. Len(s) /\ i + 1 \in 1 .. Len(s) /\ j + 1 \in 1 .. Len(s)
        OBVIOUS
      <4>4. CASE i < k /\ j < k
        BY <3>1, <4>0, <4>1, <4>2, <4>3, <4>4
      <4>5. CASE ~(i < k) /\ ~(j < k)
        <5>1. s[i + 1] = s[j + 1]
          BY <3>1, <4>1, <4>5
        <5>2. i + 1 = j + 1
          BY <4>2, <4>3, <5>1
        <5>. QED BY <4>0, <4>5, <5>2
      <4>6. CASE i < k /\ ~(j < k)
        <5>1. s[i] = s[j + 1]
          BY <3>1, <4>1, <4>6
        <5>2. i = j + 1
          BY <4>2, <4>3, <5>1
        <5>. QED BY <4>0, <4>6, <5>2
      <4>7. CASE ~(i < k) /\ j < k
        <5>1. s[i + 1] = s[j]
          BY <3>1, <4>1, <4>7
        <5>2. i + 1 = j
          BY <4>2, <4>3, <5>1
        <5>. QED BY <4>0, <4>7, <5>2
      <4>. QED BY <4>4, <4>5, <4>6, <4>7
    <3>2. ASSUME NEW i \in 1 .. Len(s) - 1, w[i] = t
          PROVE  FALSE
      <4>0. i \in Int /\ k \in Int /\ i \in 1 .. Len(s) /\ i + 1 \in 1 .. Len(s)
        BY <2>2, LenProperties
      <4>1. w[i] = IF i < k THEN s[i] ELSE s[i + 1]
        BY <2>4
      <4>2. \A a, b \in 1 .. Len(s) : s[a] = s[b] => a = b
        BY <2>6 DEF NoRepeat
      <4>3. CASE i < k
        <5>1. s[i] = s[k]
          BY <2>2, <3>2, <4>1, <4>3
        <5>2. i = k
          BY <2>2, <4>0, <4>2, <5>1
        <5>. QED BY <4>0, <4>3, <5>2
      <4>4. CASE ~(i < k)
        <5>1. s[i + 1] = s[k]
          BY <2>2, <3>2, <4>1, <4>4
        <5>2. i + 1 = k
          BY <2>2, <4>0, <4>2, <5>1
        <5>. QED BY <4>0, <4>4, <5>2
      <4>. QED BY <4>3, <4>4
    <3>. QED BY <2>4, <3>1, <3>2 DEF Holds, NoRepeat
  <2>. QED BY <2>4, <2>5, <2>6, <2>7 DEF w
<1>2. CASE ~Holds(s, t)
  BY <1>2 DEF Without, Holds
<1>. QED BY <1>1, <1>2

(* What a sequence holds after an element was appended.                     *)
LEMMA AppendFacts ==
  ASSUME NEW S, NEW s \in Seq(S), NEW t \in S
  PROVE  /\ Append(s, t) \in Seq(S) /\ Len(Append(s, t)) = Len(s) + 1
         /\ \A x : Holds(Append(s, t), x) <=> Holds(s, x) \/ x = t
         /\ NoRepeat(s) /\ ~Holds(s, t) => NoRepeat(Append(s, t))
<1>1. /\ Append(s, t) \in Seq(S) /\ Len(Append(s, t)) = Len(s) + 1
      /\ \A i \in 1 .. Len(s) : Append(s, t)[i] = s[i]
      /\ Append(s, t)[Len(s) + 1] = t
      /\ Len(s) \in Nat
  BY AppendProperties, LenProperties
<1>2. \A i \in 1 .. Len(s) + 1 : i \in 1 .. Len(s) \/ i = Len(s) + 1
  BY <1>1
<1>. QED BY <1>1, <1>2 DEF Holds, NoRepeat

(* What a queue holds after its head was taken.                             *)
LEMMA TailFacts ==
  ASSUME NEW S, NEW s \in Seq(S), s # <<>>
  PROVE  /\ Head(s) \in S /\ Tail(s) \in Seq(S) /\ Len(Tail(s)) = Len(s) - 1
         /\ Holds(s, Head(s))
         /\ \A x : Holds(s, x) <=> Holds(Tail(s), x) \/ x = Head(s)
         /\ NoRepeat(s) => NoRepeat(Tail(s)) /\ ~Holds(Tail(s), Head(s))
<1>1. /\ Head(s) \in S /\ Tail(s) \in Seq(S) /\ Len(Tail(s)) = Len(s) - 1
      /\ \A i \in 1 .. Len(s) - 1 : Tail(s)[i] = s[i + 1]
      /\ Head(s) = s[1] /\ Len(s) \in Nat /\ Len(s) >= 1
  BY HeadTailProperties, LenProperties, EmptySeq
<1>2. \A i \in 1 .. Len(s) - 1 : i + 1 \in 1 .. Len(s) /\ i + 1 # 1
  BY <1>1
<1>3. \A i \in 1 .. Len(s) : i = 1 \/ (i - 1 \in 1 .. Len(s) - 1 /\ (i - 1) + 1 = i)
  BY <1>1
<1>4. ASSUME NEW x PROVE Holds(s, x) <=> Holds(Tail(s), x) \/ x = Head(s)
  <2>1. ASSUME NEW i \in 1 .. Len(s) PROVE s[i] = Head(s) \/ Holds(Tail(s), s[i])
    <3>1. CASE i = 1
      BY <1>1, <3>1
    <3>2. CASE i # 1
      <4>1. i - 1 \in DOMAIN Tail(s) /\ Tail(s)[i - 1] = s[i]
        BY <1>1, <1>3, <3>2
      <4>. QED BY <4>1 DEF Holds
    <3>. QED BY <3>1, <3>2
  <2>2. ASSUME NEW i \in 1 .. Len(s) - 1 PROVE Holds(s, Tail(s)[i])
    <3>1. Tail(s)[i] = s[i + 1] /\ i + 1 \in DOMAIN s
      BY <1>1, <1>2
    <3>. QED BY <3>1 DEF Holds
  <2>. QED BY <1>1, <2>1, <2>2 DEF Holds
<1>5. ASSUME NoRepeat(s) PROVE NoRepeat(Tail(s)) /\ ~Holds(Tail(s), Head(s))
  <2>1. ASSUME NEW i \in 1 .. Len(s) - 1, NEW j \in 1 .. Len(s) - 1, Tail(s)[i] = Tail(s)[j]
        PROVE  i = j
    <3>1. s[i + 1] = s[j + 1]
      BY <1>1, <2>1
    <3>2. i + 1 = j + 1
      BY <1>2, <1>5, <3>1 DEF NoRepeat
    <3>. QED BY <1>1, <3>2
  <2>2. ASSUME NEW i \in 1 .. Len(s) - 1, Tail(s)[i] = Head(s) PROVE FALSE
    BY <1>1, <1>2, <1>5, <2>2 DEF NoRepeat
  <2>. QED BY <1>1, <2>1, <2>2 DEF Holds, NoRepeat
<1>. QED BY <1>1, <1>4, <1>5 DEF Holds

-----------------------------------------------------------------------------
(* Type correctness.                                                        *)

(* The records of a call.                                                   *)
LEMMA CallRecordFacts ==
  /\ NoCall \in CallRecord /\ NoCall.at = "idle" /\ ~NoCall.all /\ NoCall.pos = 0
  /\ \A c \in CallRecord : c.all \in BOOLEAN /\ c.stop \in BOOLEAN /\ c.pos \in Nat
  BY HubAssumption DEF NoCall, CallRecord, CallPcs

(* Every step of the two threads keeps the types.                           *)
LEMMA TypeStep == TypeOK /\ [Next]_vars => TypeOK'
<1> SUFFICES ASSUME TypeOK, [Next]_vars PROVE TypeOK'
  OBVIOUS
<1> USE DEF TypeOK, executorVars, mapVars, historyVars
<1>1. ASSUME NEW t \in Tasks, NEW l \in Listeners, AddTask(t, l) PROVE TypeOK'
  <2>1. QueueType' /\ ExecutorType' /\ HandlerType'
    BY <1>1 DEF AddTask, QueueType, ExecutorType, HandlerType
  <2>2. MapType'
    BY <1>1, AppendFacts, WithoutFacts, HubAssumption DEF AddTask, MapType, CallType
  <2>3. CallType'
    BY <1>1, CallRecordFacts, HubAssumption DEF AddTask, CallType, CallRecord, CallPcs, Returned
  <2>4. HistoryType'
    BY <1>1, AppendFacts, HubAssumption DEF AddTask, HistoryType, CallType
  <2>. QED BY <2>1, <2>2, <2>3, <2>4
<1>2. ASSUME NEW t \in Tasks, NEW stop \in BOOLEAN, CancelTask(t, stop) PROVE TypeOK'
  <2>1. QueueType' /\ ExecutorType' /\ MapType' /\ HandlerType'
    BY <1>2 DEF CancelTask, QueueType, ExecutorType, MapType, HandlerType
  <2>2. CallType'
    <3>1. call' \in CallRecord
      BY <1>2, CallRecordFacts, HubAssumption DEF CancelTask, CallRecord, CallPcs
    <3>2. callsLeft' \in 0 .. MaxCalls /\ messagesLeft' \in 0 .. MaxMessages
      BY <1>2, HubAssumption DEF CancelTask, CallType
    <3>. QED
      BY <3>1, <3>2, <1>2, HubAssumption DEF CancelTask, CallType, NoCall
  <2>3. HistoryType'
    BY <1>2, AppendFacts, HubAssumption DEF CancelTask, HistoryType, CallType
  <2>. QED BY <2>1, <2>2, <2>3
<1>3. ASSUME NEW l \in Listeners, NEW stop \in BOOLEAN, CancelAll(l, stop) PROVE TypeOK'
  <2>1. QueueType' /\ ExecutorType' /\ MapType' /\ HandlerType'
    BY <1>3 DEF CancelAll, QueueType, ExecutorType, MapType, HandlerType
  <2>2. CallType'
    <3>1. CASE byListener[l] = None
      BY <1>3, <3>1, CallRecordFacts, HubAssumption DEF CancelAll, CallType
    <3>2. CASE byListener[l] # None
      <4>1. byListener[l] \in Tasks /\ lists[byListener[l]] \in Seq(Tasks)
        BY <3>2 DEF MapType
      <4>2. call' \in CallRecord
        <5>1. call' = [at |-> "all", task |-> None, listener |-> l, list |-> byListener[l],
                       pos |-> 0, snapshot |-> lists[byListener[l]], stop |-> stop, all |-> TRUE]
          BY <1>3, <3>2 DEF CancelAll, NoCall
        <5>. QED BY <4>1, <5>1 DEF CallRecord, CallPcs
      <4>3. callsLeft' \in 0 .. MaxCalls /\ messagesLeft' \in 0 .. MaxMessages
        BY <1>3, HubAssumption DEF CancelAll, CallType
      <4>. QED BY ZenonT(60), <1>3, <3>2, <4>1, <4>2, <4>3, HubAssumption DEF CancelAll, CallType, NoCall
    <3>. QED BY <3>1, <3>2
  <2>3. HistoryType'
    BY <1>3, AppendFacts, HubAssumption DEF CancelAll, HistoryType, CallType
  <2>. QED BY <2>1, <2>2, <2>3
<1>4. ASSUME NEW l \in Listeners, DetachFromTasks(l) PROVE TypeOK'
  <2>1. QueueType' /\ ExecutorType' /\ MapType' /\ HandlerType' /\ HistoryType'
    BY <1>4 DEF DetachFromTasks, QueueType, ExecutorType, MapType, HandlerType, HistoryType
  <2>2. CallType'
    <3>1. CASE byListener[l] = None
      BY <1>4, <3>1, CallRecordFacts, HubAssumption DEF DetachFromTasks, CallType
    <3>2. CASE byListener[l] # None
      <4>1. byListener[l] \in Tasks
        BY <3>2 DEF MapType
      <4>2. call' \in CallRecord
        BY <1>4, <3>2, <4>1, CallRecordFacts, HubAssumption DEF DetachFromTasks, CallRecord, CallPcs
      <4>3. callsLeft' \in 0 .. MaxCalls /\ messagesLeft' \in 0 .. MaxMessages
        BY <1>4, HubAssumption DEF DetachFromTasks, CallType
      <4>. QED BY <1>4, <3>2, <4>1, <4>2, <4>3, HubAssumption DEF DetachFromTasks, CallType, NoCall
    <3>. QED BY <3>1, <3>2
  <2>. QED BY <2>1, <2>2
<1>5. CASE StopTasksMultiplexor
  <2>1. QueueType' /\ MapType' /\ HandlerType' /\ HistoryType'
    BY <1>5 DEF StopTasksMultiplexor, QueueType, MapType, HandlerType, HistoryType
  <2>2. ExecutorType'
    BY <1>5, HubAssumption DEF StopTasksMultiplexor, ExecutorType, ExecutorPcs, ReportPcs, GoTo
  <2>3. CallType'
    BY <1>5, CallRecordFacts, HubAssumption DEF StopTasksMultiplexor, CallType, CallRecord, CallPcs, Returned
  <2>. QED BY <2>1, <2>2, <2>3
<1>6. CASE AddLookup
  <2>1. QueueType' /\ ExecutorType' /\ MapType' /\ HandlerType' /\ HistoryType'
    BY <1>6 DEF AddLookup, QueueType, ExecutorType, MapType, HandlerType, HistoryType
  <2>2. CallType'
    BY <1>6, CallRecordFacts, HubAssumption DEF AddLookup, CallType, CallRecord, CallPcs, Returned
  <2>. QED BY <2>1, <2>2
<1>7. CASE AddGet
  <2>1. QueueType' /\ ExecutorType' /\ MapType' /\ HandlerType'
    BY <1>7 DEF AddGet, QueueType, ExecutorType, MapType, HandlerType
  <2>2. CallType'
    <3>1. CASE byListener[call.listener] = None
      BY <1>7, <3>1, CallRecordFacts, HubAssumption DEF AddGet, CallType
    <3>2. CASE byListener[call.listener] # None
      <4>1. byListener[call.listener] \in Tasks
        BY <1>7, <3>2 DEF AddGet, MapType, CallType, CallRecord
      <4>2. call' \in CallRecord
        BY ZenonT(60), <1>7, <3>2, <4>1 DEF AddGet, CallType, CallRecord, CallPcs
      <4>3. call' = [call EXCEPT !.at = "append", !.list = byListener[call.listener]]
        BY <1>7, <3>2 DEF AddGet
      <4>4. /\ call'.at = "append" /\ call'.task = call.task /\ call'.listener = call.listener
            /\ call'.list = byListener[call.listener] /\ call'.all = call.all
        BY <4>3 DEF CallType, CallRecord
      <4>5. call.task # None /\ call.listener # None /\ UNCHANGED <<callsLeft, messagesLeft>>
        BY <1>7 DEF AddGet, CallType
      <4>. QED BY <4>1, <4>2, <4>4, <4>5, HubAssumption DEF CallType
    <3>. QED BY <3>1, <3>2
  <2>3. HistoryType'
    BY <1>7, AppendFacts, HubAssumption DEF AddGet, HistoryType, CallType, CallRecord
  <2>. QED BY <2>1, <2>2, <2>3
<1>8. CASE AddAppend
  <2>1. QueueType' /\ ExecutorType' /\ HandlerType' /\ HistoryType'
    BY <1>8 DEF AddAppend, QueueType, ExecutorType, HandlerType, HistoryType
  <2>2. MapType'
    BY <1>8, AppendFacts, WithoutFacts, HubAssumption DEF AddAppend, MapType, CallType, CallRecord
  <2>3. CallType'
    BY <1>8, CallRecordFacts, HubAssumption DEF AddAppend, CallType, CallRecord, CallPcs, Returned
  <2>. QED BY <2>1, <2>2, <2>3
<1>9. CASE AddPut
  <2>1. QueueType' /\ ExecutorType' /\ HandlerType' /\ HistoryType'
    BY <1>9 DEF AddPut, QueueType, ExecutorType, HandlerType, HistoryType
  <2>2. MapType'
    BY <1>9, AppendFacts, WithoutFacts, HubAssumption DEF AddPut, MapType, CallType, CallRecord
  <2>3. CallType'
    BY <1>9, CallRecordFacts, HubAssumption DEF AddPut, CallType, CallRecord, CallPcs, Returned
  <2>. QED BY <2>1, <2>2, <2>3
<1>10. CASE AddOffer
  <2>1. ExecutorType' /\ MapType' /\ HandlerType'
    BY <1>10 DEF AddOffer, ExecutorType, MapType, HandlerType
  <2>2. QueueType'
    <3>1. call.task \in Tasks
      BY <1>10 DEF AddOffer, CallType, CallRecord
    <3>2. CASE Len(queue) < Capacity
      <4>1. queue' = Append(queue, call.task)
        BY <1>10, <3>2 DEF AddOffer
      <4>2. Append(queue, call.task) \in Seq(Tasks) /\ Len(Append(queue, call.task)) = Len(queue) + 1
        BY <3>1, AppendFacts DEF QueueType
      <4>3. Len(queue) \in Nat
        BY LenProperties DEF QueueType
      <4>. QED BY <3>2, <4>1, <4>2, <4>3, HubAssumption DEF QueueType
    <3>3. CASE ~(Len(queue) < Capacity)
      BY <1>10, <3>3 DEF AddOffer, QueueType
    <3>. QED BY <3>2, <3>3
  <2>3. CallType'
    BY <1>10, CallRecordFacts, HubAssumption DEF AddOffer, CallType, CallRecord, CallPcs, Returned
  <2>4. HistoryType'
    BY <1>10, AppendFacts, HubAssumption DEF AddOffer, HistoryType, CallType, CallRecord
  <2>. QED BY <2>1, <2>2, <2>3, <2>4
<1>11. CASE CancelCompare
  <2>1. ExecutorType' /\ MapType' /\ HandlerType'
    BY <1>11 DEF CancelCompare, ExecutorType, MapType, HandlerType
  <2>2. QueueType'
    BY <1>11, TailFacts, WithoutFacts, AppendFacts, HubAssumption DEF CancelCompare, QueueType
  <2>3. CallType'
    BY SMTT(30), <1>11, CallRecordFacts, HubAssumption DEF CancelCompare, CallType, CallRecord, CallPcs, Returned
  <2>4. HistoryType'
    BY <1>11, AppendFacts, HubAssumption DEF CancelCompare, HistoryType, CallType, CallRecord
  <2>. QED BY <2>1, <2>2, <2>3, <2>4
<1>12. CASE CancelFlag
  <2>1. QueueType' /\ ExecutorType' /\ MapType' /\ HandlerType'
    BY <1>12 DEF CancelFlag, QueueType, ExecutorType, MapType, HandlerType
  <2>2. CallType'
    BY SMTT(30), <1>12, CallRecordFacts, HubAssumption DEF CancelFlag, CallType, CallRecord, CallPcs, Returned
  <2>3. HistoryType'
    BY <1>12, AppendFacts, HubAssumption DEF CancelFlag, HistoryType, CallType, ExecutorType
  <2>. QED BY <2>1, <2>2, <2>3
<1>13. CASE CancelInterrupt
  <2>1. QueueType' /\ MapType' /\ HandlerType' /\ HistoryType'
    BY <1>13 DEF CancelInterrupt, QueueType, MapType, HandlerType, HistoryType
  <2>2. ExecutorType'
    BY <1>13, HubAssumption DEF CancelInterrupt, ExecutorType, ExecutorPcs, ReportPcs, GoTo
  <2>3. CallType'
    BY <1>13, CallRecordFacts, HubAssumption DEF CancelInterrupt, CallType, CallRecord, CallPcs, Returned
  <2>. QED BY <2>1, <2>2, <2>3
<1>14. CASE CancelAllNext
  <2>1. QueueType' /\ ExecutorType' /\ HandlerType'
    BY <1>14 DEF CancelAllNext, QueueType, ExecutorType, HandlerType
  <2>2. MapType'
    BY <1>14, AppendFacts, WithoutFacts, HubAssumption DEF CancelAllNext, MapType, CallType
  <2>3. CallType'
    <3>1. CASE call' = NoCall
      BY <1>14, <3>1, CallRecordFacts, HubAssumption DEF CancelAllNext, CallType
    <3>2. CASE call' # NoCall
      <4>1. /\ call.pos + 1 \in 1 .. Len(call.snapshot) /\ call.all
            /\ call' = [call EXCEPT !.at = "cancel", !.pos = call.pos + 1,
                                   !.task = call.snapshot[call.pos + 1]]
            /\ call.pos + 1 \in Nat
        BY <1>14, <3>2, LenProperties DEF CancelAllNext, CallType, CallRecord
      <4>2. call.snapshot[call.pos + 1] \in Tasks
        BY <4>1, ElementOfSeq DEF CallType, CallRecord
      <4>3. call' \in CallRecord
        BY <4>1, <4>2 DEF CallType, CallRecord, CallPcs
      <4>4. /\ call'.at = "cancel" /\ call'.task = call.snapshot[call.pos + 1]
            /\ call'.listener = call.listener /\ call'.list = call.list
        BY <4>1 DEF CallType, CallRecord
      <4>5. UNCHANGED <<callsLeft, messagesLeft>>
        BY <1>14 DEF CancelAllNext
      <4>. QED BY <4>1, <4>2, <4>3, <4>4, <4>5, HubAssumption DEF CallType
    <3>. QED BY <3>1, <3>2
  <2>4. HistoryType'
    <3>1. call.at = "next" => call.listener \in Listeners
      BY DEF CallType, CallRecord
    <3>2. asked' \subseteq asked \cup {call.snapshot[call.pos + 1]}
      BY <1>14 DEF CancelAllNext
    <3>3. asked' # asked => call.snapshot[call.pos + 1] \in Tasks
      <4>1. asked' # asked => call.pos + 1 \in 1 .. Len(call.snapshot)
        BY <1>14, LenProperties DEF CancelAllNext, CallType, CallRecord
      <4>. QED BY <4>1, ElementOfSeq DEF CallType, CallRecord
    <3>. QED BY <1>14, <3>1, <3>2, <3>3 DEF CancelAllNext, HistoryType
  <2>. QED BY <2>1, <2>2, <2>3, <2>4
<1>15. CASE DetachNext
  <2>1. QueueType' /\ ExecutorType' /\ HandlerType'
    BY <1>15 DEF DetachNext, QueueType, ExecutorType, HandlerType
  <2>2. MapType'
    BY <1>15, AppendFacts, WithoutFacts, HubAssumption DEF DetachNext, MapType, CallType
  <2>3. CallType'
    <3>1. CASE ~(call.pos < Len(lists[call.list]))
      BY <1>15, <3>1, CallRecordFacts, HubAssumption DEF DetachNext, CallType
    <3>2. CASE call.pos < Len(lists[call.list])
      <4>1. call' = [call EXCEPT !.at = "detach", !.pos = @ + 1] /\ call.at = "detachGet"
        BY <1>15, <3>2 DEF DetachNext
      <4>2. call' \in CallRecord
        <5>1. call \in CallRecord /\ call.pos + 1 \in Nat /\ "detach" \in CallPcs
          BY DEF CallType, CallRecord, CallPcs
        <5>2. call' = [call EXCEPT !.at = "detach", !.pos = call.pos + 1]
          BY <4>1
        <5> QED
          BY <5>1, <5>2 DEF CallRecord
      <4>3. /\ call'.at = "detach" /\ call'.listener = call.listener /\ call'.list = call.list
            /\ call'.all = call.all
        BY <4>1 DEF CallType, CallRecord
      <4>. QED BY <1>15, <4>1, <4>2, <4>3 DEF DetachNext, CallType
    <3>. QED BY <3>1, <3>2
  <2>4. HistoryType'
    BY SMTT(30), <1>15, AppendFacts, HubAssumption DEF DetachNext, HistoryType, CallType, CallRecord, MapType
  <2>. QED BY <2>1, <2>2, <2>3, <2>4
<1>16. CASE Deliver
  <2>1. QueueType' /\ ExecutorType' /\ MapType' /\ CallType'
    BY <1>16 DEF Deliver, QueueType, ExecutorType, MapType, CallType
  <2>2. HandlerType'
    BY <1>16, AppendFacts, TailFacts, HubAssumption DEF Deliver, HandlerType, Callback, Kinds
  <2>3. HistoryType'
    <3>1. Head(handler) \in Callback
      BY <1>16, TailFacts DEF Deliver, HandlerType
    <3>. QED BY <1>16, <3>1 DEF Deliver, HistoryType, Callback
  <2>. QED BY <2>1, <2>2, <2>3
<1>17. CASE RunMessage
  <2>1. QueueType' /\ MapType' /\ HandlerType' /\ HistoryType'
    BY <1>17 DEF RunMessage, QueueType, MapType, HandlerType, HistoryType
  <2>2. ExecutorType'
    BY <1>17, HubAssumption DEF RunMessage, ExecutorType, ExecutorPcs, ReportPcs, GoTo, MapType
  <2>3. CallType'
    BY <1>17, CallRecordFacts, HubAssumption DEF RunMessage, CallType, CallRecord, CallPcs, Returned
  <2>. QED BY <2>1, <2>2, <2>3
<1>18. CASE Start
  <2>1. QueueType' /\ MapType' /\ HandlerType' /\ CallType' /\ HistoryType'
    BY <1>18 DEF Start, QueueType, MapType, HandlerType, CallType, HistoryType
  <2>2. ExecutorType'
    BY <1>18, HubAssumption DEF Start, ExecutorType, ExecutorPcs, ReportPcs, GoTo
  <2>. QED BY <2>1, <2>2
<1>19. CASE LoopTest
  <2>1. QueueType' /\ MapType' /\ HandlerType' /\ CallType' /\ HistoryType'
    BY <1>19 DEF LoopTest, QueueType, MapType, HandlerType, CallType, HistoryType
  <2>2. ExecutorType'
    BY <1>19, HubAssumption DEF LoopTest, ExecutorType, ExecutorPcs, ReportPcs, GoTo
  <2>. QED BY <2>1, <2>2
<1>20. CASE Poll
  <2>1. MapType' /\ HandlerType' /\ CallType' /\ HistoryType'
    BY <1>20 DEF Poll, MapType, HandlerType, CallType, HistoryType
  <2>2. QueueType'
    BY <1>20, TailFacts, WithoutFacts, AppendFacts, HubAssumption DEF Poll, QueueType
  <2>3. ExecutorType'
    BY <1>20, HubAssumption, TailFacts DEF Poll, ExecutorType, ExecutorPcs, ReportPcs, GoTo, QueueType
  <2>. QED BY <2>1, <2>2, <2>3
<1>21. CASE PollInterrupted
  <2>1. QueueType' /\ MapType' /\ HandlerType' /\ CallType' /\ HistoryType'
    BY <1>21 DEF PollInterrupted, QueueType, MapType, HandlerType, CallType, HistoryType
  <2>2. ExecutorType'
    BY <1>21, HubAssumption DEF PollInterrupted, ExecutorType, ExecutorPcs, ReportPcs, GoTo
  <2>. QED BY <2>1, <2>2
<1>22. CASE Assign
  <2>1. QueueType' /\ MapType' /\ HandlerType' /\ CallType' /\ HistoryType'
    BY <1>22 DEF Assign, QueueType, MapType, HandlerType, CallType, HistoryType
  <2>2. ExecutorType'
    BY <1>22, HubAssumption DEF Assign, ExecutorType, ExecutorPcs, ReportPcs, GoTo
  <2>. QED BY <2>1, <2>2
<1>23. CASE CheckInterrupted
  <2>1. QueueType' /\ MapType' /\ HandlerType' /\ CallType' /\ HistoryType'
    BY <1>23 DEF CheckInterrupted, QueueType, MapType, HandlerType, CallType, HistoryType
  <2>2. ExecutorType'
    BY <1>23, HubAssumption DEF CheckInterrupted, ExecutorType, ExecutorPcs, ReportPcs, GoTo
  <2>. QED BY <2>1, <2>2
<1>24. CASE TellMessage
  <2>1. QueueType' /\ MapType' /\ CallType' /\ HistoryType'
    BY <1>24 DEF TellMessage, QueueType, MapType, CallType, HistoryType
  <2>2. ExecutorType'
    BY <1>24, HubAssumption DEF TellMessage, ExecutorType, ExecutorPcs, ReportPcs, GoTo
  <2>3. HandlerType'
    BY <1>24, AppendFacts, TailFacts, HubAssumption DEF TellMessage, HandlerType, Callback, Kinds, ExecutorType, GoTo, ReportPcs
  <2>. QED BY <2>1, <2>2, <2>3
<1>25. CASE RunReturn
  <2>1. QueueType' /\ MapType' /\ HandlerType' /\ CallType' /\ HistoryType'
    BY <1>25 DEF RunReturn, QueueType, MapType, HandlerType, CallType, HistoryType
  <2>2. ExecutorType'
    BY <1>25, HubAssumption DEF RunReturn, ExecutorType, ExecutorPcs, ReportPcs, GoTo
  <2>. QED BY <2>1, <2>2
<1>26. CASE RunThrow
  <2>1. QueueType' /\ MapType' /\ HandlerType' /\ CallType' /\ HistoryType'
    BY <1>26 DEF RunThrow, QueueType, MapType, HandlerType, CallType, HistoryType
  <2>2. ExecutorType'
    BY <1>26, HubAssumption DEF RunThrow, ExecutorType, ExecutorPcs, ReportPcs, GoTo
  <2>. QED BY <2>1, <2>2
<1>27. CASE CheckAfter
  <2>1. QueueType' /\ MapType' /\ HandlerType' /\ CallType' /\ HistoryType'
    BY <1>27 DEF CheckAfter, QueueType, MapType, HandlerType, CallType, HistoryType
  <2>2. ExecutorType'
    BY <1>27, HubAssumption DEF CheckAfter, ExecutorType, ExecutorPcs, ReportPcs, GoTo
  <2>. QED BY <2>1, <2>2
<1>28. CASE FindListener
  <2>1. QueueType' /\ MapType' /\ HandlerType' /\ CallType' /\ HistoryType'
    BY <1>28 DEF FindListener, QueueType, MapType, HandlerType, CallType, HistoryType
  <2>2. ExecutorType'
    BY <1>28, HubAssumption DEF FindListener, ExecutorType, ExecutorPcs, ReportPcs, GoTo, MapType
  <2>. QED BY <2>1, <2>2
<1>29. CASE Unregister
  <2>1. QueueType' /\ HandlerType' /\ CallType' /\ HistoryType'
    BY <1>29 DEF Unregister, QueueType, HandlerType, CallType, HistoryType
  <2>2. ExecutorType'
    BY <1>29, HubAssumption DEF Unregister, ExecutorType, ExecutorPcs, ReportPcs, GoTo
  <2>3. MapType'
    BY <1>29, AppendFacts, WithoutFacts, HubAssumption DEF Unregister, MapType, CallType
  <2>. QED BY <2>1, <2>2, <2>3
<1>30. CASE ContainsListener
  <2>1. QueueType' /\ MapType' /\ HandlerType' /\ CallType' /\ HistoryType'
    BY <1>30 DEF ContainsListener, QueueType, MapType, HandlerType, CallType, HistoryType
  <2>2. ExecutorType'
    BY <1>30, HubAssumption DEF ContainsListener, ExecutorType, ExecutorPcs, ReportPcs, GoTo
  <2>. QED BY <2>1, <2>2
<1>31. CASE RemoveFromList
  <2>1. QueueType' /\ HandlerType' /\ CallType' /\ HistoryType'
    BY <1>31 DEF RemoveFromList, QueueType, HandlerType, CallType, HistoryType
  <2>2. ExecutorType'
    BY <1>31, HubAssumption DEF RemoveFromList, ExecutorType, ExecutorPcs, ReportPcs, GoTo
  <2>3. MapType'
    <3>1. \A q \in Seq(Tasks) : \A t : Without(q, t) \in Seq(Tasks)
      BY WithoutFacts
    <3>2. \/ UNCHANGED <<listeners, byListener, lists>>
          \/ /\ UNCHANGED <<listeners, byListener>>
             /\ lists' = [lists EXCEPT ![byListener[captured]] = Without(@, current)]
             /\ byListener[captured] \in Tasks
      BY <1>31, HubAssumption DEF RemoveFromList, MapType, ExecutorType, ReportPcs
    <3>3. CASE UNCHANGED <<listeners, byListener, lists>>
      BY <3>3 DEF MapType
    <3>4. CASE /\ UNCHANGED <<listeners, byListener>>
               /\ lists' = [lists EXCEPT ![byListener[captured]] = Without(@, current)]
               /\ byListener[captured] \in Tasks
      <4>1. Without(lists[byListener[captured]], current) \in Seq(Tasks)
        BY <3>1, <3>4 DEF MapType
      <4>. QED BY <3>4, <4>1 DEF MapType
    <3>. QED BY <3>2, <3>3, <3>4
  <2>. QED BY <2>1, <2>2, <2>3
<1>32. CASE DropListener
  <2>1. QueueType' /\ HandlerType' /\ CallType' /\ HistoryType'
    BY <1>32 DEF DropListener, QueueType, HandlerType, CallType, HistoryType
  <2>2. ExecutorType'
    BY <1>32, HubAssumption DEF DropListener, ExecutorType, ExecutorPcs, ReportPcs, GoTo
  <2>3. MapType'
    BY <1>32, AppendFacts, WithoutFacts, HubAssumption DEF DropListener, MapType, CallType
  <2>. QED BY <2>1, <2>2, <2>3
<1>33. CASE PostOutcome
  <2>1. QueueType' /\ MapType' /\ CallType' /\ HistoryType'
    BY <1>33 DEF PostOutcome, QueueType, MapType, CallType, HistoryType
  <2>2. ExecutorType'
    BY <1>33, HubAssumption DEF PostOutcome, ExecutorType, ExecutorPcs, ReportPcs, GoTo
  <2>3. HandlerType'
    BY <1>33, AppendFacts, TailFacts, HubAssumption DEF PostOutcome, HandlerType, Callback, Kinds, ExecutorType, GoTo, ReportPcs
  <2>. QED BY <2>1, <2>2, <2>3
<1>35. CASE CancelAllHasNext
  <2>1. QueueType' /\ ExecutorType' /\ HandlerType' /\ HistoryType'
    BY <1>35 DEF CancelAllHasNext, QueueType, ExecutorType, HandlerType, HistoryType
  <2>2. MapType'
    BY <1>35, HubAssumption DEF CancelAllHasNext, MapType, CallType
  <2>3. CallType'
    <3>1. CASE call' = NoCall
      BY <1>35, <3>1, CallRecordFacts, HubAssumption DEF CancelAllHasNext, CallType
    <3>2. CASE call' = [call EXCEPT !.at = "next"]
      <4>1. call' \in CallRecord
        BY <3>2 DEF CallType, CallRecord, CallPcs
      <4>. QED BY <1>35, <3>2, <4>1 DEF CancelAllHasNext, CallType, CallRecord
    <3>. QED BY <1>35, <3>1, <3>2 DEF CancelAllHasNext
  <2>. QED BY <2>1, <2>2, <2>3
<1>36. CASE DetachTest
  <2>1. QueueType' /\ ExecutorType' /\ HandlerType' /\ HistoryType'
    BY <1>36 DEF DetachTest, QueueType, ExecutorType, HandlerType, HistoryType
  <2>2. MapType'
    BY <1>36, HubAssumption DEF DetachTest, MapType, CallType
  <2>3. CallType'
    <3>1. CASE call' = NoCall
      BY <1>36, <3>1, CallRecordFacts, HubAssumption DEF DetachTest, CallType
    <3>2. CASE call' = [call EXCEPT !.at = "detachGet"]
      <4>1. call' \in CallRecord
        BY <3>2 DEF CallType, CallRecord, CallPcs
      <4>. QED BY <1>36, <3>2, <4>1 DEF DetachTest, CallType, CallRecord
    <3>. QED BY <1>36, <3>1, <3>2 DEF DetachTest
  <2>. QED BY <2>1, <2>2, <2>3
<1>34. CASE UNCHANGED vars
  BY <1>34 DEF vars, QueueType, ExecutorType, MapType, HandlerType, CallType, HistoryType
<1>. QED
  BY <1>1, <1>2, <1>3, <1>4, <1>5, <1>6, <1>7, <1>8, <1>9, <1>10, <1>11, <1>12, <1>13, <1>14, <1>15, <1>16, <1>17, <1>18, <1>19, <1>20, <1>21, <1>22, <1>23, <1>24, <1>25, <1>26, <1>27, <1>28, <1>29, <1>30, <1>31, <1>32, <1>33, <1>34,
     <1>35, <1>36
     DEF Next, ClientCall, ClientStep, ExecutorStep

(* TypeOK is an invariant of the hub.                                       *)
THEOREM TypeCorrect == Spec => []TypeOK
<1>1. ASSUME Init PROVE TypeOK
  <2>1. QueueType /\ HandlerType /\ HistoryType
    BY <1>1, EmptySeq, HubAssumption DEF Init, QueueType, HandlerType, HistoryType
  <2>2. ExecutorType
    BY <1>1 DEF Init, ExecutorType, ExecutorPcs, ReportPcs
  <2>3. MapType
    BY <1>1, EmptySeq DEF Init, MapType
  <2>4. CallType
    BY <1>1, CallRecordFacts, HubAssumption DEF Init, CallType
  <2>. QED BY <2>1, <2>2, <2>3, <2>4 DEF TypeOK
<1>. QED BY <1>1, TypeStep, PTL DEF Spec
-----------------------------------------------------------------------------
(* The safety of the hub: one outcome at most, a callback for every         *)
(* registered listener, and silence for dropped tasks.                      *)

(* The places a task can be in are disjoint and no step but the listed ones *)
(* touches what IInv looks at.  A step that leaves the queue, the looper,   *)
(* the registrations and the history alone and moves no task into a place   *)
(* keeps IInv, as long as the executor lets go of unregistered tasks only.  *)
LEMMA FrameStep ==
  ASSUME IInv, HistoryType,
         UNCHANGED <<queue, handler, listeners, dropped, delivered, submitted>>,
         \A t \in Tasks : BeingAdded(t)' <=> BeingAdded(t),
         \A t \in Tasks : InExecutor(t)' => InExecutor(t),
         \A t \in Tasks : InExecutor(t) /\ ~InExecutor(t)' => listeners[t] = None,
         exPc' \in ReportPcs \ {"unreg"} => listeners[current'] = None
  PROVE  IInv'
<1>1. NoRepeat(queue)'
  BY DEF IInv, InOnePlace, NoRepeat
<1>2. OutcomeIsLast'
  BY DEF IInv, OutcomeIsLast
<1>3. ASSUME NEW t \in Tasks
      PROVE  /\ Mentioned(t)' = Mentioned(t) /\ Posted(t)' = Posted(t)
             /\ Holds(queue, t)' = Holds(queue, t) /\ Holds(submitted, t)' = Holds(submitted, t)
  BY DEF Mentioned, Posted, Holds
<1>4. ASSUME NEW t \in Tasks PROVE Fresh(t)' = Fresh(t)
  BY <1>3 DEF Fresh
<1>5. InOnePlace'
  <2>1. ASSUME NEW t \in Tasks
        PROVE  /\ BeingAdded(t)' => ~Holds(queue, t)' /\ ~InExecutor(t)' /\ Fresh(t)'
               /\ Holds(queue, t)' => ~InExecutor(t)' /\ Fresh(t)'
               /\ InExecutor(t)' => t \notin dropped' /\ t \notin delivered' /\ ~Posted(t)'
               /\ BeingAdded(t)' \/ Holds(queue, t)' \/ InExecutor(t)' \/ ~Fresh(t)'
                    \/ listeners'[t] # None => Holds(submitted, t)'
    BY <1>3, <1>4 DEF IInv, InOnePlace
  <2>2. (exPc \in ReportPcs \ {"unreg"} => listeners[current] = None)'
    BY DEF ReportPcs
  <2>. QED BY <1>1, <2>1, <2>2 DEF InOnePlace
<1>6. OwedACallback'
  BY <1>3 DEF IInv, OwedACallback
<1>7. DroppedNeverRuns'
  BY <1>3 DEF IInv, DroppedNeverRuns, HistoryType
<1>. QED BY <1>2, <1>5, <1>6, <1>7 DEF IInv

(* Posting a callback of a task that has no outcome yet keeps outcomes last. *)
LEMMA PostFacts ==
  ASSUME HandlerType, NEW c \in Callback, handler' = Append(handler, c)
  PROVE  /\ \A t : Mentioned(t)' <=> Mentioned(t) \/ t = c.task
         /\ \A t : Posted(t)' <=> Posted(t) \/ (t = c.task /\ c.kind # "message")
         /\ OutcomeIsLast /\ ~Posted(c.task) /\ c.task \notin delivered /\ delivered' = delivered
              => OutcomeIsLast'
<1>1. /\ Len(handler) \in Nat /\ Len(handler') = Len(handler) + 1
      /\ DOMAIN handler = 1 .. Len(handler) /\ DOMAIN handler' = 1 .. Len(handler) + 1
      /\ \A i \in 1 .. Len(handler) : handler'[i] = handler[i]
      /\ handler'[Len(handler) + 1] = c
  BY AppendProperties, LenProperties DEF HandlerType
<1>2. \A i \in 1 .. Len(handler) + 1 : i \in 1 .. Len(handler) \/ i = Len(handler) + 1
  BY <1>1
<1>3. \A i \in 1 .. Len(handler) : i \in 1 .. Len(handler) + 1 /\ i # Len(handler) + 1
  BY <1>1
<1>4. Len(handler) + 1 \in 1 .. Len(handler) + 1
  BY <1>1
<1>5. ASSUME NEW t PROVE Mentioned(t)' <=> Mentioned(t) \/ t = c.task
  BY <1>1, <1>2, <1>3, <1>4 DEF Mentioned
<1>6. ASSUME NEW t PROVE Posted(t)' <=> Posted(t) \/ (t = c.task /\ c.kind # "message")
  BY <1>1, <1>2, <1>3, <1>4 DEF Posted
<1>7. ASSUME OutcomeIsLast, ~Posted(c.task), c.task \notin delivered, delivered' = delivered
      PROVE  OutcomeIsLast'
  <2>1. ASSUME NEW i \in 1 .. Len(handler) + 1, NEW j \in 1 .. Len(handler) + 1, i < j,
               handler'[i].task = handler'[j].task
        PROVE  handler'[i].kind = "message"
    <3>1. i \in 1 .. Len(handler)
      BY <1>1, <2>1
    <3>2. CASE j \in 1 .. Len(handler)
      BY <1>1, <1>7, <2>1, <3>1, <3>2 DEF OutcomeIsLast
    <3>3. CASE j = Len(handler) + 1
      BY <1>1, <1>7, <2>1, <3>1, <3>3 DEF Posted
    <3>. QED BY <1>2, <3>2, <3>3
  <2>2. ASSUME NEW i \in 1 .. Len(handler) + 1 PROVE handler'[i].task \notin delivered'
    BY <1>1, <1>2, <1>7 DEF OutcomeIsLast
  <2>. QED BY <1>1, <2>1, <2>2 DEF OutcomeIsLast
<1>. QED BY <1>5, <1>6, <1>7

(* Running the oldest callback: if it was an outcome, nothing of its task is *)
(* left in the looper.                                                       *)
LEMMA DeliverFacts ==
  ASSUME HandlerType, OutcomeIsLast, Deliver
  PROVE  /\ OutcomeIsLast'
         /\ \A t : Mentioned(t)' => Mentioned(t)
         /\ \A t : Posted(t)' => Posted(t)
         /\ \A t \in delivered' \ delivered : Posted(t)
<1>1. /\ Len(handler) \in Nat /\ Len(handler) >= 1 /\ Len(handler') = Len(handler) - 1
      /\ DOMAIN handler = 1 .. Len(handler) /\ DOMAIN handler' = 1 .. Len(handler) - 1
      /\ \A i \in 1 .. Len(handler) - 1 : handler'[i] = handler[i + 1]
      /\ Head(handler) = handler[1]
  BY HeadTailProperties, LenProperties, EmptySeq DEF HandlerType, Deliver
<1>2. \A i \in 1 .. Len(handler) - 1 : i + 1 \in 1 .. Len(handler) /\ 1 < i + 1
  BY <1>1
<1>3. 1 \in 1 .. Len(handler)
  BY <1>1
<1>4. ASSUME NEW t, Mentioned(t)' PROVE Mentioned(t)
  <2>1. PICK i \in 1 .. Len(handler) - 1 : handler'[i].task = t
    BY <1>1, <1>4 DEF Mentioned
  <2>. QED BY <1>1, <1>2, <2>1 DEF Mentioned
<1>5. ASSUME NEW t, Posted(t)' PROVE Posted(t)
  <2>1. PICK i \in 1 .. Len(handler) - 1 : handler'[i].task = t /\ handler'[i].kind # "message"
    BY <1>1, <1>5 DEF Posted
  <2>. QED BY <1>1, <1>2, <2>1 DEF Posted
<1>6. ASSUME NEW t \in delivered' \ delivered
      PROVE  t = handler[1].task /\ handler[1].kind # "message"
  BY <1>1, <1>6 DEF Deliver
<1>7. ASSUME NEW t \in delivered' \ delivered PROVE Posted(t)
  BY <1>1, <1>3, <1>6 DEF Posted
<1>8. OutcomeIsLast'
  <2>1. ASSUME NEW i \in 1 .. Len(handler) - 1, NEW j \in 1 .. Len(handler) - 1, i < j,
               handler'[i].task = handler'[j].task
        PROVE  handler'[i].kind = "message"
    <3>1. i + 1 < j + 1
      BY <2>1
    <3>. QED BY <1>1, <1>2, <2>1, <3>1 DEF OutcomeIsLast
  <2>2. ASSUME NEW i \in 1 .. Len(handler) - 1 PROVE handler'[i].task \notin delivered'
    <3>1. handler[i + 1].task \notin delivered
      BY <1>1, <1>2 DEF OutcomeIsLast
    <3>2. handler[1].kind # "message" => handler[i + 1].task # handler[1].task
      BY <1>1, <1>2, <1>3 DEF OutcomeIsLast
    <3>. QED BY <1>1, <1>6, <3>1, <3>2
  <2>. QED BY <1>1, <2>1, <2>2 DEF OutcomeIsLast
<1>. QED BY <1>4, <1>5, <1>7, <1>8

(* The part of IInv that speaks of one task.                                *)
TaskInv(t) ==
  /\ BeingAdded(t) => ~Holds(queue, t) /\ ~InExecutor(t) /\ Fresh(t)
  /\ Holds(queue, t) => ~InExecutor(t) /\ Fresh(t)
  /\ InExecutor(t) => t \notin dropped /\ t \notin delivered /\ ~Posted(t)
  /\ BeingAdded(t) \/ Holds(queue, t) \/ InExecutor(t) \/ ~Fresh(t) \/ listeners[t] # None
       => Holds(submitted, t)
  /\ listeners[t] # None => BeingAdded(t) \/ Holds(queue, t) \/ InExecutor(t) \/ t \in dropped
  /\ t \in dropped => ~Holds(queue, t) /\ ~InExecutor(t) /\ ~Posted(t) /\ t \notin delivered

(* IInv, task by task.                                                      *)
LEMMA TaskByTask ==
  HistoryType =>
    (IInv <=> /\ NoRepeat(queue) /\ OutcomeIsLast
              /\ exPc \in ReportPcs \ {"unreg"} => listeners[current] = None
              /\ \A t \in Tasks : TaskInv(t))
  BY DEF HistoryType, IInv, InOnePlace, OwedACallback, DroppedNeverRuns, TaskInv

(* Every step of the two threads keeps IInv.                                *)
LEMMA SafetyStep == TypeOK /\ IInv /\ [Next]_vars => IInv'
<1> SUFFICES ASSUME TypeOK, IInv, [Next]_vars PROVE IInv'
  OBVIOUS
<1> USE DEF executorVars, mapVars, historyVars
<1>a. /\ QueueType /\ ExecutorType /\ MapType /\ HandlerType /\ CallType /\ HistoryType
      /\ HistoryType' /\ QueueType'
  BY TypeStep DEF TypeOK
<1>b. /\ NoRepeat(queue) /\ OutcomeIsLast /\ \A t \in Tasks : TaskInv(t)
      /\ exPc \in ReportPcs \ {"unreg"} => listeners[current] = None
  BY <1>a, TaskByTask
<1>c. ASSUME NoRepeat(queue)', OutcomeIsLast', \A t \in Tasks : TaskInv(t)',
             (exPc \in ReportPcs \ {"unreg"} => listeners[current] = None)'
      PROVE  IInv'
  BY <1>a, <1>c DEF HistoryType, IInv, InOnePlace, OwedACallback, DroppedNeverRuns, TaskInv
<1>1. ASSUME NEW t \in Tasks, NEW stop \in BOOLEAN, CancelTask(t, stop) PROVE IInv'
  <2>1. ASSUME NEW u \in Tasks PROVE BeingAdded(u)' <=> BeingAdded(u)
    BY <1>1, <1>a DEF CancelTask, BeingAdded, NoCall, Returned, CallType, CallRecord
  <2>2. ASSUME NEW u \in Tasks
        PROVE  /\ InExecutor(u)' => InExecutor(u)
               /\ InExecutor(u) /\ ~InExecutor(u)' => listeners[u] = None
    BY <1>1, <1>a, <1>b DEF CancelTask, InExecutor, Reporting, ReportPcs, GoTo, ExecutorType
  <2>3. exPc' \in ReportPcs \ {"unreg"} => listeners[current'] = None
    BY <1>1, <1>b DEF CancelTask, ReportPcs, GoTo
  <2>. QED BY <1>1, <1>a, <2>1, <2>2, <2>3, FrameStep DEF CancelTask
<1>2. ASSUME NEW l \in Listeners, NEW stop \in BOOLEAN, CancelAll(l, stop) PROVE IInv'
  <2>1. ASSUME NEW u \in Tasks PROVE BeingAdded(u)' <=> BeingAdded(u)
    <3>1. call.at = "idle"
      BY <1>2, CallRecordFacts DEF CancelAll
    <3>2. call'.at \in {"idle", "all"}
      BY <1>2, CallRecordFacts DEF CancelAll, NoCall
    <3>. QED BY <3>1, <3>2 DEF BeingAdded
  <2>2. ASSUME NEW u \in Tasks
        PROVE  /\ InExecutor(u)' => InExecutor(u)
               /\ InExecutor(u) /\ ~InExecutor(u)' => listeners[u] = None
    BY <1>2, <1>a, <1>b DEF CancelAll, InExecutor, Reporting, ReportPcs, GoTo, ExecutorType
  <2>3. exPc' \in ReportPcs \ {"unreg"} => listeners[current'] = None
    BY <1>2, <1>b DEF CancelAll, ReportPcs, GoTo
  <2>. QED BY <1>2, <1>a, <2>1, <2>2, <2>3, FrameStep DEF CancelAll
<1>3. ASSUME NEW l \in Listeners, DetachFromTasks(l) PROVE IInv'
  <2>1. ASSUME NEW u \in Tasks PROVE BeingAdded(u)' <=> BeingAdded(u)
    BY <1>3, <1>a DEF DetachFromTasks, BeingAdded, NoCall, Returned, CallType, CallRecord
  <2>2. ASSUME NEW u \in Tasks
        PROVE  /\ InExecutor(u)' => InExecutor(u)
               /\ InExecutor(u) /\ ~InExecutor(u)' => listeners[u] = None
    BY <1>3, <1>a, <1>b DEF DetachFromTasks, InExecutor, Reporting, ReportPcs, GoTo, ExecutorType
  <2>3. exPc' \in ReportPcs \ {"unreg"} => listeners[current'] = None
    BY <1>3, <1>b DEF DetachFromTasks, ReportPcs, GoTo
  <2>. QED BY <1>3, <1>a, <2>1, <2>2, <2>3, FrameStep DEF DetachFromTasks
<1>4. CASE AddLookup
  <2>1. ASSUME NEW u \in Tasks PROVE BeingAdded(u)' <=> BeingAdded(u)
    BY <1>4, <1>a DEF AddLookup, BeingAdded, NoCall, Returned, CallType, CallRecord
  <2>2. ASSUME NEW u \in Tasks
        PROVE  /\ InExecutor(u)' => InExecutor(u)
               /\ InExecutor(u) /\ ~InExecutor(u)' => listeners[u] = None
    BY <1>4, <1>a, <1>b DEF AddLookup, InExecutor, Reporting, ReportPcs, GoTo, ExecutorType
  <2>3. exPc' \in ReportPcs \ {"unreg"} => listeners[current'] = None
    BY <1>4, <1>b DEF AddLookup, ReportPcs, GoTo
  <2>. QED BY <1>4, <1>a, <2>1, <2>2, <2>3, FrameStep DEF AddLookup
<1>5. CASE AddAppend
  <2>1. ASSUME NEW u \in Tasks PROVE BeingAdded(u)' <=> BeingAdded(u)
    BY <1>5, <1>a DEF AddAppend, BeingAdded, NoCall, Returned, CallType, CallRecord
  <2>2. ASSUME NEW u \in Tasks
        PROVE  /\ InExecutor(u)' => InExecutor(u)
               /\ InExecutor(u) /\ ~InExecutor(u)' => listeners[u] = None
    BY <1>5, <1>a, <1>b DEF AddAppend, InExecutor, Reporting, ReportPcs, GoTo, ExecutorType
  <2>3. exPc' \in ReportPcs \ {"unreg"} => listeners[current'] = None
    BY <1>5, <1>b DEF AddAppend, ReportPcs, GoTo
  <2>. QED BY <1>5, <1>a, <2>1, <2>2, <2>3, FrameStep DEF AddAppend
<1>6. CASE AddPut
  <2>1. ASSUME NEW u \in Tasks PROVE BeingAdded(u)' <=> BeingAdded(u)
    BY <1>6, <1>a DEF AddPut, BeingAdded, NoCall, Returned, CallType, CallRecord
  <2>2. ASSUME NEW u \in Tasks
        PROVE  /\ InExecutor(u)' => InExecutor(u)
               /\ InExecutor(u) /\ ~InExecutor(u)' => listeners[u] = None
    BY <1>6, <1>a, <1>b DEF AddPut, InExecutor, Reporting, ReportPcs, GoTo, ExecutorType
  <2>3. exPc' \in ReportPcs \ {"unreg"} => listeners[current'] = None
    BY <1>6, <1>b DEF AddPut, ReportPcs, GoTo
  <2>. QED BY <1>6, <1>a, <2>1, <2>2, <2>3, FrameStep DEF AddPut
<1>7. CASE CancelFlag
  <2>1. ASSUME NEW u \in Tasks PROVE BeingAdded(u)' <=> BeingAdded(u)
    BY <1>7, <1>a DEF CancelFlag, BeingAdded, NoCall, Returned, CallType, CallRecord
  <2>2. ASSUME NEW u \in Tasks
        PROVE  /\ InExecutor(u)' => InExecutor(u)
               /\ InExecutor(u) /\ ~InExecutor(u)' => listeners[u] = None
    BY <1>7, <1>a, <1>b DEF CancelFlag, InExecutor, Reporting, ReportPcs, GoTo, ExecutorType
  <2>3. exPc' \in ReportPcs \ {"unreg"} => listeners[current'] = None
    BY <1>7, <1>b DEF CancelFlag, ReportPcs, GoTo
  <2>. QED BY <1>7, <1>a, <2>1, <2>2, <2>3, FrameStep DEF CancelFlag
<1>8. CASE CancelInterrupt
  <2>1. ASSUME NEW u \in Tasks PROVE BeingAdded(u)' <=> BeingAdded(u)
    BY <1>8, <1>a DEF CancelInterrupt, BeingAdded, NoCall, Returned, CallType, CallRecord
  <2>2. ASSUME NEW u \in Tasks
        PROVE  /\ InExecutor(u)' => InExecutor(u)
               /\ InExecutor(u) /\ ~InExecutor(u)' => listeners[u] = None
    BY <1>8, <1>a, <1>b DEF CancelInterrupt, InExecutor, Reporting, ReportPcs, GoTo, ExecutorType
  <2>3. exPc' \in ReportPcs \ {"unreg"} => listeners[current'] = None
    BY <1>8, <1>b DEF CancelInterrupt, ReportPcs, GoTo
  <2>. QED BY <1>8, <1>a, <2>1, <2>2, <2>3, FrameStep DEF CancelInterrupt
<1>9. CASE CancelAllNext
  <2>1. ASSUME NEW u \in Tasks PROVE BeingAdded(u)' <=> BeingAdded(u)
    <3>1. call.at = "next"
      BY <1>9 DEF CancelAllNext
    <3>2. call'.at \in {"idle", "cancel"}
      BY <1>9, <1>a, CallRecordFacts DEF CancelAllNext, CallType, CallRecord
    <3>. QED BY <3>1, <3>2 DEF BeingAdded
  <2>2. ASSUME NEW u \in Tasks
        PROVE  /\ InExecutor(u)' => InExecutor(u)
               /\ InExecutor(u) /\ ~InExecutor(u)' => listeners[u] = None
    BY <1>9, <1>a, <1>b DEF CancelAllNext, InExecutor, Reporting, ReportPcs, GoTo, ExecutorType
  <2>3. exPc' \in ReportPcs \ {"unreg"} => listeners[current'] = None
    BY <1>9, <1>b DEF CancelAllNext, ReportPcs, GoTo
  <2>. QED BY <1>9, <1>a, <2>1, <2>2, <2>3, FrameStep DEF CancelAllNext
<1>10. CASE RunMessage
  <2>1. ASSUME NEW u \in Tasks PROVE BeingAdded(u)' <=> BeingAdded(u)
    BY <1>10, <1>a DEF RunMessage, BeingAdded, NoCall
  <2>2. ASSUME NEW u \in Tasks
        PROVE  /\ InExecutor(u)' => InExecutor(u)
               /\ InExecutor(u) /\ ~InExecutor(u)' => listeners[u] = None
    BY <1>10, <1>a, <1>b DEF RunMessage, InExecutor, Reporting, ReportPcs, GoTo, ExecutorType
  <2>3. exPc' \in ReportPcs \ {"unreg"} => listeners[current'] = None
    BY <1>10, <1>b DEF RunMessage, ReportPcs, GoTo
  <2>. QED BY <1>10, <1>a, <2>1, <2>2, <2>3, FrameStep DEF RunMessage
<1>11. CASE Start
  <2>1. ASSUME NEW u \in Tasks PROVE BeingAdded(u)' <=> BeingAdded(u)
    BY <1>11, <1>a DEF Start, BeingAdded, NoCall
  <2>2. ASSUME NEW u \in Tasks
        PROVE  /\ InExecutor(u)' => InExecutor(u)
               /\ InExecutor(u) /\ ~InExecutor(u)' => listeners[u] = None
    BY <1>11, <1>a, <1>b DEF Start, InExecutor, Reporting, ReportPcs, GoTo, ExecutorType
  <2>3. exPc' \in ReportPcs \ {"unreg"} => listeners[current'] = None
    BY <1>11, <1>b DEF Start, ReportPcs, GoTo
  <2>. QED BY <1>11, <1>a, <2>1, <2>2, <2>3, FrameStep DEF Start
<1>12. CASE LoopTest
  <2>1. ASSUME NEW u \in Tasks PROVE BeingAdded(u)' <=> BeingAdded(u)
    BY <1>12, <1>a DEF LoopTest, BeingAdded, NoCall
  <2>2. ASSUME NEW u \in Tasks
        PROVE  /\ InExecutor(u)' => InExecutor(u)
               /\ InExecutor(u) /\ ~InExecutor(u)' => listeners[u] = None
    BY <1>12, <1>a, <1>b DEF LoopTest, InExecutor, Reporting, ReportPcs, GoTo, ExecutorType
  <2>3. exPc' \in ReportPcs \ {"unreg"} => listeners[current'] = None
    BY <1>12, <1>b DEF LoopTest, ReportPcs, GoTo
  <2>. QED BY <1>12, <1>a, <2>1, <2>2, <2>3, FrameStep DEF LoopTest
<1>13. CASE PollInterrupted
  <2>1. ASSUME NEW u \in Tasks PROVE BeingAdded(u)' <=> BeingAdded(u)
    BY <1>13, <1>a DEF PollInterrupted, BeingAdded, NoCall
  <2>2. ASSUME NEW u \in Tasks
        PROVE  /\ InExecutor(u)' => InExecutor(u)
               /\ InExecutor(u) /\ ~InExecutor(u)' => listeners[u] = None
    BY <1>13, <1>a, <1>b DEF PollInterrupted, InExecutor, Reporting, ReportPcs, GoTo, ExecutorType
  <2>3. exPc' \in ReportPcs \ {"unreg"} => listeners[current'] = None
    BY <1>13, <1>b DEF PollInterrupted, ReportPcs, GoTo
  <2>. QED BY <1>13, <1>a, <2>1, <2>2, <2>3, FrameStep DEF PollInterrupted
<1>14. CASE Assign
  <2>1. ASSUME NEW u \in Tasks PROVE BeingAdded(u)' <=> BeingAdded(u)
    BY <1>14, <1>a DEF Assign, BeingAdded, NoCall
  <2>2. ASSUME NEW u \in Tasks
        PROVE  /\ InExecutor(u)' => InExecutor(u)
               /\ InExecutor(u) /\ ~InExecutor(u)' => listeners[u] = None
    BY <1>14, <1>a, <1>b, HubAssumption DEF Assign, InExecutor, Reporting, ReportPcs, GoTo, ExecutorType
  <2>3. exPc' \in ReportPcs \ {"unreg"} => listeners[current'] = None
    BY <1>14, <1>b DEF Assign, ReportPcs, GoTo
  <2>. QED BY <1>14, <1>a, <2>1, <2>2, <2>3, FrameStep DEF Assign
<1>15. CASE CheckInterrupted
  <2>1. ASSUME NEW u \in Tasks PROVE BeingAdded(u)' <=> BeingAdded(u)
    BY <1>15, <1>a DEF CheckInterrupted, BeingAdded, NoCall
  <2>2. ASSUME NEW u \in Tasks
        PROVE  /\ InExecutor(u)' => InExecutor(u)
               /\ InExecutor(u) /\ ~InExecutor(u)' => listeners[u] = None
    BY <1>15, <1>a, <1>b DEF CheckInterrupted, InExecutor, Reporting, ReportPcs, GoTo, ExecutorType
  <2>3. exPc' \in ReportPcs \ {"unreg"} => listeners[current'] = None
    BY <1>15, <1>b DEF CheckInterrupted, ReportPcs, GoTo
  <2>. QED BY <1>15, <1>a, <2>1, <2>2, <2>3, FrameStep DEF CheckInterrupted
<1>16. CASE RunReturn
  <2>1. ASSUME NEW u \in Tasks PROVE BeingAdded(u)' <=> BeingAdded(u)
    BY <1>16, <1>a DEF RunReturn, BeingAdded, NoCall
  <2>2. ASSUME NEW u \in Tasks
        PROVE  /\ InExecutor(u)' => InExecutor(u)
               /\ InExecutor(u) /\ ~InExecutor(u)' => listeners[u] = None
    BY <1>16, <1>a, <1>b DEF RunReturn, InExecutor, Reporting, ReportPcs, GoTo, ExecutorType
  <2>3. exPc' \in ReportPcs \ {"unreg"} => listeners[current'] = None
    BY <1>16, <1>b DEF RunReturn, ReportPcs, GoTo
  <2>. QED BY <1>16, <1>a, <2>1, <2>2, <2>3, FrameStep DEF RunReturn
<1>17. CASE RunThrow
  <2>1. ASSUME NEW u \in Tasks PROVE BeingAdded(u)' <=> BeingAdded(u)
    BY <1>17, <1>a DEF RunThrow, BeingAdded, NoCall
  <2>2. ASSUME NEW u \in Tasks
        PROVE  /\ InExecutor(u)' => InExecutor(u)
               /\ InExecutor(u) /\ ~InExecutor(u)' => listeners[u] = None
    BY <1>17, <1>a, <1>b DEF RunThrow, InExecutor, Reporting, ReportPcs, GoTo, ExecutorType
  <2>3. exPc' \in ReportPcs \ {"unreg"} => listeners[current'] = None
    BY <1>17, <1>b DEF RunThrow, ReportPcs, GoTo
  <2>. QED BY <1>17, <1>a, <2>1, <2>2, <2>3, FrameStep DEF RunThrow
<1>18. CASE CheckAfter
  <2>1. ASSUME NEW u \in Tasks PROVE BeingAdded(u)' <=> BeingAdded(u)
    BY <1>18, <1>a DEF CheckAfter, BeingAdded, NoCall
  <2>2. ASSUME NEW u \in Tasks
        PROVE  /\ InExecutor(u)' => InExecutor(u)
               /\ InExecutor(u) /\ ~InExecutor(u)' => listeners[u] = None
    BY <1>18, <1>a, <1>b DEF CheckAfter, InExecutor, Reporting, ReportPcs, GoTo, ExecutorType
  <2>3. exPc' \in ReportPcs \ {"unreg"} => listeners[current'] = None
    BY <1>18, <1>b DEF CheckAfter, ReportPcs, GoTo
  <2>. QED BY <1>18, <1>a, <2>1, <2>2, <2>3, FrameStep DEF CheckAfter
<1>19. CASE FindListener
  <2>1. ASSUME NEW u \in Tasks PROVE BeingAdded(u)' <=> BeingAdded(u)
    BY <1>19, <1>a DEF FindListener, BeingAdded, NoCall
  <2>2. ASSUME NEW u \in Tasks
        PROVE  /\ InExecutor(u)' => InExecutor(u)
               /\ InExecutor(u) /\ ~InExecutor(u)' => listeners[u] = None
    BY <1>19, <1>a, <1>b DEF FindListener, InExecutor, Reporting, ReportPcs, GoTo, ExecutorType
  <2>3. exPc' \in ReportPcs \ {"unreg"} => listeners[current'] = None
    BY <1>19, <1>b DEF FindListener, ReportPcs, GoTo
  <2>. QED BY <1>19, <1>a, <2>1, <2>2, <2>3, FrameStep DEF FindListener
<1>20. CASE ContainsListener
  <2>1. ASSUME NEW u \in Tasks PROVE BeingAdded(u)' <=> BeingAdded(u)
    BY <1>20, <1>a DEF ContainsListener, BeingAdded, NoCall
  <2>2. ASSUME NEW u \in Tasks
        PROVE  /\ InExecutor(u)' => InExecutor(u)
               /\ InExecutor(u) /\ ~InExecutor(u)' => listeners[u] = None
    BY <1>20, <1>a, <1>b DEF ContainsListener, InExecutor, Reporting, ReportPcs, GoTo, ExecutorType
  <2>3. exPc' \in ReportPcs \ {"unreg"} => listeners[current'] = None
    BY <1>20, <1>b DEF ContainsListener, ReportPcs, GoTo
  <2>. QED BY <1>20, <1>a, <2>1, <2>2, <2>3, FrameStep DEF ContainsListener
<1>21. CASE RemoveFromList
  <2>1. ASSUME NEW u \in Tasks PROVE BeingAdded(u)' <=> BeingAdded(u)
    BY <1>21, <1>a DEF RemoveFromList, BeingAdded, NoCall
  <2>2. ASSUME NEW u \in Tasks
        PROVE  /\ InExecutor(u)' => InExecutor(u)
               /\ InExecutor(u) /\ ~InExecutor(u)' => listeners[u] = None
    BY <1>21, <1>a, <1>b DEF RemoveFromList, InExecutor, Reporting, ReportPcs, GoTo, ExecutorType
  <2>3. exPc' \in ReportPcs \ {"unreg"} => listeners[current'] = None
    BY <1>21, <1>b DEF RemoveFromList, ReportPcs, GoTo
  <2>. QED BY <1>21, <1>a, <2>1, <2>2, <2>3, FrameStep DEF RemoveFromList
<1>22. CASE DropListener
  <2>1. ASSUME NEW u \in Tasks PROVE BeingAdded(u)' <=> BeingAdded(u)
    BY <1>22, <1>a DEF DropListener, BeingAdded, NoCall
  <2>2. ASSUME NEW u \in Tasks
        PROVE  /\ InExecutor(u)' => InExecutor(u)
               /\ InExecutor(u) /\ ~InExecutor(u)' => listeners[u] = None
    BY <1>22, <1>a, <1>b DEF DropListener, InExecutor, Reporting, ReportPcs, GoTo, ExecutorType
  <2>3. exPc' \in ReportPcs \ {"unreg"} => listeners[current'] = None
    BY <1>22, <1>b DEF DropListener, ReportPcs, GoTo
  <2>. QED BY <1>22, <1>a, <2>1, <2>2, <2>3, FrameStep DEF DropListener
<1>23. CASE StopTasksMultiplexor
  <2>1. ASSUME NEW u \in Tasks PROVE BeingAdded(u)' <=> BeingAdded(u)
    BY <1>23, <1>a DEF StopTasksMultiplexor, BeingAdded, NoCall
  <2>2. ASSUME NEW u \in Tasks
        PROVE  /\ InExecutor(u)' => InExecutor(u)
               /\ InExecutor(u) /\ ~InExecutor(u)' => listeners[u] = None
    BY <1>23, <1>a, <1>b DEF StopTasksMultiplexor, InExecutor, Reporting, ReportPcs, GoTo, ExecutorType
  <2>3. exPc' \in ReportPcs \ {"unreg"} => listeners[current'] = None
    BY <1>23, <1>b DEF StopTasksMultiplexor, ReportPcs, GoTo
  <2>. QED BY <1>23, <1>a, <2>1, <2>2, <2>3, FrameStep DEF StopTasksMultiplexor
<1>24. ASSUME NEW t \in Tasks, NEW l \in Listeners, AddTask(t, l) PROVE IInv'
  <2>1. /\ ~Holds(submitted, t) /\ \A u : ~BeingAdded(u)
        /\ \A u : Holds(submitted, u)' <=> Holds(submitted, u) \/ u = t
        /\ \A u : BeingAdded(u)' <=> u = t
        /\ \A u : InExecutor(u)' <=> InExecutor(u)
        /\ listeners' = [listeners EXCEPT ![t] = l]
        /\ UNCHANGED <<queue, handler, dropped, delivered, exPc, current>>
    <3>1. submitted' = Append(submitted, t) /\ submitted \in Seq(Tasks)
      BY <1>24, <1>a DEF AddTask, HistoryType
    <3>2. \A u : Holds(submitted', u) <=> Holds(submitted, u) \/ u = t
      BY <3>1, AppendFacts
    <3>3. call.at = "idle" /\ call'.at = "lookup" /\ call'.task = t
      BY <1>24, CallRecordFacts DEF AddTask, NoCall
    <3>4. \A u : InExecutor(u)' <=> InExecutor(u)
      BY <1>24 DEF AddTask, InExecutor, Reporting, ReportPcs
    <3>. QED BY <1>24, <3>2, <3>3, <3>4 DEF AddTask, BeingAdded, Holds
  <2>2. TaskInv(t) /\ ~Holds(queue, t) /\ ~InExecutor(t) /\ Fresh(t)
    BY <1>b, <2>1 DEF TaskInv
  <2>3. ASSUME NEW u \in Tasks PROVE TaskInv(u)'
    <3>1. /\ Mentioned(u)' = Mentioned(u) /\ Posted(u)' = Posted(u)
          /\ Holds(queue, u)' = Holds(queue, u)
      BY <2>1 DEF Mentioned, Posted, Holds
    <3>2. TaskInv(u)
      BY <1>b
    <3>3. CASE u = t
      BY <1>a, <2>1, <2>2, <3>1, <3>3 DEF TaskInv, Fresh, MapType
    <3>4. CASE u # t
      BY <1>a, <2>1, <3>1, <3>2, <3>4 DEF TaskInv, Fresh, MapType
    <3>. QED BY <3>3, <3>4
  <2>4. (exPc \in ReportPcs \ {"unreg"} => listeners[current] = None)'
    <3>1. exPc \in ReportPcs => current # t
      BY <2>2 DEF InExecutor, Reporting
    <3>. QED BY <1>a, <1>b, <2>1, <3>1 DEF MapType, ExecutorType, ReportPcs
  <2>5. NoRepeat(queue)' /\ OutcomeIsLast'
    BY <1>b, <2>1 DEF NoRepeat, OutcomeIsLast
  <2>. QED BY <1>c, <2>3, <2>4, <2>5
<1>25. CASE AddGet
  <2>1. /\ BeingAdded(call.task) /\ call.task \in Tasks
        /\ \A u : InExecutor(u)' <=> InExecutor(u)
        /\ UNCHANGED <<queue, handler, delivered, submitted, listeners, exPc, current>>
    BY <1>25, <1>a DEF AddGet, BeingAdded, CallType, CallRecord, InExecutor, Reporting, ReportPcs
  <2>2. \/ /\ \A u : ~BeingAdded(u)'
           /\ dropped' = dropped \cup {call.task}
        \/ /\ \A u : BeingAdded(u)' <=> BeingAdded(u)
           /\ dropped' = dropped
    BY <1>25, <1>a, CallRecordFacts DEF AddGet, BeingAdded, CallType, CallRecord
  <2>3. ASSUME NEW u \in Tasks PROVE TaskInv(u)'
    <3>1. /\ Mentioned(u)' = Mentioned(u) /\ Posted(u)' = Posted(u)
          /\ Holds(queue, u)' = Holds(queue, u) /\ Holds(submitted, u)' = Holds(submitted, u)
          /\ Mentioned(u) \/ ~Posted(u)
      BY <2>1 DEF Mentioned, Posted, Holds
    <3>2. TaskInv(u) /\ (BeingAdded(u) => u = call.task)
      BY <1>b DEF BeingAdded
    <3>. QED BY <2>1, <2>2, <3>1, <3>2 DEF TaskInv, Fresh
  <2>4. (exPc \in ReportPcs \ {"unreg"} => listeners[current] = None)'
    BY <1>b, <2>1
  <2>5. NoRepeat(queue)' /\ OutcomeIsLast'
    BY <1>b, <2>1 DEF NoRepeat, OutcomeIsLast
  <2>. QED BY <1>c, <2>3, <2>4, <2>5
<1>26. CASE AddOffer
  <2>1. /\ BeingAdded(call.task) /\ call.task \in Tasks
        /\ \A u : ~BeingAdded(u)'
        /\ \A u : InExecutor(u)' <=> InExecutor(u)
        /\ UNCHANGED <<handler, delivered, submitted, listeners, exPc, current>>
    BY <1>26, <1>a, CallRecordFacts
       DEF AddOffer, BeingAdded, CallType, CallRecord, InExecutor, Reporting, ReportPcs
  <2>2. ~Holds(queue, call.task) /\ ~InExecutor(call.task) /\ Fresh(call.task)
    BY <1>b, <2>1 DEF TaskInv
  <2>3. \/ /\ \A u : Holds(queue, u)' <=> Holds(queue, u) \/ u = call.task
           /\ dropped' = dropped /\ NoRepeat(queue)'
        \/ /\ \A u : Holds(queue, u)' <=> Holds(queue, u)
           /\ dropped' = dropped \cup {call.task} /\ NoRepeat(queue)'
    <3>1. CASE queue' = Append(queue, call.task) /\ dropped' = dropped
      BY <1>a, <1>b, <2>1, <2>2, <3>1, AppendFacts DEF QueueType, Holds, NoRepeat
    <3>2. CASE queue' = queue /\ dropped' = dropped \cup {call.task}
      BY <1>b, <3>2 DEF Holds, NoRepeat
    <3>. QED BY <1>26, <3>1, <3>2 DEF AddOffer
  <2>4. ASSUME NEW u \in Tasks PROVE TaskInv(u)'
    <3>1. /\ Mentioned(u)' = Mentioned(u) /\ Posted(u)' = Posted(u)
          /\ Holds(submitted, u)' = Holds(submitted, u) /\ (Mentioned(u) \/ ~Posted(u))
      BY <2>1 DEF Mentioned, Posted, Holds
    <3>2. TaskInv(u) /\ (BeingAdded(u) => u = call.task)
      BY <1>b DEF BeingAdded
    <3>. QED BY <2>1, <2>2, <2>3, <3>1, <3>2 DEF TaskInv, Fresh
  <2>5. (exPc \in ReportPcs \ {"unreg"} => listeners[current] = None)'
    BY <1>b, <2>1
  <2>6. OutcomeIsLast'
    BY <1>b, <2>1 DEF OutcomeIsLast
  <2>. QED BY <1>c, <2>3, <2>4, <2>5, <2>6
<1>27. CASE CancelCompare
  <2>1. /\ \A u : ~BeingAdded(u) /\ ~BeingAdded(u)'
        /\ \A u : InExecutor(u)' <=> InExecutor(u)
        /\ UNCHANGED <<handler, delivered, submitted, listeners, exPc, current>>
    BY <1>27, <1>a, CallRecordFacts
       DEF CancelCompare, Returned, BeingAdded, CallType, CallRecord, InExecutor, Reporting, ReportPcs
  <2>2. NoRepeat(queue)' /\ \A u : Holds(queue, u)' => Holds(queue, u)
    <3>1. CASE queue' = queue
      BY <1>b, <3>1 DEF NoRepeat, Holds
    <3>2. CASE queue' = Without(queue, call.task)
      <4>1. /\ \A u : Holds(Without(queue, call.task), u) => Holds(queue, u)
            /\ NoRepeat(Without(queue, call.task))
        BY <1>a, <1>b, WithoutFacts DEF QueueType
      <4>. QED BY <3>2, <4>1 DEF NoRepeat, Holds
    <3>. QED BY <1>27, <3>1, <3>2 DEF CancelCompare
  <2>3. \/ /\ \A u : Holds(queue, u)' <=> Holds(queue, u)
           /\ dropped' = dropped
        \/ /\ Holds(queue, call.task) /\ \A u : Holds(queue, u)' => u # call.task
           /\ \A u : u # call.task => (Holds(queue, u)' <=> Holds(queue, u))
           /\ dropped' = dropped \cup {call.task}
    <3>1. CASE queue' = queue /\ dropped' = dropped
      BY <3>1 DEF Holds
    <3>2. CASE queue' = Without(queue, call.task) /\ ~Holds(queue, call.task) /\ dropped' = dropped
      <4>1. Without(queue, call.task) = queue
        BY <3>2 DEF Without, Holds
      <4>. QED BY <3>2, <4>1 DEF Holds
    <3>3. CASE /\ queue' = Without(queue, call.task) /\ Holds(queue, call.task)
               /\ dropped' = dropped \cup {call.task}
      <4> DEFINE w == Without(queue, call.task)
      <4>1. /\ ~Holds(w, call.task)
            /\ \A u : Holds(w, u) => Holds(queue, u)
            /\ \A u : u # call.task /\ Holds(queue, u) => Holds(w, u)
        BY <1>a, <1>b, WithoutFacts DEF QueueType
      <4> HIDE DEF w
      <4>2. \A u : Holds(queue, u)' <=> Holds(w, u)
        BY <3>3 DEF Holds, w
      <4>3. call'.task = call.task \/ call'.task # call.task
        OBVIOUS
      <4>. QED BY <3>3, <4>1, <4>2
    <3>. QED BY <1>27, <3>1, <3>2, <3>3 DEF CancelCompare
  <2>4. ASSUME NEW u \in Tasks PROVE TaskInv(u)'
    <3>1. /\ Mentioned(u)' = Mentioned(u) /\ Posted(u)' = Posted(u)
          /\ Holds(submitted, u)' = Holds(submitted, u) /\ (Mentioned(u) \/ ~Posted(u))
      BY <2>1 DEF Mentioned, Posted, Holds
    <3>2. TaskInv(u)
      BY <1>b
    <3>3. CASE dropped' = dropped /\ (Holds(queue, u)' <=> Holds(queue, u))
      BY <2>1, <3>1, <3>2, <3>3 DEF TaskInv, Fresh
    <3>4. CASE /\ u = call.task /\ Holds(queue, u) /\ ~Holds(queue, u)'
               /\ dropped' = dropped \cup {call.task}
      BY <2>1, <3>1, <3>2, <3>4 DEF TaskInv, Fresh
    <3>5. CASE /\ u # call.task /\ (Holds(queue, u)' <=> Holds(queue, u))
               /\ dropped' = dropped \cup {call.task}
      BY <2>1, <3>1, <3>2, <3>5 DEF TaskInv, Fresh
    <3>. QED BY <2>3, <3>3, <3>4, <3>5
  <2>5. (exPc \in ReportPcs \ {"unreg"} => listeners[current] = None)'
    BY <1>b, <2>1
  <2>6. OutcomeIsLast'
    BY <1>b, <2>1 DEF OutcomeIsLast
  <2>. QED BY <1>c, <2>2, <2>4, <2>5, <2>6
<1>28. CASE DetachNext
  <2>1. /\ \A u : ~BeingAdded(u) /\ ~BeingAdded(u)'
        /\ \A u : InExecutor(u)' <=> InExecutor(u)
        /\ UNCHANGED <<queue, handler, delivered, submitted, dropped, exPc, current>>
    BY <1>28, <1>a, CallRecordFacts
       DEF DetachNext, BeingAdded, CallType, CallRecord, InExecutor, Reporting, ReportPcs
  <2>2. \A u \in Tasks : listeners'[u] = listeners[u] \/ listeners'[u] = None
    BY <1>28, <1>a DEF DetachNext, MapType
  <2>3. ASSUME NEW u \in Tasks PROVE TaskInv(u)'
    <3>1. /\ Mentioned(u)' = Mentioned(u) /\ Posted(u)' = Posted(u)
          /\ Holds(queue, u)' = Holds(queue, u) /\ Holds(submitted, u)' = Holds(submitted, u)
      BY <2>1 DEF Mentioned, Posted, Holds
    <3>2. TaskInv(u)
      BY <1>b
    <3>. QED BY <2>1, <2>2, <3>1, <3>2 DEF TaskInv, Fresh
  <2>4. (exPc \in ReportPcs \ {"unreg"} => listeners[current] = None)'
    BY <1>a, <1>b, <2>1, <2>2 DEF ExecutorType, ReportPcs
  <2>5. NoRepeat(queue)' /\ OutcomeIsLast'
    BY <1>b, <2>1 DEF NoRepeat, OutcomeIsLast
  <2>. QED BY <1>c, <2>3, <2>4, <2>5
<1>29. CASE Deliver
  <2>1. /\ \A u : BeingAdded(u)' <=> BeingAdded(u)
        /\ \A u : ~BeingAdded(u)
        /\ \A u : InExecutor(u)' <=> InExecutor(u)
        /\ UNCHANGED <<queue, submitted, dropped, listeners, exPc, current>>
        /\ delivered \subseteq delivered'
    BY <1>29, CallRecordFacts DEF Deliver, BeingAdded, InExecutor, Reporting, ReportPcs
  <2>2. /\ OutcomeIsLast'
        /\ \A u : Mentioned(u)' => Mentioned(u)
        /\ \A u : Posted(u)' => Posted(u)
        /\ \A u \in delivered' \ delivered : Posted(u)
    BY <1>29, <1>a, <1>b, DeliverFacts
  <2>3. ASSUME NEW u \in Tasks PROVE TaskInv(u)'
    <3>1. /\ Holds(queue, u)' = Holds(queue, u) /\ Holds(submitted, u)' = Holds(submitted, u)
          /\ (Mentioned(u) \/ ~Posted(u))
      BY <2>1 DEF Mentioned, Posted, Holds
    <3>2. TaskInv(u) /\ (Mentioned(u)' => Mentioned(u)) /\ (Posted(u)' => Posted(u))
          /\ (u \in delivered' => u \in delivered \/ Posted(u))
      BY <1>b, <2>2
    <3>. QED BY <2>1, <3>1, <3>2 DEF TaskInv, Fresh
  <2>4. (exPc \in ReportPcs \ {"unreg"} => listeners[current] = None)' /\ NoRepeat(queue)'
    BY <1>b, <2>1 DEF NoRepeat
  <2>. QED BY <1>c, <2>2, <2>3, <2>4
<1>30. CASE Poll
  <2>1. /\ \A u : BeingAdded(u)' <=> BeingAdded(u)
        /\ \A u : ~InExecutor(u)
        /\ \A u : InExecutor(u)' <=> u = taken'
        /\ UNCHANGED <<handler, submitted, dropped, delivered, listeners>>
        /\ exPc' = "assign"
    BY <1>30 DEF Poll, BeingAdded, InExecutor, Reporting, ReportPcs, GoTo
  <2>2. /\ NoRepeat(queue)'
        /\ \/ taken' = None /\ \A u : Holds(queue, u)' <=> Holds(queue, u)
           \/ /\ Holds(queue, taken') /\ \A u : Holds(queue, u)' => u # taken'
              /\ \A u : u # taken' => (Holds(queue, u)' <=> Holds(queue, u))
    <3>1. CASE queue' = queue /\ taken' = None
      BY <1>b, <3>1 DEF NoRepeat, Holds
    <3>2. CASE queue # <<>> /\ queue' = Tail(queue) /\ taken' = Head(queue)
      <4>1. /\ Holds(queue, Head(queue)) /\ NoRepeat(Tail(queue)) /\ ~Holds(Tail(queue), Head(queue))
            /\ \A x : Holds(queue, x) <=> Holds(Tail(queue), x) \/ x = Head(queue)
        BY <1>a, <1>b, <3>2, TailFacts DEF QueueType
      <4>2. \A u : Holds(queue, u)' <=> Holds(Tail(queue), u)
        BY <3>2 DEF Holds
      <4>3. NoRepeat(queue)' <=> NoRepeat(Tail(queue))
        BY <3>2 DEF NoRepeat
      <4>4. taken' = Head(queue)
        BY <3>2
      <4>. QED BY <4>1, <4>2, <4>3, <4>4
    <3>. QED BY <1>30, <3>1, <3>2 DEF Poll
  <2>3. ASSUME NEW u \in Tasks PROVE TaskInv(u)'
    <3>1. /\ Mentioned(u)' = Mentioned(u) /\ Posted(u)' = Posted(u)
          /\ Holds(submitted, u)' = Holds(submitted, u) /\ (Mentioned(u) \/ ~Posted(u))
      BY <2>1 DEF Mentioned, Posted, Holds
    <3>2. TaskInv(u) /\ u # None
      BY <1>b, HubAssumption
    <3>3. CASE u = taken'
      <4>1. Holds(queue, u) /\ ~Holds(queue, u)' /\ InExecutor(u)'
        BY <2>1, <2>2, <3>2, <3>3
      <4>2. Fresh(u) /\ ~BeingAdded(u)' /\ Holds(submitted, u)' /\ ~Posted(u)'
        BY <2>1, <3>1, <3>2, <4>1 DEF TaskInv, Fresh
      <4>. QED BY <2>1, <3>1, <4>1, <4>2 DEF TaskInv, Fresh
    <3>4. CASE u # taken'
      BY <2>1, <2>2, <3>1, <3>2, <3>4 DEF TaskInv, Fresh
    <3>. QED BY <3>3, <3>4
  <2>4. (exPc \in ReportPcs \ {"unreg"} => listeners[current] = None)' /\ OutcomeIsLast'
    BY <1>b, <2>1 DEF ReportPcs, OutcomeIsLast
  <2>. QED BY <1>c, <2>2, <2>3, <2>4
<1>31. CASE TellMessage
  <2>1. /\ \A u : BeingAdded(u)' <=> BeingAdded(u)
        /\ InExecutor(current) /\ current \in Tasks
        /\ \A u : InExecutor(u)' => InExecutor(u)
        /\ \A u : InExecutor(u) => InExecutor(u)'
        /\ UNCHANGED <<queue, submitted, dropped, delivered, listeners>>
    BY <1>31, <1>a, HubAssumption
       DEF TellMessage, BeingAdded, InExecutor, Reporting, ReportPcs, GoTo, ExecutorType, NoCall
  <2> DEFINE c == [kind |-> "message", task |-> current, to |-> captured]
  <2>2. c \in Callback /\ handler' = Append(handler, c) /\ c.task = current /\ c.kind = "message"
    BY <1>31, <1>a, HubAssumption DEF TellMessage, Callback, Kinds, ExecutorType, ReportPcs, GoTo
  <2>3. TaskInv(current)
    BY <1>b, <2>1
  <2>4. /\ OutcomeIsLast'
        /\ \A u : Mentioned(u)' <=> Mentioned(u) \/ u = current
        /\ \A u : Posted(u)' <=> Posted(u) \/ (u = current /\ "message" # "message")
    <3> HIDE DEF c
    <3>. QED BY <1>a, <1>b, <2>1, <2>2, <2>3, PostFacts DEF TaskInv
  <2>5. ASSUME NEW u \in Tasks PROVE TaskInv(u)'
    <3>1. /\ Holds(queue, u)' = Holds(queue, u) /\ Holds(submitted, u)' = Holds(submitted, u)
      BY <2>1 DEF Holds
    <3>2. TaskInv(u)
      BY <1>b
    <3>3. CASE u = current
      BY <1>b, <2>1, <2>3, <2>4, <3>1, <3>2, <3>3 DEF TaskInv, Fresh
    <3>4. CASE u # current
      BY <2>1, <2>4, <3>1, <3>2, <3>4 DEF TaskInv, Fresh
    <3>. QED BY <3>3, <3>4
  <2>6. (exPc \in ReportPcs \ {"unreg"} => listeners[current] = None)' /\ NoRepeat(queue)'
    BY <1>31, <1>b, <2>1 DEF TellMessage, GoTo, ReportPcs, NoRepeat
  <2>. QED BY <1>c, <2>4, <2>5, <2>6
<1>32. CASE PostOutcome
  <2>1. /\ \A u : BeingAdded(u)' <=> BeingAdded(u)
        /\ InExecutor(current) /\ current \in Tasks
        /\ \A u : InExecutor(u)' => InExecutor(u)
        /\ listeners[current] = None /\ \A u : ~InExecutor(u)'
        /\ \A u : u # current => ~InExecutor(u)
        /\ UNCHANGED <<queue, submitted, dropped, delivered, listeners>>
    BY <1>32, <1>a, <1>b, HubAssumption
       DEF PostOutcome, BeingAdded, InExecutor, Reporting, ReportPcs, GoTo, ExecutorType, NoCall
  <2> DEFINE c == [kind |-> result, task |-> current, to |-> captured]
  <2>2. c \in Callback /\ handler' = Append(handler, c) /\ c.task = current /\ c.kind = result
    BY <1>32, <1>a, HubAssumption DEF PostOutcome, Callback, Kinds, ExecutorType, ReportPcs, GoTo
  <2>3. TaskInv(current)
    BY <1>b, <2>1
  <2>4. /\ OutcomeIsLast'
        /\ \A u : Mentioned(u)' <=> Mentioned(u) \/ u = current
        /\ \A u : Posted(u)' <=> Posted(u) \/ (u = current /\ result # "message")
    <3> HIDE DEF c
    <3>. QED BY <1>a, <1>b, <2>1, <2>2, <2>3, PostFacts DEF TaskInv
  <2>5. ASSUME NEW u \in Tasks PROVE TaskInv(u)'
    <3>1. /\ Holds(queue, u)' = Holds(queue, u) /\ Holds(submitted, u)' = Holds(submitted, u)
      BY <2>1 DEF Holds
    <3>2. TaskInv(u)
      BY <1>b
    <3>3. CASE u = current
      BY <1>b, <2>1, <2>3, <2>4, <3>1, <3>2, <3>3 DEF TaskInv, Fresh
    <3>4. CASE u # current
      BY <2>1, <2>4, <3>1, <3>2, <3>4 DEF TaskInv, Fresh
    <3>. QED BY <3>3, <3>4
  <2>6. (exPc \in ReportPcs \ {"unreg"} => listeners[current] = None)' /\ NoRepeat(queue)'
    BY <1>32, <1>b, <2>1 DEF PostOutcome, GoTo, ReportPcs, NoRepeat
  <2>. QED BY <1>c, <2>4, <2>5, <2>6
<1>33. CASE Unregister
  <2>1. /\ \A u : BeingAdded(u)' <=> BeingAdded(u)
        /\ \A u : InExecutor(u)' <=> InExecutor(u)
        /\ UNCHANGED <<queue, handler, submitted, dropped, delivered, current>>
        /\ current \in Tasks /\ listeners' = [listeners EXCEPT ![current] = None]
    BY <1>33, <1>a DEF Unregister, BeingAdded, InExecutor, Reporting, ReportPcs, GoTo, ExecutorType
  <2>2. ASSUME NEW u \in Tasks PROVE TaskInv(u)'
    <3>1. /\ Mentioned(u)' = Mentioned(u) /\ Posted(u)' = Posted(u)
          /\ Holds(queue, u)' = Holds(queue, u) /\ Holds(submitted, u)' = Holds(submitted, u)
      BY <2>1 DEF Mentioned, Posted, Holds
    <3>2. TaskInv(u) /\ (listeners'[u] = listeners[u] \/ listeners'[u] = None)
      BY <1>a, <1>b, <2>1 DEF MapType
    <3>. QED BY <2>1, <3>1, <3>2 DEF TaskInv, Fresh
  <2>3. (exPc \in ReportPcs \ {"unreg"} => listeners[current] = None)'
    BY <1>a, <2>1 DEF MapType
  <2>5. NoRepeat(queue)' /\ OutcomeIsLast'
    BY <1>b, <2>1 DEF NoRepeat, OutcomeIsLast
  <2>. QED BY <1>c, <2>2, <2>3, <2>5
<1>35. CASE CancelAllHasNext
  <2>1. ASSUME NEW u \in Tasks PROVE BeingAdded(u)' <=> BeingAdded(u)
    <3>1. call.at = "all" /\ call'.at \in {"idle", "next"}
      BY <1>35, <1>a, CallRecordFacts DEF CancelAllHasNext, CallType, CallRecord
    <3>. QED BY <3>1 DEF BeingAdded
  <2>2. ASSUME NEW u \in Tasks
        PROVE  /\ InExecutor(u)' => InExecutor(u)
               /\ InExecutor(u) /\ ~InExecutor(u)' => listeners[u] = None
    BY <1>35, <1>a, <1>b DEF CancelAllHasNext, InExecutor, Reporting, ReportPcs, GoTo, ExecutorType
  <2>3. exPc' \in ReportPcs \ {"unreg"} => listeners[current'] = None
    BY <1>35, <1>b DEF CancelAllHasNext, ReportPcs, GoTo
  <2>. QED BY <1>35, <1>a, <2>1, <2>2, <2>3, FrameStep DEF CancelAllHasNext
<1>36. CASE DetachTest
  <2>1. ASSUME NEW u \in Tasks PROVE BeingAdded(u)' <=> BeingAdded(u)
    <3>1. call.at = "detach" /\ call'.at \in {"idle", "detachGet"}
      BY <1>36, <1>a, CallRecordFacts DEF DetachTest, CallType, CallRecord
    <3>. QED BY <3>1 DEF BeingAdded
  <2>2. ASSUME NEW u \in Tasks
        PROVE  /\ InExecutor(u)' => InExecutor(u)
               /\ InExecutor(u) /\ ~InExecutor(u)' => listeners[u] = None
    BY <1>36, <1>a, <1>b DEF DetachTest, InExecutor, Reporting, ReportPcs, GoTo, ExecutorType
  <2>3. exPc' \in ReportPcs \ {"unreg"} => listeners[current'] = None
    BY <1>36, <1>b DEF DetachTest, ReportPcs, GoTo
  <2>. QED BY <1>36, <1>a, <2>1, <2>2, <2>3, FrameStep DEF DetachTest
<1>34. CASE UNCHANGED vars
  <2>1. ASSUME NEW u \in Tasks
        PROVE  (BeingAdded(u)' <=> BeingAdded(u)) /\ (InExecutor(u)' <=> InExecutor(u))
    BY <1>34 DEF vars, BeingAdded, InExecutor, Reporting
  <2>2. /\ UNCHANGED <<queue, handler, listeners, dropped, delivered, submitted>>
        /\ exPc' \in ReportPcs \ {"unreg"} => listeners[current'] = None
    BY <1>34, <1>b DEF vars
  <2>. QED BY <1>a, <2>1, <2>2, FrameStep
<1>. QED
  BY <1>1, <1>2, <1>3, <1>4, <1>5, <1>6, <1>7, <1>8, <1>9, <1>10, <1>11, <1>12, <1>13, <1>14, <1>15, <1>16, <1>17, <1>18, <1>19, <1>20, <1>21, <1>22, <1>23, <1>24, <1>25, <1>26, <1>27, <1>28, <1>29, <1>30, <1>31, <1>32, <1>33, <1>34,
     <1>35, <1>36
     DEF Next, ClientCall, ClientStep, ExecutorStep

(* Whatever the two threads do, a submitted task is in one place, gets one  *)
(* outcome at most and nothing after it, a registered listener is owed a    *)
(* callback, and a dropped task is never run or reported.                   *)
THEOREM HubSafety == Spec => []IInv
<1>1. ASSUME Init PROVE IInv
  <2>1. HistoryType
    BY <1>1, EmptySeq DEF Init, HistoryType
  <2>2. \A t \in Tasks : TaskInv(t)
    BY <1>1, CallRecordFacts
       DEF Init, TaskInv, BeingAdded, InExecutor, Reporting, ReportPcs, Holds, Fresh, Mentioned, Posted
  <2>3. NoRepeat(queue) /\ OutcomeIsLast
    BY <1>1 DEF Init, NoRepeat, OutcomeIsLast
  <2>4. exPc \notin ReportPcs
    BY <1>1 DEF Init, ReportPcs
  <2>. QED BY <2>1, <2>2, <2>3, <2>4, TaskByTask
<1>. QED BY <1>1, SafetyStep, TypeCorrect, PTL DEF Spec

(* The outcome callback of a task is its last and only one.                 *)
THEOREM OutcomeIsLastHolds == Spec => []OutcomeIsLast
<1>1. IInv => OutcomeIsLast
  BY DEF IInv
<1>. QED BY <1>1, HubSafety, PTL

(* A registered listener is owed a callback, and a task that was dropped is *)
(* never executed or reported (addTask, cancelTask and the executor).       *)
THEOREM NobodyWaitsInVainHolds == Spec => []NobodyWaitsInVain
<1>1. IInv => NobodyWaitsInVain
  BY DEF IInv, NobodyWaitsInVain
<1>. QED BY <1>1, HubSafety, PTL
-----------------------------------------------------------------------------
(* detachFromTasks and the contract of the hub.                             *)

(* A detached task was submitted and has no listener, and no other is       *)
(* registered for it: the lists name submitted tasks only.                  *)
DetachInv ==
  /\ \A a, t \in Tasks : Holds(lists[a], t) => Holds(submitted, t)
  /\ \A t \in detached : Holds(submitted, t) /\ listeners[t] = None

(* Tasks stay in submission order: the one being added is the last one, and *)
(* the one the executor has is older than those in the queue.               *)
Before(t, u) ==
  \E i, j \in DOMAIN submitted : i < j /\ submitted[i] = t /\ submitted[j] = u

OrderInv ==
  /\ NoRepeat(submitted)
  /\ \A i, j \in DOMAIN queue : i < j => Before(queue[i], queue[j])
  /\ \A t, u \in Tasks : InExecutor(t) /\ Holds(queue, u) => Before(t, u)
  /\ \A t, u \in Tasks : BeingAdded(t) /\ Holds(submitted, u) /\ u # t => Before(u, t)

(* No step registers a listener for a detached task.                        *)
LEMMA DetachStep ==
  ASSUME TypeOK, IInv, DetachInv, [Next]_vars
  PROVE  DetachInv'
<1>a. /\ MapType /\ CallType /\ HistoryType
      /\ \A t \in Tasks : BeingAdded(t) => Holds(submitted, t)
  BY DEF TypeOK, IInv, InOnePlace
<1> USE DEF executorVars, mapVars, historyVars
<1>1. ASSUME NEW t \in Tasks, NEW l \in Listeners, AddTask(t, l) PROVE DetachInv'
  <2>1. \A u : Holds(submitted', u) <=> Holds(submitted, u) \/ u = t
    BY <1>1, <1>a, AppendFacts DEF AddTask, HistoryType
  <2>2. \A u \in Tasks : u # t => listeners'[u] = listeners[u]
    BY <1>1, <1>a DEF AddTask, MapType
  <2>3. t \notin detached
    BY <1>1 DEF AddTask, DetachInv
  <2> QED
    BY <1>1, <1>a, <2>1, <2>2, <2>3 DEF AddTask, DetachInv, HistoryType
<1>2. CASE AddAppend \/ AddPut
  <2>1. call.task \in Tasks /\ Holds(submitted, call.task)
    BY <1>2, <1>a DEF AddAppend, AddPut, BeingAdded, CallType, CallRecord
  <2>2. /\ \A u : Holds(<<call.task>>, u) <=> u = call.task
        /\ \A a \in Tasks : \A u :
             Holds(Append(lists[a], call.task), u) <=> Holds(lists[a], u) \/ u = call.task
    <3>1. \A u : Holds(<<call.task>>, u) <=> u = call.task
      BY DEF Holds
    <3>2. ASSUME NEW a \in Tasks
          PROVE  \A u : Holds(Append(lists[a], call.task), u) <=> Holds(lists[a], u) \/ u = call.task
      <4>1. lists[a] \in Seq(Tasks)
        BY <1>a DEF MapType
      <4> QED
        BY <2>1, <4>1, AppendFacts
    <3> QED
      BY <3>1, <3>2
  <2>3. ASSUME NEW a \in Tasks PROVE lists'[a] \in {lists[a], <<call.task>>, Append(lists[a], call.task)}
    BY <1>2, <1>a DEF AddAppend, AddPut, MapType
  <2>4. ASSUME NEW a \in Tasks, NEW u \in Tasks, Holds(lists'[a], u)
        PROVE  Holds(lists[a], u) \/ u = call.task
    <3>1. CASE lists'[a] = lists[a]
      BY <2>4, <3>1
    <3>2. CASE lists'[a] = <<call.task>>
      BY <2>2, <2>4, <3>2
    <3>3. CASE lists'[a] = Append(lists[a], call.task)
      BY <2>2, <2>4, <3>3
    <3> QED
      BY <2>3, <3>1, <3>2, <3>3
  <2>5. UNCHANGED <<detached, listeners, submitted>>
    BY <1>2 DEF AddAppend, AddPut
  <2> QED
    BY <2>1, <2>4, <2>5 DEF DetachInv
<1>3. CASE RemoveFromList
  <2>1. ASSUME NEW a \in Tasks PROVE \A u : Holds(Without(lists[a], current), u) => Holds(lists[a], u)
    <3>1. lists[a] \in Seq(Tasks)
      BY <1>a DEF MapType
    <3> QED
      BY <3>1, WithoutFacts
  <2>2. ASSUME NEW a \in Tasks PROVE lists'[a] \in {lists[a], Without(lists[a], current)}
    <3>1. lists' = lists \/ lists' = [lists EXCEPT ![byListener[captured]] = Without(@, current)]
      BY <1>3 DEF RemoveFromList
    <3> QED
      BY <1>a, <3>1 DEF MapType
  <2> QED
    BY <1>3, <2>1, <2>2 DEF RemoveFromList, DetachInv
<1>4. CASE DetachNext
  <2>1. call.list \in Tasks /\ call.pos \in Nat
    BY <1>4, <1>a DEF DetachNext, CallType, CallRecord
  <2>2. CASE call.pos < Len(lists[call.list])
    <3> DEFINE t == lists[call.list][call.pos + 1]
    <3>1. /\ listeners' = [listeners EXCEPT ![t] = None] /\ detached' = detached \cup {t}
          /\ UNCHANGED <<lists, submitted>>
      BY <1>4, <2>2 DEF DetachNext
    <3>2. call.pos + 1 \in DOMAIN lists[call.list] /\ t \in Tasks
      BY <1>a, <2>1, <2>2, LenProperties, ElementOfSeq DEF MapType
    <3>3. Holds(submitted, t)
      BY <2>1, <3>2 DEF DetachInv, Holds
    <3> HIDE DEF t
    <3> QED
      BY <1>a, <3>1, <3>2, <3>3 DEF DetachInv, MapType, HistoryType
  <2>3. CASE ~(call.pos < Len(lists[call.list]))
    BY <1>4, <2>3 DEF DetachNext, DetachInv
  <2> QED
    BY <2>2, <2>3
<1>5. CASE Unregister
  BY <1>5, <1>a DEF Unregister, DetachInv, MapType, HistoryType
<1>6. ASSUME UNCHANGED <<lists, detached, listeners, submitted>> PROVE DetachInv'
  BY <1>6 DEF DetachInv
<1>7. ASSUME ClientCall, ~\E t \in Tasks, l \in Listeners : AddTask(t, l) PROVE DetachInv'
  BY <1>6, <1>7 DEF ClientCall, CancelTask, CancelAll, DetachFromTasks, StopTasksMultiplexor
<1>8. ASSUME ClientStep, ~AddAppend, ~AddPut, ~DetachNext PROVE DetachInv'
  BY <1>6, <1>8 DEF ClientStep, AddLookup, AddGet, AddOffer, CancelCompare, CancelFlag,
                    CancelInterrupt, CancelAllHasNext, CancelAllNext, DetachTest
<1>9. ASSUME ExecutorStep, ~RemoveFromList, ~Unregister PROVE DetachInv'
  BY <1>6, <1>9 DEF ExecutorStep, Start, LoopTest, Poll, PollInterrupted, Assign, CheckInterrupted,
     TellMessage, RunReturn, RunThrow, CheckAfter, FindListener, ContainsListener, DropListener, PostOutcome
<1>10. CASE Deliver \/ RunMessage \/ UNCHANGED vars
  BY <1>6, <1>10 DEF Deliver, RunMessage, vars
<1> QED
  BY <1>1, <1>2, <1>3, <1>4, <1>5, <1>7, <1>8, <1>9, <1>10 DEF Next

(* The report of a task begins in FindListener, at a registered listener.   *)
LEMMA ReportBegins ==
  ASSUME [Next]_vars, NEW t \in Tasks, Reporting(t)', ~Reporting(t)
  PROVE  listeners[t] # None
<1> USE DEF executorVars, Reporting, ReportPcs
<1>1. CASE ClientCall
  BY <1>1 DEF ClientCall, AddTask, CancelTask, CancelAll, DetachFromTasks, StopTasksMultiplexor
<1>2. CASE ClientStep
  BY <1>2 DEF ClientStep, AddLookup, AddGet, AddAppend, AddPut, AddOffer, CancelCompare, CancelFlag,
              CancelInterrupt, CancelAllHasNext, CancelAllNext, DetachTest, DetachNext
<1>3. CASE ExecutorStep
  BY <1>3 DEF ExecutorStep, GoTo, Start, LoopTest, Poll, PollInterrupted, Assign, CheckInterrupted,
     TellMessage, RunReturn, RunThrow, CheckAfter, FindListener, Unregister, ContainsListener,
     RemoveFromList, DropListener, PostOutcome
<1>4. CASE Deliver \/ RunMessage \/ UNCHANGED vars
  BY <1>4 DEF Deliver, RunMessage, GoTo, vars
<1> QED
  BY <1>1, <1>2, <1>3, <1>4 DEF Next

(* Behind detachFromTasks a task is not reported, unless the executor had   *)
(* found its listener before.                                               *)
THEOREM DetachIsFinalHolds == Spec => DetachIsFinal
<1>1. ASSUME Init PROVE DetachInv
  BY <1>1 DEF Init, DetachInv, Holds
<1>2. ASSUME DetachInv, HistoryType, [Next]_vars PROVE [\A t \in detached : ~Reporting(t) => ~Reporting(t)']_vars
  BY <1>2, ReportBegins DEF DetachInv, HistoryType
<1>3. TypeOK => HistoryType
  BY DEF TypeOK
<1> QED
  BY <1>1, <1>2, <1>3, DetachStep, TypeCorrect, HubSafety, PTL DEF Spec, DetachIsFinal

-----------------------------------------------------------------------------
(* What is left of a sequence keeps its order.                              *)
LEMMA WithoutOrder ==
  ASSUME NEW S, NEW s \in Seq(S), NEW t,
         NEW i \in DOMAIN Without(s, t), NEW j \in DOMAIN Without(s, t), i < j
  PROVE  \E a, b \in DOMAIN s : a < b /\ s[a] = Without(s, t)[i] /\ s[b] = Without(s, t)[j]
<1> DEFINE w == Without(s, t)
<1>1. CASE ~Holds(s, t)
  BY <1>1 DEF Without, Holds
<1>2. CASE Holds(s, t)
  <2> DEFINE k == CHOOSE x \in DOMAIN s : s[x] = t
  <2>1. k \in 1 .. Len(s) /\ w = RemoveAt(s, k)
    BY <1>2 DEF Without, Holds
  <2> HIDE DEF k, w
  <2>2. /\ w \in Seq(S) /\ Len(w) = Len(s) - 1 /\ Len(s) \in Nat
        /\ \A x \in 1 .. Len(s) - 1 : w[x] = IF x < k THEN s[x] ELSE s[x + 1]
    BY <2>1, RemoveAtElements, LenProperties
  <2>3. i \in 1 .. Len(s) - 1 /\ j \in 1 .. Len(s) - 1
    BY <2>2, LenProperties DEF w
  <2> DEFINE a == IF i < k THEN i ELSE i + 1
             b == IF j < k THEN j ELSE j + 1
  <2>4. a \in 1 .. Len(s) /\ b \in 1 .. Len(s) /\ a < b
    BY <2>1, <2>2, <2>3
  <2>5. s[a] = w[i] /\ s[b] = w[j]
    BY <2>1, <2>2, <2>3
  <2> HIDE DEF a, b
  <2> QED
    BY <2>4, <2>5 DEF w
<1> QED
  BY <1>1, <1>2

(* Tasks keep the order of their submission on their way.                   *)
LEMMA OrderStep ==
  ASSUME TypeOK, TypeOK', IInv, OrderInv, [Next]_vars
  PROVE  OrderInv'
<1>a. /\ QueueType /\ ExecutorType /\ CallType /\ HistoryType /\ submitted \in Seq(Tasks) /\ queue \in Seq(Tasks)
      /\ \A t \in Tasks : TaskInv(t)
  BY TaskByTask DEF TypeOK, HistoryType, QueueType
<1> USE DEF executorVars, mapVars, historyVars
<1>1. ASSUME NEW t \in Tasks, NEW l \in Listeners, AddTask(t, l) PROVE OrderInv'
  <2>1. /\ submitted' = Append(submitted, t) /\ ~Holds(submitted, t)
        /\ UNCHANGED <<queue, exPc, current, taken>>
    BY <1>1 DEF AddTask
  <2>2. \A u : BeingAdded(u)' => u = t
    BY <1>1, CallRecordFacts DEF AddTask, BeingAdded, NoCall
  <2>3. NoRepeat(submitted')
    BY <1>a, <2>1, AppendFacts DEF OrderInv
  <2>4. /\ \A u, v : Before(u, v) => Before(u, v)'
        /\ \A u : Holds(submitted, u) => Before(u, t)'
    <3>1. /\ DOMAIN submitted = 1 .. Len(submitted) /\ DOMAIN submitted' = 1 .. Len(submitted) + 1
          /\ Len(submitted) \in Nat /\ submitted'[Len(submitted) + 1] = t
          /\ \A i \in 1 .. Len(submitted) : submitted'[i] = submitted[i]
      BY <1>a, <2>1, AppendProperties, LenProperties
    <3>2. \A i \in 1 .. Len(submitted) : i < Len(submitted) + 1 /\ i \in 1 .. Len(submitted) + 1
      BY <3>1
    <3>3. Len(submitted) + 1 \in 1 .. Len(submitted) + 1
      BY <3>1
    <3>4. ASSUME NEW u, NEW v, Before(u, v) PROVE Before(u, v)'
      BY <3>1, <3>2, <3>4 DEF Before
    <3>5. ASSUME NEW u, Holds(submitted, u) PROVE Before(u, t)'
      BY <3>1, <3>2, <3>3, <3>5 DEF Before, Holds
    <3> QED
      BY <3>4, <3>5
  <2>5. \A u : Holds(submitted', u) <=> Holds(submitted, u) \/ u = t
    BY <1>a, <2>1, AppendFacts
  <2>6. \A u \in Tasks : InExecutor(u)' = InExecutor(u) /\ Holds(queue', u) = Holds(queue, u)
    BY <2>1 DEF InExecutor, Reporting
  <2> HIDE DEF Before
  <2> QED
    BY <2>1, <2>2, <2>3, <2>4, <2>5, <2>6 DEF OrderInv, Holds
<1>2. CASE AddOffer
  <2>1. /\ BeingAdded(call.task) /\ call.task \in Tasks
        /\ UNCHANGED <<submitted, exPc, current, taken>>
        /\ queue' \in {queue, Append(queue, call.task)}
    BY <1>2, <1>a DEF AddOffer, BeingAdded, CallType, CallRecord
  <2>2. \A u : ~BeingAdded(u)'
    BY <1>2, CallRecordFacts DEF AddOffer, BeingAdded
  <2>3. \A u \in Tasks : Holds(queue, u) \/ InExecutor(u) => Before(u, call.task)
    BY <1>a, <2>1 DEF OrderInv, TaskInv
  <2>4. /\ \A u, v : Before(u, v)' = Before(u, v)
        /\ \A u \in Tasks : InExecutor(u)' = InExecutor(u)
    BY <2>1 DEF Before, InExecutor, Reporting
  <2>5. CASE queue' = queue
    BY <2>1, <2>2, <2>4, <2>5 DEF OrderInv, Holds, NoRepeat
  <2>6. CASE queue' = Append(queue, call.task)
    <3>1. /\ DOMAIN queue = 1 .. Len(queue) /\ DOMAIN queue' = 1 .. Len(queue) + 1
          /\ Len(queue) \in Nat /\ queue'[Len(queue) + 1] = call.task
          /\ \A i \in 1 .. Len(queue) : queue'[i] = queue[i] /\ queue[i] \in Tasks /\ Holds(queue, queue[i])
      BY <1>a, <2>1, <2>6, AppendProperties, LenProperties, ElementOfSeq DEF Holds
    <3>2. ASSUME NEW i \in DOMAIN queue', NEW j \in DOMAIN queue', i < j PROVE Before(queue'[i], queue'[j])
      <4>1. i \in 1 .. Len(queue) /\ (j \in 1 .. Len(queue) \/ j = Len(queue) + 1)
        BY <3>1, <3>2
      <4> QED
        BY <2>3, <3>1, <3>2, <4>1 DEF OrderInv
    <3>3. \A u : Holds(queue', u) <=> Holds(queue, u) \/ u = call.task
      BY <1>a, <2>1, <2>6, AppendFacts
    <3> QED
      BY <2>1, <2>2, <2>3, <2>4, <3>2, <3>3 DEF OrderInv, Holds, NoRepeat
  <2> QED
    BY <2>1, <2>5, <2>6
<1>3. CASE CancelCompare
  <2>1. /\ \A u : ~BeingAdded(u)' /\ UNCHANGED <<submitted, exPc, current, taken>>
        /\ queue' \in {queue, Without(queue, call.task)}
    BY <1>3, <1>a, CallRecordFacts DEF CancelCompare, Returned, BeingAdded, CallType, CallRecord
  <2>2. /\ \A u, v : Before(u, v)' = Before(u, v)
        /\ \A u \in Tasks : InExecutor(u)' = InExecutor(u)
    BY <2>1 DEF Before, InExecutor, Reporting
  <2>3. \A u : Holds(queue', u) => Holds(queue, u)
    BY <1>a, <2>1, WithoutFacts
  <2>4. ASSUME NEW i \in DOMAIN queue', NEW j \in DOMAIN queue', i < j
        PROVE  \E a, b \in DOMAIN queue : a < b /\ queue[a] = queue'[i] /\ queue[b] = queue'[j]
    BY <1>a, <2>1, <2>4, WithoutOrder
  <2>5. \A i, j \in DOMAIN queue' : i < j => Before(queue'[i], queue'[j])
    BY <2>4 DEF OrderInv
  <2> QED
    BY <2>1, <2>2, <2>3, <2>5 DEF OrderInv, Holds, NoRepeat
<1>4. CASE Poll
  <2>1. UNCHANGED <<submitted, call>> /\ exPc = "poll" /\ exPc' = "assign"
    BY <1>4 DEF Poll, GoTo
  <2>2. /\ \A u, v : Before(u, v)' = Before(u, v)
        /\ \A u \in Tasks : InExecutor(u)' <=> taken' = u
        /\ \A u : BeingAdded(u)' = BeingAdded(u)
    BY <2>1 DEF Before, InExecutor, Reporting, ReportPcs, BeingAdded
  <2>3. CASE queue = <<>>
    <3>1. taken' = None /\ queue' = queue
      BY <1>4, <2>3 DEF Poll
    <3> QED
      BY <2>1, <2>2, <3>1, HubAssumption DEF OrderInv, Holds, NoRepeat
  <2>4. CASE queue # <<>>
    <3>1. /\ taken' = queue[1] /\ queue' = Tail(queue) /\ Len(queue) \in Nat /\ Len(queue) >= 1
          /\ DOMAIN queue = 1 .. Len(queue) /\ DOMAIN queue' = 1 .. Len(queue) - 1
          /\ \A i \in 1 .. Len(queue) - 1 : queue'[i] = queue[i + 1]
      <4>1. taken' = Head(queue) /\ queue' = Tail(queue)
        BY <1>4, <2>4 DEF Poll
      <4>2. /\ Head(queue) = queue[1] /\ Tail(queue) \in Seq(Tasks) /\ Len(Tail(queue)) = Len(queue) - 1
            /\ \A i \in 1 .. Len(queue) - 1 : Tail(queue)[i] = queue[i + 1]
        BY <1>a, <2>4, HeadTailProperties, EmptySeq
      <4>3. /\ Len(queue) \in Nat /\ Len(queue) >= 1 /\ DOMAIN queue = 1 .. Len(queue)
            /\ DOMAIN Tail(queue) = 1 .. Len(queue) - 1
        BY <1>a, <2>4, <4>2, LenProperties, EmptySeq
      <4> QED
        BY <4>1, <4>2, <4>3
    <3>2. \A i \in 1 .. Len(queue) - 1 : i + 1 \in 1 .. Len(queue) /\ 1 < i + 1
      BY <3>1
    <3>3. ASSUME NEW i \in DOMAIN queue', NEW j \in DOMAIN queue', i < j PROVE Before(queue'[i], queue'[j])
      <4>1. i + 1 < j + 1
        BY <3>1, <3>3
      <4> QED
        BY <3>1, <3>2, <4>1 DEF OrderInv
    <3>4. ASSUME NEW u \in Tasks, Holds(queue', u) PROVE Before(taken', u)
      <4>1. PICK i \in 1 .. Len(queue) - 1 : queue'[i] = u
        BY <3>1, <3>4 DEF Holds
      <4>2. 1 \in DOMAIN queue
        BY <3>1
      <4> QED
        BY <3>1, <3>2, <4>1, <4>2 DEF OrderInv
    <3> QED
      BY <2>1, <2>2, <3>3, <3>4 DEF OrderInv, Holds, NoRepeat
  <2> QED
    BY <2>3, <2>4
<1>5. ASSUME UNCHANGED <<queue, submitted>>,
             \A u \in Tasks : (InExecutor(u)' => InExecutor(u)) /\ (BeingAdded(u)' => BeingAdded(u))
      PROVE  OrderInv'
  <2>1. \A u, v : Before(u, v)' = Before(u, v)
    BY <1>5 DEF Before
  <2> QED
    BY <1>5, <2>1 DEF OrderInv, Holds, NoRepeat
<1>6. ASSUME UNCHANGED <<queue, submitted, exPc, current, taken>>, \A u \in Tasks : BeingAdded(u)' => BeingAdded(u)
      PROVE  OrderInv'
  BY <1>5, <1>6 DEF InExecutor, Reporting
<1>7. ASSUME ClientCall, ~\E t \in Tasks, l \in Listeners : AddTask(t, l) PROVE OrderInv'
  <2>1. /\ UNCHANGED <<queue, submitted, exPc, current, taken>>
        /\ call'.at \notin {"lookup", "get", "append", "put", "offer"}
    <3>1. NoCall.at = "idle" /\ call = NoCall
      BY <1>7, CallRecordFacts DEF ClientCall, CancelTask, CancelAll, DetachFromTasks, StopTasksMultiplexor
    <3>2. UNCHANGED <<queue, submitted, exPc, current, taken>>
      BY <1>7 DEF ClientCall, CancelTask, CancelAll, DetachFromTasks, StopTasksMultiplexor
    <3>3. ASSUME NEW t \in Tasks, NEW stop \in BOOLEAN, CancelTask(t, stop) PROVE call'.at = "cancel"
      BY <3>3 DEF CancelTask, NoCall
    <3>4. ASSUME NEW l \in Listeners, NEW stop \in BOOLEAN, CancelAll(l, stop) PROVE call'.at \in {"idle", "all"}
      <4>1. CASE byListener[l] = None
        BY <3>1, <3>4, <4>1 DEF CancelAll
      <4>2. CASE byListener[l] # None
        BY <3>4, <4>2 DEF CancelAll, NoCall
      <4> QED
        BY <4>1, <4>2
    <3>5. ASSUME NEW l \in Listeners, DetachFromTasks(l) PROVE call'.at \in {"idle", "detach"}
      BY <3>5 DEF DetachFromTasks, NoCall
    <3>6. StopTasksMultiplexor => call' = call
      BY DEF StopTasksMultiplexor
    <3> QED
      BY <1>7, <3>1, <3>2, <3>3, <3>4, <3>5, <3>6 DEF ClientCall
  <2> QED
    BY <1>6, <2>1 DEF BeingAdded
<1>8. CASE AddLookup \/ AddGet \/ AddAppend \/ AddPut
  <2>1. /\ UNCHANGED <<queue, submitted, exPc, current, taken>>
        /\ call.at \in {"lookup", "get", "append", "put"}
        /\ call' = NoCall \/ call'.task = call.task
    BY <1>8, <1>a DEF AddLookup, AddGet, AddAppend, AddPut, CallType, CallRecord
  <2> QED
    BY <1>6, <2>1, CallRecordFacts DEF BeingAdded
<1>9. CASE \/ CancelFlag \/ CancelInterrupt \/ CancelAllHasNext \/ CancelAllNext
           \/ DetachTest \/ DetachNext
  <2>1. /\ UNCHANGED <<queue, submitted, exPc, current, taken>>
        /\ call'.at \notin {"lookup", "get", "append", "put", "offer"}
    <3>1. CASE CancelFlag
      BY SMTT(30), <3>1, <1>a, CallRecordFacts DEF CancelFlag, Returned, CallType, CallRecord
    <3>2. CASE CancelInterrupt
      BY SMTT(30), <3>2, <1>a, CallRecordFacts DEF CancelInterrupt, Returned, CallType, CallRecord
    <3>3. CASE CancelAllHasNext
      BY SMTT(30), <3>3, <1>a, CallRecordFacts DEF CancelAllHasNext, Returned, CallType, CallRecord
    <3>4. CASE CancelAllNext
      <4>1. call' = NoCall \/ call' = [call EXCEPT !.at = "cancel", !.pos = @ + 1, !.task = call.snapshot[call.pos + 1]]
        BY <3>4 DEF CancelAllNext
      <4>2. UNCHANGED <<queue, submitted, exPc, current, taken>>
        BY <3>4 DEF CancelAllNext
      <4> QED
        BY <4>1, <4>2, <1>a, CallRecordFacts DEF CallType, CallRecord
    <3>5. CASE DetachTest
      BY SMTT(30), <3>5, <1>a, CallRecordFacts DEF DetachTest, Returned, CallType, CallRecord
    <3>6. CASE DetachNext
      <4>1. call' = NoCall \/ call' = [call EXCEPT !.at = "detach", !.pos = @ + 1]
        BY <3>6 DEF DetachNext
      <4>2. UNCHANGED <<queue, submitted, exPc, current, taken>>
        BY <3>6 DEF DetachNext
      <4> QED
        BY <4>1, <4>2, <1>a, CallRecordFacts DEF CallType, CallRecord
    <3> QED
      BY <1>9, <3>1, <3>2, <3>3, <3>4, <3>5, <3>6
  <2> QED
    BY <1>6, <2>1 DEF BeingAdded
<1>10. ASSUME ExecutorStep, ~Poll PROVE OrderInv'
  <2>1. UNCHANGED <<queue, submitted, call>>
    BY <1>10 DEF ExecutorStep, Start, LoopTest, PollInterrupted, Assign, CheckInterrupted,
       TellMessage, RunReturn, RunThrow, CheckAfter, FindListener, Unregister, ContainsListener,
       RemoveFromList, DropListener, PostOutcome
  <2>2. ASSUME NEW u \in Tasks, InExecutor(u)' PROVE InExecutor(u)
    BY <1>10, <2>2, HubAssumption DEF ExecutorStep, GoTo, Start, LoopTest, PollInterrupted, Assign, CheckInterrupted,
       TellMessage, RunReturn, RunThrow, CheckAfter, FindListener, Unregister, ContainsListener,
       RemoveFromList, DropListener, PostOutcome, InExecutor, Reporting, ReportPcs
  <2> QED
    BY <1>5, <2>1, <2>2 DEF BeingAdded
<1>11. CASE Deliver \/ RunMessage \/ UNCHANGED vars
  <2>1. UNCHANGED <<queue, submitted, call, current, taken>>
    BY <1>11 DEF Deliver, RunMessage, vars
  <2>2. exPc' = exPc \/ (exPc = "run" /\ exPc' \in {"run", "tell"})
    BY <1>11 DEF Deliver, RunMessage, GoTo, vars
  <2> QED
    BY <1>5, <2>1, <2>2 DEF BeingAdded, InExecutor, Reporting, ReportPcs
<1> QED
  BY <1>1, <1>2, <1>3, <1>4, <1>7, <1>8, <1>9, <1>10, <1>11 DEF Next, ClientStep

-----------------------------------------------------------------------------
(* The contract.                                                            *)

(* What has become of a task, case by case.                                 *)
StatusIs ==
  \A t \in Tasks :
    Status(t) = IF ~Holds(submitted, t) THEN "new"
                ELSE IF Posted(t) \/ t \in delivered THEN "reported"
                ELSE IF t \notin dropped /\ (listeners[t] # None \/ Reporting(t)) THEN "pending"
                ELSE "silent"

LEMMA StatusFacts == (IInv => StatusIs) /\ (IInv' => StatusIs')
<1>1. ASSUME IInv PROVE StatusIs
  <2> SUFFICES ASSUME NEW t \in Tasks
               PROVE  Status(t) = IF ~Holds(submitted, t) THEN "new"
                                  ELSE IF Posted(t) \/ t \in delivered THEN "reported"
                                  ELSE IF t \notin dropped /\ (listeners[t] # None \/ Reporting(t))
                                         THEN "pending" ELSE "silent"
    BY DEF StatusIs
  <2>1. Posted(t) \/ t \in delivered \/ listeners[t] # None \/ Reporting(t) => Holds(submitted, t)
    BY <1>1 DEF IInv, InOnePlace, Fresh, Posted, Mentioned, InExecutor
  <2>2. CASE ~Holds(submitted, t)
    BY <2>1, <2>2 DEF Status
  <2>3. CASE Holds(submitted, t) /\ (Posted(t) \/ t \in delivered)
    BY <2>3 DEF Status
  <2>4. CASE Holds(submitted, t) /\ ~(Posted(t) \/ t \in delivered)
    BY <2>4 DEF Status
  <2> QED
    BY <2>1, <2>2, <2>3, <2>4
<1> QED
  BY <1>1, PTL

(* A step that changes what has become of one task, if anything.            *)
Statuses == [t \in Tasks |-> Status(t)]
Seen == <<submitted, Statuses>>

LEMMA SameStatus ==
  ASSUME UNCHANGED submitted, \A t \in Tasks : Status(t)' = Status(t)
  PROVE  UNCHANGED Seen
<1>1. Statuses' = [t \in Tasks |-> Status(t)']
  BY DEF Statuses
<1> QED
  BY <1>1 DEF Statuses, Seen

LEMMA FallsSilent ==
  ASSUME UNCHANGED submitted, NEW t \in Tasks,
         \A u \in Tasks \ {t} : Status(u)' = Status(u),
         Status(t)' = Status(t) \/ (Status(t) = "pending" /\ Status(t)' = "silent")
  PROVE  UNCHANGED Seen \/ Contract!Silence(t)
<1>1. CASE Status(t)' = Status(t)
  BY <1>1, SameStatus
<1>2. CASE Status(t) = "pending" /\ Status(t)' = "silent"
  <2>1. Statuses' = [Statuses EXCEPT ![t] = "silent"]
    BY <1>2 DEF Statuses
  <2> QED
    BY <1>2, <2>1 DEF Statuses, Contract!Silence
<1> QED
  BY <1>1, <1>2

(* Every step of the two threads is a step of the contract or a stutter.    *)
LEMMA ContractStep ==
  ASSUME TypeOK, IInv, IInv', OrderInv, [Next]_vars
  PROVE  [Contract!Next]_Seen
<1>a. /\ ExecutorType /\ MapType /\ CallType /\ HistoryType /\ HandlerType
      /\ NoRepeat(queue) /\ OutcomeIsLast /\ \A t \in Tasks : TaskInv(t)
  BY TaskByTask DEF TypeOK
<1>b. StatusIs /\ StatusIs'
  BY StatusFacts
<1> USE DEF executorVars, mapVars, historyVars
<1>1. ASSUME NEW t \in Tasks, NEW l \in Listeners, AddTask(t, l) PROVE Contract!Submit(t)
  <2>1. /\ submitted' = Append(submitted, t) /\ ~Holds(submitted, t)
        /\ listeners' = [listeners EXCEPT ![t] = l]
        /\ UNCHANGED <<handler, dropped, delivered, exPc, current>>
    BY <1>1 DEF AddTask
  <2>2. /\ \A u : Holds(submitted', u) <=> Holds(submitted, u) \/ u = t
        /\ \A u \in Tasks : Posted(u)' = Posted(u) /\ Reporting(u)' = Reporting(u)
    BY <1>a, <2>1, AppendFacts DEF HistoryType, Posted, Reporting
  <2>3. t \notin dropped /\ t \notin delivered /\ ~Posted(t)
    BY <1>a, <2>1 DEF TaskInv, Fresh, Posted, Mentioned
  <2>4. listeners'[t] = l /\ l # None /\ \A u \in Tasks \ {t} : listeners'[u] = listeners[u]
    BY <1>a, <2>1, HubAssumption DEF MapType
  <2>5. Holds(submitted, t)' <=> TRUE
    BY <2>2 DEF Holds
  <2>6. \A u \in Tasks \ {t} : Holds(submitted, u)' = Holds(submitted, u)
    BY <2>2 DEF Holds
  <2>7. Status(t) = "new" /\ Status(t)' = "pending"
    BY <1>b, <2>1, <2>2, <2>3, <2>4, <2>5 DEF StatusIs
  <2>8. \A u \in Tasks \ {t} : Status(u)' = Status(u)
    BY <1>b, <2>1, <2>2, <2>4, <2>6 DEF StatusIs
  <2>9. Statuses' = [Statuses EXCEPT ![t] = "pending"]
    BY <2>7, <2>8 DEF Statuses
  <2> QED
    BY <2>1, <2>7, <2>9 DEF Statuses, Contract!Submit
<1>2. ASSUME AddGet \/ AddOffer \/ CancelCompare
      PROVE  UNCHANGED Seen \/ \E t \in Tasks : Contract!Silence(t)
  <2>1. /\ UNCHANGED <<handler, delivered, submitted, listeners, exPc, current>>
        /\ dropped' \in {dropped, dropped \cup {call.task}} /\ call.task \in Tasks
    BY <1>2, <1>a DEF AddGet, AddOffer, CancelCompare, CallType, CallRecord
  <2>2. \A u \in Tasks : /\ Holds(submitted, u)' = Holds(submitted, u)
                         /\ Posted(u)' = Posted(u) /\ Reporting(u)' = Reporting(u)
    BY <2>1 DEF Holds, Posted, Reporting
  <2>3. PICK t \in Tasks : dropped' = dropped \/ dropped' = dropped \cup {t}
    BY <2>1
  <2>4. \A u \in Tasks \ {t} : Status(u)' = Status(u)
    BY <1>b, <2>3, <2>1, <2>2 DEF StatusIs
  <2>5. Status(t)' = Status(t) \/ (Status(t) = "pending" /\ Status(t)' = "silent")
    BY <1>b, <2>3, <2>1, <2>2 DEF StatusIs
  <2> QED
    BY <2>1, <2>4, <2>5, FallsSilent
<1>3. ASSUME DetachNext PROVE UNCHANGED Seen \/ \E t \in Tasks : Contract!Silence(t)
  <2>1. UNCHANGED <<handler, delivered, submitted, dropped, exPc, current>>
    BY <1>3 DEF DetachNext
  <2>2. \A u \in Tasks : /\ Holds(submitted, u)' = Holds(submitted, u)
                         /\ Posted(u)' = Posted(u) /\ Reporting(u)' = Reporting(u)
    BY <2>1 DEF Holds, Posted, Reporting
  <2>3. CASE listeners' = listeners
    <3>1. \A u \in Tasks : Status(u)' = Status(u)
      BY <1>b, <2>1, <2>2, <2>3 DEF StatusIs
    <3> QED
      BY <2>1, <3>1, SameStatus
  <2>4. CASE call.pos < Len(lists[call.list])
    <3>1. PICK t : listeners' = [listeners EXCEPT ![t] = None] /\ t \in Tasks
      <4>1. call.pos + 1 \in 1 .. Len(lists[call.list]) /\ lists[call.list] \in Seq(Tasks)
        BY <1>3, <1>a, <2>4, LenProperties DEF DetachNext, CallType, CallRecord, MapType
      <4>2. lists[call.list][call.pos + 1] \in Tasks
        BY <4>1, ElementOfSeq
      <4> QED
        BY <1>3, <2>4, <4>2 DEF DetachNext
    <3>2. listeners'[t] = None /\ \A u \in Tasks \ {t} : listeners'[u] = listeners[u]
      BY <1>a, <3>1 DEF MapType
    <3>3. \A u \in Tasks \ {t} : Status(u)' = Status(u)
      BY <1>b, <2>1, <2>2, <3>2 DEF StatusIs
    <3>4. Status(t)' = Status(t) \/ (Status(t) = "pending" /\ Status(t)' = "silent")
      BY <1>b, <2>1, <2>2, <3>1, <3>2 DEF StatusIs
    <3> QED
      BY <2>1, <3>1, <3>3, <3>4, FallsSilent
  <2> QED
    BY <1>3, <2>3, <2>4 DEF DetachNext
<1>4. ASSUME RemoveFromList PROVE UNCHANGED Seen \/ \E t \in Tasks : Contract!Silence(t)
  <2>1. /\ UNCHANGED <<handler, delivered, submitted, dropped, listeners, current>> /\ exPc = "get"
        /\ current \in Tasks
    BY <1>4, <1>a DEF RemoveFromList, ExecutorType, ReportPcs
  <2>2. \A u \in Tasks : Holds(submitted, u)' = Holds(submitted, u) /\ Posted(u)' = Posted(u)
    BY <2>1 DEF Holds, Posted
  <2>3. \A u \in Tasks \ {current} : ~Reporting(u) /\ ~Reporting(u)'
    BY <2>1 DEF Reporting
  <2>4. Reporting(current)
    BY <2>1 DEF Reporting, ReportPcs
  <2>5. \A u \in Tasks \ {current} : Status(u)' = Status(u)
    BY <1>b, <2>1, <2>2, <2>3 DEF StatusIs
  <2>6. Status(current)' = Status(current) \/ (Status(current) = "pending" /\ Status(current)' = "silent")
    <3>1. Status(current)' =
            IF ~Holds(submitted, current) THEN "new"
            ELSE IF Posted(current) \/ current \in delivered THEN "reported"
            ELSE IF current \notin dropped /\ (listeners[current] # None \/ Reporting(current)') THEN "pending"
            ELSE "silent"
      BY <1>b, <2>1, <2>2 DEF StatusIs
    <3>2. Status(current) =
            IF ~Holds(submitted, current) THEN "new"
            ELSE IF Posted(current) \/ current \in delivered THEN "reported"
            ELSE IF current \notin dropped THEN "pending" ELSE "silent"
      BY <1>b, <2>1, <2>4 DEF StatusIs
    <3> QED
      BY <3>1, <3>2
  <2> QED
    BY <2>1, <2>5, <2>6, FallsSilent
<1>5. ASSUME PostOutcome PROVE Contract!Report(current)
  <2>1. /\ UNCHANGED <<delivered, submitted, dropped, listeners, current>> /\ exPc = "post" /\ exPc' = "loop"
        /\ current \in Tasks /\ captured \in Listeners /\ result \in {"finished", "failed"}
        /\ handler' = Append(handler, [kind |-> result, task |-> current, to |-> captured])
    BY <1>5, <1>a DEF PostOutcome, GoTo, ExecutorType, ReportPcs
  <2>2. [kind |-> result, task |-> current, to |-> captured] \in Callback
    BY <2>1 DEF Callback, Kinds
  <2>3. \A u \in Tasks : Posted(u)' <=> Posted(u) \/ u = current
    BY <1>a, <2>1, <2>2, PostFacts
  <2>4. /\ \A u \in Tasks : Holds(submitted, u)' = Holds(submitted, u)
        /\ \A u \in Tasks \ {current} : ~Reporting(u) /\ ~Reporting(u)'
        /\ Reporting(current) /\ InExecutor(current)
    BY <2>1 DEF Holds, Reporting, ReportPcs, InExecutor
  <2>5. /\ current \notin dropped /\ current \notin delivered /\ ~Posted(current)
        /\ Holds(submitted, current)
    BY <1>a, <2>1, <2>4 DEF TaskInv
  <2>6. Status(current) = "pending" /\ Status(current)' = "reported"
    BY <1>b, <2>1, <2>3, <2>4, <2>5 DEF StatusIs
  <2>7. \A u \in Tasks \ {current} : Status(u)' = Status(u)
    BY <1>b, <2>1, <2>3, <2>4 DEF StatusIs
  <2>8. Statuses' = [Statuses EXCEPT ![current] = "reported"]
    BY <2>1, <2>6, <2>7 DEF Statuses
  <2>9. ASSUME NEW i \in DOMAIN submitted, NEW j \in DOMAIN submitted, i < j, submitted[j] = current,
               Status(submitted[i]) = "pending"
        PROVE  FALSE
    <3> DEFINE u == submitted[i]
    <3>1. u \in Tasks /\ i \in Nat /\ j \in Nat
      BY <1>a, <2>9, ElementOfSeq, LenProperties DEF HistoryType
    <3>2. u # current
      BY <2>9, <3>1 DEF OrderInv, NoRepeat
    <3>3. u \notin dropped /\ listeners[u] # None
      BY <1>b, <2>4, <2>9, <3>1, <3>2 DEF StatusIs
    <3>4. ~InExecutor(u)
      BY <2>1, <3>2 DEF InExecutor, Reporting
    <3>5. Holds(submitted, u)
      BY <2>9 DEF Holds
    <3>6. Before(current, u)
      BY <1>a, <2>1, <2>4, <2>5, <3>1, <3>2, <3>3, <3>4 DEF TaskInv, OrderInv
    <3>7. PICK a \in DOMAIN submitted, b \in DOMAIN submitted : a < b /\ submitted[a] = current /\ submitted[b] = u
      BY <3>6 DEF Before
    <3>8. a = j /\ b = i
      BY <2>9, <3>7 DEF OrderInv, NoRepeat
    <3> QED
      BY <2>9, <3>1, <3>7, <3>8
  <2>10. \A i \in DOMAIN submitted : Statuses[submitted[i]] = Status(submitted[i])
    BY <1>a, ElementOfSeq, LenProperties DEF HistoryType, Statuses
  <2>11. \A i, j \in DOMAIN submitted : i < j /\ submitted[j] = current => Statuses[submitted[i]] # "pending"
    BY <2>9, <2>10
  <2> QED
    BY <2>1, <2>6, <2>8, <2>11 DEF Statuses, Contract!Report
<1>6. ASSUME Deliver PROVE UNCHANGED Seen
  <2>1. UNCHANGED <<submitted, dropped, listeners, exPc, current>>
    BY <1>6 DEF Deliver
  <2>2. ASSUME NEW t \in Tasks PROVE (Posted(t) \/ t \in delivered)' <=> Posted(t) \/ t \in delivered
    <3>1. /\ Len(handler) \in Nat /\ Len(handler) >= 1 /\ DOMAIN handler = 1 .. Len(handler)
          /\ DOMAIN handler' = 1 .. Len(handler) - 1 /\ Head(handler) = handler[1]
          /\ \A i \in 1 .. Len(handler) - 1 : handler'[i] = handler[i + 1]
      BY <1>6, <1>a, HeadTailProperties, LenProperties, EmptySeq DEF HandlerType, Deliver
    <3>2. \A i \in 1 .. Len(handler) : i = 1 \/ (i - 1 \in 1 .. Len(handler) - 1 /\ (i - 1) + 1 = i)
      BY <3>1
    <3>3. ASSUME Posted(t) PROVE Posted(t)' \/ t \in delivered'
      <4>1. PICK i \in 1 .. Len(handler) : handler[i].task = t /\ handler[i].kind # "message"
        BY <3>1, <3>3 DEF Posted
      <4>2. CASE i = 1
        BY <1>6, <3>1, <4>1, <4>2 DEF Deliver
      <4>3. CASE i - 1 \in 1 .. Len(handler) - 1 /\ (i - 1) + 1 = i
        <5>1. i - 1 \in DOMAIN handler' /\ handler'[i - 1] = handler[i]
          BY <3>1, <4>3
        <5> QED
          BY <4>1, <5>1 DEF Posted
      <4> QED
        BY <3>2, <4>2, <4>3
    <3>4. (Posted(t)' => Posted(t)) /\ (t \in delivered' => t \in delivered \/ Posted(t))
      BY <1>6, <1>a, DeliverFacts
    <3>5. t \in delivered => t \in delivered'
      BY <1>6 DEF Deliver
    <3> QED
      BY <3>3, <3>4, <3>5
  <2>3. \A t \in Tasks : Holds(submitted, t)' = Holds(submitted, t) /\ Reporting(t)' = Reporting(t)
    BY <2>1 DEF Holds, Reporting
  <2>4. ASSUME NEW t \in Tasks PROVE Status(t)' = Status(t)
    BY <1>b, <2>1, <2>2, <2>3 DEF StatusIs
  <2> QED
    BY <2>1, <2>4, SameStatus
<1>7. ASSUME UNCHANGED <<submitted, delivered, dropped>>,
             \A t \in Tasks : Posted(t)' = Posted(t) /\ Reporting(t)' = Reporting(t),
             \A t \in Tasks : listeners'[t] = listeners[t] \/ Reporting(t)
      PROVE  UNCHANGED Seen
  <2>1. \A t \in Tasks : Holds(submitted, t)' = Holds(submitted, t)
    BY <1>7 DEF Holds
  <2>2. ASSUME NEW t \in Tasks PROVE Status(t)' = Status(t)
    BY <1>b, <1>7, <2>1 DEF StatusIs
  <2> QED
    BY <1>7, <2>2, SameStatus
<1>8. ASSUME TellMessage PROVE UNCHANGED Seen
  <2>1. /\ UNCHANGED <<submitted, delivered, dropped, listeners, current>>
        /\ exPc = "tell" /\ exPc' = "run" /\ current \in Tasks /\ captured \in Listeners
        /\ handler' = Append(handler, [kind |-> "message", task |-> current, to |-> captured])
    BY <1>8, <1>a DEF TellMessage, GoTo, ExecutorType
  <2>2. [kind |-> "message", task |-> current, to |-> captured] \in Callback
    BY <2>1 DEF Callback, Kinds
  <2>3. \A u \in Tasks : Posted(u)' = Posted(u)
    <3>1. \A u : Posted(u)' <=> Posted(u)
      BY <1>a, <2>1, <2>2, PostFacts
    <3> QED
      BY <3>1 DEF Posted
  <2> QED
    BY <1>7, <2>1, <2>3 DEF Reporting, ReportPcs
<1>9. ASSUME FindListener PROVE UNCHANGED Seen
  <2>1. /\ UNCHANGED <<submitted, delivered, dropped, listeners, current, handler>> /\ exPc = "find"
        /\ exPc' = IF listeners[current] = None THEN "loop" ELSE "unreg"
    BY <1>9 DEF FindListener, GoTo
  <2>2. \A u \in Tasks : /\ Holds(submitted, u)' = Holds(submitted, u) /\ Posted(u)' = Posted(u)
                         /\ (listeners[u] # None \/ Reporting(u))' <=> (listeners[u] # None \/ Reporting(u))
    BY <2>1 DEF Holds, Posted, Reporting, ReportPcs
  <2>3. ASSUME NEW t \in Tasks PROVE Status(t)' = Status(t)
    BY <1>b, <2>1, <2>2 DEF StatusIs
  <2> QED
    BY <2>1, <2>3, SameStatus
<1>10. ASSUME Unregister PROVE UNCHANGED Seen
  <2>1. /\ UNCHANGED <<submitted, delivered, dropped, current, handler>> /\ exPc = "unreg" /\ exPc' = "contains"
        /\ \A t \in Tasks : t # current => listeners'[t] = listeners[t]
    BY <1>10, <1>a DEF Unregister, GoTo, MapType
  <2> QED
    BY <1>7, <2>1 DEF Posted, Reporting, ReportPcs
<1>11. ASSUME UNCHANGED <<submitted, delivered, dropped, listeners, handler, current>>,
              exPc' = exPc \/ {exPc, exPc'} \subseteq ReportPcs \/ {exPc, exPc'} \cap ReportPcs = {}
       PROVE  UNCHANGED Seen
  BY <1>7, <1>11 DEF Posted, Reporting
<1>12. ASSUME Assign PROVE UNCHANGED Seen
  <2>1. /\ UNCHANGED <<submitted, delivered, dropped, listeners, handler>> /\ exPc \notin ReportPcs /\ exPc' \notin ReportPcs
    BY <1>12 DEF Assign, GoTo, ReportPcs
  <2> QED
    BY <1>7, <2>1 DEF Posted, Reporting
<1>13. ASSUME ClientCall, ~\E t \in Tasks, l \in Listeners : AddTask(t, l) PROVE UNCHANGED Seen
  <2>1. UNCHANGED <<submitted, delivered, dropped, listeners, handler, current, exPc>>
    BY <1>13 DEF ClientCall, CancelTask, CancelAll, DetachFromTasks, StopTasksMultiplexor
  <2> QED
    BY <1>11, <2>1
<1>14. ASSUME \/ AddLookup \/ AddAppend \/ AddPut \/ CancelFlag \/ CancelInterrupt
              \/ CancelAllHasNext \/ CancelAllNext \/ DetachTest
       PROVE  UNCHANGED Seen
  <2>1. UNCHANGED <<submitted, delivered, dropped, listeners, handler, current, exPc>>
    BY <1>14 DEF AddLookup, AddAppend, AddPut, CancelFlag, CancelInterrupt, CancelAllHasNext,
                 CancelAllNext, DetachTest
  <2> QED
    BY <1>11, <2>1
<1>15. ASSUME \/ Start \/ LoopTest \/ Poll \/ PollInterrupted \/ CheckInterrupted \/ RunReturn \/ RunThrow
              \/ CheckAfter \/ ContainsListener \/ DropListener \/ RunMessage
       PROVE  UNCHANGED Seen
  <2>1. UNCHANGED <<submitted, delivered, dropped, listeners, handler, current>>
    BY <1>15 DEF Start, LoopTest, Poll, PollInterrupted, CheckInterrupted, RunReturn, RunThrow, CheckAfter,
                 ContainsListener, DropListener, RunMessage
  <2>2. exPc \in ReportPcs <=> exPc' \in ReportPcs
    BY <1>15 DEF GoTo, Start, LoopTest, Poll, PollInterrupted, CheckInterrupted, RunReturn, RunThrow, CheckAfter,
                 ContainsListener, DropListener, RunMessage, ReportPcs
  <2> QED
    BY <1>11, <2>1, <2>2
<1>16. ASSUME UNCHANGED vars PROVE UNCHANGED Seen
  BY <1>11, <1>16 DEF vars
<1>17. ASSUME ExecutorStep PROVE [Contract!Next]_Seen
  <2>1. PostOutcome => Contract!Next
    BY <1>5, <1>a DEF Contract!Next, PostOutcome, GoTo, ExecutorType, ReportPcs
  <2> QED
    BY <1>17, <2>1, <1>4, <1>8, <1>9, <1>10, <1>12, <1>15 DEF ExecutorStep, Contract!Next
<1>18. ASSUME ClientStep PROVE [Contract!Next]_Seen
  BY <1>18, <1>2, <1>3, <1>14 DEF ClientStep, Contract!Next
<1>19. ASSUME ClientCall PROVE [Contract!Next]_Seen
  BY <1>19, <1>1, <1>13 DEF Contract!Next
<1> QED
  BY <1>6, <1>15, <1>16, <1>17, <1>18, <1>19 DEF Next

(* The hub implements TaskContract: whatever the two threads do, a task is  *)
(* reported once at most, in submission order, and one that fell silent     *)
(* (detached, refused, taken out, its report lost to a thrown exception)    *)
(* stays silent.                                                            *)
THEOREM KeepsContractHolds == Spec => KeepsContract
<1>1. ASSUME Init PROVE OrderInv /\ Contract!Init
  <2>1. \A t \in Tasks : ~BeingAdded(t) /\ ~InExecutor(t) /\ ~Holds(submitted, t) /\ ~Holds(queue, t)
    BY <1>1, CallRecordFacts DEF Init, BeingAdded, InExecutor, Reporting, ReportPcs, Holds
  <2>2. OrderInv
    BY <1>1, <2>1 DEF Init, OrderInv, NoRepeat
  <2>3. ASSUME NEW t \in Tasks PROVE Status(t) = "new"
    <3>1. ~Posted(t) /\ t \notin delivered /\ listeners[t] = None /\ ~Reporting(t)
      BY <1>1 DEF Init, Posted, Reporting, ReportPcs
    <3> QED
      BY <2>1, <3>1 DEF Status
  <2> QED
    BY <1>1, <2>2, <2>3 DEF Init, Contract!Init
<1>2. [Contract!Next]_Seen => [Contract!Next]_<<submitted, [t \in Tasks |-> Status(t)]>>
  BY DEF Seen, Statuses
<1> QED
  BY <1>1, <1>2, OrderStep, ContractStep, TypeCorrect, HubSafety, PTL DEF Spec, KeepsContract, Contract!Spec
=============================================================================

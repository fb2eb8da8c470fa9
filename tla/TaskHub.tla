------------------------------ MODULE TaskHub ------------------------------
(***************************************************************************)
(* The background task hub: TasksMultiplexor (registration, callbacks,     *)
(* cancellation) and RunnableQueueExecutor (the thread that runs tasks).   *)
(*                                                                         *)
(* Two threads share the state without a common lock (TasksMultiplexor     *)
(* takes mLock in addTask only, RunnableQueueExecutor takes mSync in run   *)
(* only and "this" in cancelTask only), so every access to a shared map,   *)
(* list or field is a step of its own:                                     *)
(*   - the client thread, which calls the hub and, being the thread of the *)
(*     Handler's looper, runs the posted callbacks between two calls;      *)
(*   - the executor thread.                                                *)
(* A task object is submitted once, as every caller of addTask in the      *)
(* repository does, and so stands for its own task id.                     *)
(***************************************************************************)
EXTENDS Naturals, Sequences, SequencesExt

CONSTANTS
  Tasks,        \* the task objects the client may submit
  Listeners,    \* the ITaskListener objects
  None,         \* Java's null
  Capacity,     \* the size of mRequests (20 in TasksMultiplexor)
  Calls,        \* which calls the client makes besides addTask
  MaxCalls,     \* bound: how many of these calls it makes
  Talkers,      \* bound: the tasks that send progress messages, and
  MaxMessages   \* bound: how many of them

ASSUME HubAssumption ==
  /\ None \notin Tasks \cup Listeners
  /\ Capacity \in Nat \ {0}
  /\ Calls \subseteq {"cancel", "detach", "cancelAll", "stop"}
  /\ MaxCalls \in Nat
  /\ Talkers \subseteq Tasks
  /\ MaxMessages \in Nat

VARIABLES
  (* RunnableQueueExecutor *)
  queue,        \* mRequests
  working,      \* isWorking
  current,      \* mCurrentTask
  interrupted,  \* the executor thread's interrupt flag
  exPc,         \* where the executor thread is
  taken,        \* what poll returned, not yet assigned to mCurrentTask
  result,       \* which of handleFinished / handleException is reporting
  inCatch,      \* the report is the one of the inner catch block
  captured,     \* the listener the report has looked up
  (* TasksMultiplexor *)
  listeners,    \* mListeners
  byListener,   \* mTasksByListener: the list object, named by its creator
  lists,        \* the content of these LinkedList objects
  handler,      \* the callbacks waiting in the Handler's message queue
  (* the client thread and the task objects *)
  call,         \* the call in progress
  callsLeft,    \* how many more calls the client makes
  messagesLeft, \* how many more messages the tasks send
  canceled,     \* tasks whose isCanceled is set
  (* history *)
  submitted,    \* tasks given to addTask, in order
  dropped,      \* tasks that left the hub without a report: refused by a
                \* full queue, removed by cancelTask, or addTask threw
  detached,     \* tasks whose listener detachFromTasks removed
  delivered,    \* tasks whose outcome callback has run
  asked         \* tasks given to cancelTask with stopIfRunning

executorVars == <<working, current, interrupted, exPc, taken, result, inCatch, captured>>
mapVars == <<listeners, byListener, lists>>
historyVars == <<submitted, dropped, detached, delivered, asked>>
vars == <<queue, executorVars, mapVars, handler, call, callsLeft, messagesLeft, canceled, historyVars>>

Kinds == {"message", "finished", "failed"}
Callback == [kind : Kinds, task : Tasks, to : Listeners]

ExecutorPcs == {"new", "loop", "poll", "assign", "check", "run", "tell", "after", "find",
                "unreg", "contains", "get", "drop", "post", "dead"}
ReportPcs == {"unreg", "contains", "get", "drop", "post"}
CallPcs == {"idle", "lookup", "get", "append", "put", "offer", "cancel", "flag",
            "interrupt", "detach", "detachGet", "all", "next"}

NoCall == [at |-> "idle", task |-> None, listener |-> None, list |-> None,
           pos |-> 0, snapshot |-> <<>>, stop |-> FALSE, all |-> FALSE]

Init ==
  /\ queue = <<>> /\ working = FALSE /\ current = None /\ interrupted = FALSE
  /\ exPc = "new" /\ taken = None /\ result = "finished" /\ inCatch = FALSE
  /\ captured = None
  /\ listeners = [t \in Tasks |-> None]
  /\ byListener = [l \in Listeners |-> None]
  /\ lists = [t \in Tasks |-> <<>>]
  /\ handler = <<>>
  /\ call = NoCall /\ callsLeft = MaxCalls /\ messagesLeft = MaxMessages /\ canceled = {}
  /\ submitted = <<>> /\ dropped = {} /\ detached = {} /\ delivered = {}
  /\ asked = {}

(* LinkedList.remove(Object), ArrayBlockingQueue.remove(Object).  They take *)
(* the first occurrence; a task is submitted once, so there is one at most. *)
Without(s, t) ==
  IF \E i \in DOMAIN s : s[i] = t
    THEN RemoveAt(s, CHOOSE i \in DOMAIN s : s[i] = t)
    ELSE s

Holds(s, t) == \E i \in DOMAIN s : s[i] = t

-----------------------------------------------------------------------------
(* addTask                                                                  *)

(* A new id is given to the task and its listener is registered.            *)
AddTask(t, l) ==
  /\ call = NoCall
  /\ ~Holds(submitted, t)
  /\ submitted' = Append(submitted, t)
  /\ listeners' = [listeners EXCEPT ![t] = l]
  /\ call' = [NoCall EXCEPT !.at = "lookup", !.task = t, !.listener = l]
  /\ UNCHANGED <<queue, executorVars, byListener, lists, handler, callsLeft, messagesLeft, canceled,
                 dropped, detached, delivered, asked>>

(* mTasksByListener.containsKey(listener)                                   *)
AddLookup ==
  /\ call.at = "lookup"
  /\ call' = [call EXCEPT !.at = IF byListener[call.listener] # None THEN "get" ELSE "put"]
  /\ UNCHANGED <<queue, executorVars, mapVars, handler, callsLeft, messagesLeft, canceled, historyVars>>

(* mTasksByListener.get(listener): if the executor has dropped the listener *)
(* since containsKey, "tasks" is null and addTask throws.                   *)
AddGet ==
  /\ call.at = "get"
  /\ IF byListener[call.listener] = None
       THEN /\ dropped' = dropped \cup {call.task}
            /\ call' = NoCall
       ELSE /\ call' = [call EXCEPT !.at = "append", !.list = byListener[call.listener]]
            /\ UNCHANGED dropped
  /\ UNCHANGED <<queue, executorVars, mapVars, handler, callsLeft, messagesLeft, canceled,
                 submitted, detached, delivered, asked>>

(* tasks.add(task), on the list looked up in the step before.               *)
AddAppend ==
  /\ call.at = "append"
  /\ lists' = [lists EXCEPT ![call.list] = Append(@, call.task)]
  /\ call' = [call EXCEPT !.at = "offer"]
  /\ UNCHANGED <<queue, executorVars, listeners, byListener, handler, callsLeft, messagesLeft, canceled,
                 historyVars>>

(* A new list with this task is put into mTasksByListener.                  *)
AddPut ==
  /\ call.at = "put"
  /\ lists' = [lists EXCEPT ![call.task] = <<call.task>>]
  /\ byListener' = [byListener EXCEPT ![call.listener] = call.task]
  /\ call' = [call EXCEPT !.at = "offer"]
  /\ UNCHANGED <<queue, executorVars, listeners, handler, callsLeft, messagesLeft, canceled, historyVars>>

(* mExecutor.post(task): offer refuses a task when the queue is full, and   *)
(* addTask does not look at the answer.                                     *)
AddOffer ==
  /\ call.at = "offer"
  /\ IF Len(queue) < Capacity
       THEN queue' = Append(queue, call.task) /\ UNCHANGED dropped
       ELSE dropped' = dropped \cup {call.task} /\ UNCHANGED queue
  /\ call' = NoCall
  /\ UNCHANGED <<executorVars, mapVars, handler, callsLeft, messagesLeft, canceled,
                 submitted, detached, delivered, asked>>

-----------------------------------------------------------------------------
(* cancelTask, cancelAllTasksByListener                                     *)

(* The state of the call when cancelTask returns: the next round of the     *)
(* loop of cancelAllTasksByListener, or no call at all.                     *)
Returned(c) == IF c.all THEN [c EXCEPT !.at = "all"] ELSE NoCall

CancelTask(t, stop) ==
  /\ call = NoCall /\ callsLeft > 0 /\ "cancel" \in Calls
  /\ Holds(submitted, t)
  /\ callsLeft' = callsLeft - 1
  /\ asked' = IF stop THEN asked \cup {t} ELSE asked
  /\ call' = [NoCall EXCEPT !.at = "cancel", !.task = t, !.stop = stop]
  /\ UNCHANGED <<queue, executorVars, mapVars, handler, messagesLeft, canceled,
                 submitted, dropped, detached, delivered>>

(* Mutant: the removal from the queue is forgotten.                         *)
CancelCompareKeepsQueue ==
  /\ call.at = "cancel"
  /\ IF call.task = current
       THEN /\ call' = IF call.stop THEN [call EXCEPT !.at = "flag"] ELSE Returned(call)
            /\ UNCHANGED dropped
       ELSE /\ dropped' = IF Holds(queue, call.task) THEN dropped \cup {call.task} ELSE dropped
            /\ call' = Returned(call)
  /\ UNCHANGED <<queue, executorVars, mapVars, handler, callsLeft, messagesLeft, canceled,
                 submitted, detached, delivered, asked>>

(* task.equals(mCurrentTask), and the removal from the queue when it is not *)
CancelCompare ==
  /\ call.at = "cancel"
  /\ \/ /\ call.task = current /\ call.stop
        /\ call' = [call EXCEPT !.at = "flag"]
        /\ UNCHANGED <<queue, dropped>>
     \/ /\ call.task = current /\ ~call.stop
        /\ call' = Returned(call)
        /\ UNCHANGED <<queue, dropped>>
     \/ /\ call.task # current
        /\ queue' = Without(queue, call.task)
        /\ dropped' = IF Holds(queue, call.task) THEN dropped \cup {call.task} ELSE dropped
        /\ call' = Returned(call)
  /\ UNCHANGED <<executorVars, mapVars, handler, callsLeft, messagesLeft, canceled,
                 submitted, detached, delivered, asked>>

(* mCurrentTask.cancel(): the field is read again.  If poll has timed out   *)
(* since, it is null and the exception leaves cancelTask and its caller.    *)
CancelFlag ==
  /\ call.at = "flag"
  /\ IF current = None
       THEN call' = NoCall /\ UNCHANGED canceled
       ELSE canceled' = canceled \cup {current} /\ call' = [call EXCEPT !.at = "interrupt"]
  /\ UNCHANGED <<queue, executorVars, mapVars, handler, callsLeft, messagesLeft, historyVars>>

(* this.interrupt()                                                         *)
CancelInterrupt ==
  /\ call.at = "interrupt"
  /\ interrupted' = (exPc # "dead")
  /\ call' = Returned(call)
  /\ UNCHANGED <<queue, working, current, exPc, taken, result, inCatch, captured,
                 mapVars, handler, callsLeft, messagesLeft, canceled, historyVars>>

(* The lookup of the listener's list and its iterator.                      *)
CancelAll(l, stop) ==
  /\ call = NoCall /\ callsLeft > 0 /\ "cancelAll" \in Calls
  /\ callsLeft' = callsLeft - 1
  /\ IF byListener[l] = None
       THEN call' = NoCall
       ELSE call' = [NoCall EXCEPT !.at = "all", !.all = TRUE, !.listener = l, !.stop = stop,
                                   !.list = byListener[l], !.snapshot = lists[byListener[l]]]
  /\ UNCHANGED <<queue, executorVars, mapVars, handler, messagesLeft, canceled,
                 submitted, dropped, detached, delivered, asked>>

(* The loop: hasNext() compares the position with the size; after the last  *)
(* round the listener is removed.                                           *)
CancelAllHasNext ==
  /\ call.at = "all"
  /\ IF call.pos < Len(lists[call.list])
       THEN call' = [call EXCEPT !.at = "next"] /\ UNCHANGED byListener
       ELSE call' = NoCall /\ byListener' = [byListener EXCEPT ![call.listener] = None]
  /\ UNCHANGED <<queue, executorVars, listeners, lists, handler, callsLeft, messagesLeft, canceled,
                 historyVars>>

(* next() throws if the executor has changed the list or there is no next   *)
(* element (the exception leaves cancelAllTasksByListener).                 *)
CancelAllNext ==
  /\ call.at = "next"
  /\ \/ /\ lists[call.list] # call.snapshot \/ call.pos >= Len(lists[call.list])
        /\ call' = NoCall
        /\ UNCHANGED asked
     \/ /\ lists[call.list] = call.snapshot /\ call.pos < Len(lists[call.list])
        /\ LET t == call.snapshot[call.pos + 1]
           IN  /\ call' = [call EXCEPT !.at = "cancel", !.pos = @ + 1, !.task = t]
               /\ asked' = IF call.stop THEN asked \cup {t} ELSE asked
  /\ UNCHANGED <<queue, executorVars, mapVars, handler, callsLeft, messagesLeft, canceled,
                 submitted, dropped, detached, delivered>>

-----------------------------------------------------------------------------
(* detachFromTasks, stopTasksMultiplexor, and the callbacks                 *)

DetachFromTasks(l) ==
  /\ call = NoCall /\ callsLeft > 0 /\ "detach" \in Calls
  /\ callsLeft' = callsLeft - 1
  /\ call' = IF byListener[l] = None
               THEN NoCall
               ELSE [NoCall EXCEPT !.at = "detach", !.listener = l, !.list = byListener[l]]
  /\ UNCHANGED <<queue, executorVars, mapVars, handler, messagesLeft, canceled, historyVars>>

(* The indexed loop over the listener's tasks, whose bound is the size the  *)
(* list has now; after it the listener is removed.                          *)
DetachTest ==
  /\ call.at = "detach"
  /\ IF call.pos < Len(lists[call.list])
       THEN call' = [call EXCEPT !.at = "detachGet"] /\ UNCHANGED byListener
       ELSE call' = NoCall /\ byListener' = [byListener EXCEPT ![call.listener] = None]
  /\ UNCHANGED <<queue, executorVars, listeners, lists, handler, callsLeft, messagesLeft, canceled,
                 historyVars>>

(* Mutant: the loop does not remove the listener of the task.               *)
DetachNextKeepsListener ==
  /\ call.at = "detachGet"
  /\ IF call.pos < Len(lists[call.list])
       THEN /\ detached' = detached \cup {lists[call.list][call.pos + 1]}
            /\ call' = [call EXCEPT !.at = "detach", !.pos = @ + 1]
       ELSE /\ call' = NoCall
            /\ UNCHANGED detached
  /\ UNCHANGED <<queue, executorVars, mapVars, handler, callsLeft, messagesLeft, canceled,
                 submitted, dropped, delivered, asked>>

(* get(i), and the removal of the task's listener.  If the executor has     *)
(* shortened the list since size(), get throws and leaves detachFromTasks.  *)
DetachNext ==
  /\ call.at = "detachGet"
  /\ IF call.pos < Len(lists[call.list])
       THEN LET t == lists[call.list][call.pos + 1]
            IN  /\ listeners' = [listeners EXCEPT ![t] = None]
                /\ detached' = detached \cup {t}
                /\ call' = [call EXCEPT !.at = "detach", !.pos = @ + 1]
       ELSE /\ call' = NoCall
            /\ UNCHANGED <<listeners, detached>>
  /\ UNCHANGED <<queue, executorVars, byListener, lists, handler, callsLeft, messagesLeft, canceled,
                 submitted, dropped, delivered, asked>>

StopTasksMultiplexor ==
  /\ call = NoCall /\ callsLeft > 0 /\ "stop" \in Calls
  /\ callsLeft' = callsLeft - 1
  /\ working' = FALSE
  /\ UNCHANGED <<queue, current, interrupted, exPc, taken, result, inCatch, captured,
                 mapVars, handler, call, messagesLeft, canceled, historyVars>>

(* The looper runs the oldest posted callback.                              *)
Deliver ==
  /\ call = NoCall /\ handler # <<>>
  /\ handler' = Tail(handler)
  /\ delivered' = IF Head(handler).kind = "message" THEN delivered
                  ELSE delivered \cup {Head(handler).task}
  /\ UNCHANGED <<queue, executorVars, mapVars, call, callsLeft, messagesLeft, canceled,
                 submitted, dropped, detached, asked>>

-----------------------------------------------------------------------------
(* RunnableQueueExecutor.run                                                *)

(* A step of the executor that only moves to another place.                 *)
GoTo(from, to) == exPc = from /\ exPc' = to

Start ==
  /\ GoTo("new", "loop")
  /\ working' = TRUE
  /\ UNCHANGED <<queue, current, interrupted, taken, result, inCatch, captured, mapVars,
                 handler, call, callsLeft, messagesLeft, canceled, historyVars>>

(* Mutant: while ( true )                                                   *)
LoopTestForever ==
  /\ GoTo("loop", "poll")
  /\ result' = "finished" /\ inCatch' = FALSE /\ captured' = None
  /\ UNCHANGED <<queue, working, current, interrupted, taken, mapVars, handler,
                 call, callsLeft, messagesLeft, canceled, historyVars>>

(* while ( isWorking ).  The locals of the last report are gone.            *)
LoopTest ==
  /\ GoTo("loop", IF working THEN "poll" ELSE "dead")
  /\ result' = "finished" /\ inCatch' = FALSE /\ captured' = None
  /\ UNCHANGED <<queue, working, current, interrupted, taken, mapVars, handler,
                 call, callsLeft, messagesLeft, canceled, historyVars>>

(* Mutant: the task is read but not removed (peek).                         *)
PollPeek ==
  /\ GoTo("poll", "assign")
  /\ ~interrupted
  /\ taken' = IF queue = <<>> THEN None ELSE Head(queue)
  /\ UNCHANGED <<queue, working, current, interrupted, result, inCatch, captured, mapVars, handler,
                 call, callsLeft, messagesLeft, canceled, historyVars>>

(* poll returns the head, or null after its timeout.                        *)
Poll ==
  /\ GoTo("poll", "assign")
  /\ ~interrupted
  /\ IF queue = <<>>
       THEN taken' = None /\ UNCHANGED queue
       ELSE taken' = Head(queue) /\ queue' = Tail(queue)
  /\ UNCHANGED <<working, current, interrupted, result, inCatch, captured, mapVars, handler,
                 call, callsLeft, messagesLeft, canceled, historyVars>>

(* poll throws InterruptedException, which clears the flag; mCurrentTask    *)
(* keeps the last task and the outer catch goes on with the loop.           *)
PollInterrupted ==
  /\ GoTo("poll", "loop")
  /\ interrupted
  /\ interrupted' = FALSE
  /\ UNCHANGED <<queue, working, current, taken, result, inCatch, captured, mapVars, handler,
                 call, callsLeft, messagesLeft, canceled, historyVars>>

(* mCurrentTask = <what poll returned>                                      *)
Assign ==
  /\ GoTo("assign", IF taken = None THEN "loop" ELSE "check")
  /\ current' = taken
  /\ taken' = None
  /\ UNCHANGED <<queue, working, interrupted, result, inCatch, captured, mapVars, handler,
                 call, callsLeft, messagesLeft, canceled, historyVars>>

(* Mutant: an interrupted task is skipped, without handleException.         *)
CheckInterruptedSkips ==
  /\ GoTo("check", IF interrupted THEN "loop" ELSE "run")
  /\ UNCHANGED <<queue, working, current, interrupted, taken, result, inCatch, captured,
                 mapVars, handler, call, callsLeft, messagesLeft, canceled, historyVars>>

(* if ( !isInterrupted() ) execute.  A set flag stays set until the next    *)
(* poll, so the test after execute fails as well.                           *)
CheckInterrupted ==
  /\ GoTo("check", IF interrupted THEN "after" ELSE "run")
  /\ UNCHANGED <<queue, working, current, interrupted, taken, result, inCatch, captured,
                 mapVars, handler, call, callsLeft, messagesLeft, canceled, historyVars>>

(* execute reports progress: onMessageFromTask looks the listener up and    *)
(* posts the message if there is one.                                       *)
RunMessage ==
  /\ GoTo("run", IF listeners[current] = None THEN "run" ELSE "tell")
  /\ current \in Talkers /\ messagesLeft > 0
  /\ messagesLeft' = messagesLeft - 1
  /\ captured' = listeners[current]
  /\ UNCHANGED <<queue, working, current, interrupted, taken, result, inCatch, mapVars,
                 handler, call, callsLeft, canceled, historyVars>>

(* Mutant: the posted runnable calls onTaskFinished.                        *)
TellMessageAsOutcome ==
  /\ GoTo("tell", "run")
  /\ handler' = Append(handler, [kind |-> "finished", task |-> current, to |-> captured])
  /\ UNCHANGED <<queue, working, current, interrupted, taken, result, inCatch, captured,
                 mapVars, call, callsLeft, messagesLeft, canceled, historyVars>>

(* mHandler.post of the message, to the listener found in the step before.  *)
TellMessage ==
  /\ GoTo("tell", "run")
  /\ handler' = Append(handler, [kind |-> "message", task |-> current, to |-> captured])
  /\ UNCHANGED <<queue, working, current, interrupted, taken, result, inCatch, captured,
                 mapVars, call, callsLeft, messagesLeft, canceled, historyVars>>

(* execute returns.  A task that catches InterruptedException on its way    *)
(* clears the flag.                                                         *)
RunReturn ==
  /\ GoTo("run", "after")
  /\ interrupted' \in {interrupted, FALSE}
  /\ UNCHANGED <<queue, working, current, taken, result, inCatch, captured, mapVars, handler,
                 call, callsLeft, messagesLeft, canceled, historyVars>>

(* execute throws: the inner catch block calls handleException.             *)
RunThrow ==
  /\ GoTo("run", "find")
  /\ interrupted' \in {interrupted, FALSE}
  /\ result' = "failed" /\ inCatch' = TRUE
  /\ UNCHANGED <<queue, working, current, taken, captured, mapVars, handler, call, callsLeft, messagesLeft,
                 canceled, historyVars>>

(* handleFinished, or handleException if the flag is set.                   *)
CheckAfter ==
  /\ GoTo("after", "find")
  /\ result' = IF interrupted THEN "failed" ELSE "finished"
  /\ inCatch' = FALSE
  /\ UNCHANGED <<queue, working, current, interrupted, taken, captured, mapVars, handler, call,
                 callsLeft, messagesLeft, canceled, historyVars>>

-----------------------------------------------------------------------------
(* handleFinished / handleException with removeTask, on the executor thread *)

FindListener ==
  /\ GoTo("find", IF listeners[current] = None THEN "loop" ELSE "unreg")
  /\ captured' = listeners[current]
  /\ UNCHANGED <<queue, working, current, interrupted, taken, result, inCatch, mapVars, handler,
                 call, callsLeft, messagesLeft, canceled, historyVars>>

Unregister ==
  /\ GoTo("unreg", "contains")
  /\ listeners' = [listeners EXCEPT ![current] = None]
  /\ UNCHANGED <<queue, working, current, interrupted, taken, result, inCatch, captured,
                 byListener, lists, handler, call, callsLeft, messagesLeft, canceled, historyVars>>

ContainsListener ==
  /\ GoTo("contains", IF byListener[captured] = None THEN "post" ELSE "get")
  /\ UNCHANGED <<queue, working, current, interrupted, taken, result, inCatch, captured,
                 mapVars, handler, call, callsLeft, messagesLeft, canceled, historyVars>>

(* tasks.remove(task) and the size test.  If the client has removed the     *)
(* listener since containsKey, "tasks" is null: the exception goes to the   *)
(* inner catch block, or from there to the outer one.                       *)
RemoveFromList ==
  /\ exPc = "get"
  /\ LET list == byListener[captured]
     IN  IF list = None
           THEN /\ exPc' = IF inCatch THEN "loop" ELSE "find"
                /\ inCatch' = TRUE
                /\ result' = "failed"
                /\ UNCHANGED lists
           ELSE /\ lists' = [lists EXCEPT ![list] = Without(@, current)]
                /\ exPc' = IF lists'[list] = <<>> THEN "drop" ELSE "post"
                /\ UNCHANGED <<inCatch, result>>
  /\ UNCHANGED <<queue, working, current, interrupted, taken, captured, listeners, byListener,
                 handler, call, callsLeft, messagesLeft, canceled, historyVars>>

DropListener ==
  /\ GoTo("drop", "post")
  /\ byListener' = [byListener EXCEPT ![captured] = None]
  /\ UNCHANGED <<queue, working, current, interrupted, taken, result, inCatch, captured,
                 listeners, lists, handler, call, callsLeft, messagesLeft, canceled, historyVars>>

PostOutcome ==
  /\ GoTo("post", "loop")
  /\ handler' = Append(handler, [kind |-> result, task |-> current, to |-> captured])
  /\ UNCHANGED <<queue, working, current, interrupted, taken, result, inCatch, captured, mapVars,
                 call, callsLeft, messagesLeft, canceled, historyVars>>

-----------------------------------------------------------------------------
ClientStep ==
  \/ AddLookup \/ AddGet \/ AddAppend \/ AddPut \/ AddOffer
  \/ CancelCompare \/ CancelFlag \/ CancelInterrupt \/ CancelAllHasNext \/ CancelAllNext
  \/ DetachTest \/ DetachNext

ClientCall ==
  \/ \E t \in Tasks, l \in Listeners : AddTask(t, l)
  \/ \E t \in Tasks, stop \in BOOLEAN : CancelTask(t, stop)
  \/ \E l \in Listeners, stop \in BOOLEAN : CancelAll(l, stop)
  \/ \E l \in Listeners : DetachFromTasks(l)
  \/ StopTasksMultiplexor

(* Every step of the executor but the messages a task may send.             *)
ExecutorStep ==
  \/ Start \/ LoopTest \/ Poll \/ PollInterrupted \/ Assign \/ CheckInterrupted
  \/ TellMessage \/ RunReturn \/ RunThrow \/ CheckAfter \/ FindListener \/ Unregister
  \/ ContainsListener \/ RemoveFromList \/ DropListener \/ PostOutcome

Next == ClientCall \/ ClientStep \/ Deliver \/ RunMessage \/ ExecutorStep

(* The executor thread is scheduled and a task's execute ends.  Nothing     *)
(* obliges the client to call the hub or a task to send messages, and       *)
(* nothing below needs the client to go on with a call or with its looper.  *)
Fairness == WF_vars(ExecutorStep)

Spec == Init /\ [][Next]_vars /\ Fairness

-----------------------------------------------------------------------------
(* Where a submitted task is.                                               *)
BeingAdded(t) == call.at \in {"lookup", "get", "append", "put", "offer"} /\ call.task = t
Reporting(t) == exPc \in ReportPcs /\ current = t
InExecutor(t) ==
  \/ exPc = "assign" /\ taken = t
  \/ exPc \in {"check", "run", "tell", "after", "find"} /\ current = t
  \/ Reporting(t)
Posted(t) == \E i \in DOMAIN handler : handler[i].task = t /\ handler[i].kind # "message"

(* Every variable has the type the code gives it, and a call or a report in *)
(* progress has the objects its next step uses.                             *)
CallRecord ==
  [at : CallPcs, task : Tasks \cup {None}, listener : Listeners \cup {None},
   list : Tasks \cup {None}, pos : Nat, snapshot : Seq(Tasks), stop : BOOLEAN, all : BOOLEAN]

QueueType == queue \in Seq(Tasks) /\ Len(queue) <= Capacity

ExecutorType ==
  /\ working \in BOOLEAN /\ interrupted \in BOOLEAN /\ inCatch \in BOOLEAN
  /\ current \in Tasks \cup {None} /\ taken \in Tasks \cup {None}
  /\ exPc \in ExecutorPcs /\ result \in {"finished", "failed"}
  /\ captured \in Listeners \cup {None}
  /\ exPc \in {"check", "run", "tell", "after", "find"} \cup ReportPcs => current # None
  /\ exPc \in {"tell"} \cup ReportPcs => captured # None

MapType ==
  /\ listeners \in [Tasks -> Listeners \cup {None}]
  /\ byListener \in [Listeners -> Tasks \cup {None}]
  /\ lists \in [Tasks -> Seq(Tasks)]

HandlerType == handler \in Seq(Callback)

CallType ==
  /\ call \in CallRecord
  /\ callsLeft \in 0 .. MaxCalls /\ messagesLeft \in 0 .. MaxMessages
  /\ call.at \in {"lookup", "get", "append", "put", "offer", "cancel", "flag", "interrupt"}
       => call.task # None
  /\ call.at \in {"lookup", "get", "append", "put", "detach", "detachGet"} \/ call.all => call.listener # None
  /\ call.at \in {"append", "detach", "detachGet"} \/ call.all => call.list # None
  /\ call.at \in {"all", "next"} => call.all

HistoryType ==
  /\ submitted \in Seq(Tasks) /\ canceled \subseteq Tasks /\ dropped \subseteq Tasks
  /\ detached \subseteq Tasks /\ delivered \subseteq Tasks /\ asked \subseteq Tasks

TypeOK ==
  QueueType /\ ExecutorType /\ MapType /\ HandlerType /\ CallType /\ HistoryType

(* The outcome callback of a task is the last one it causes, and there is   *)
(* one at most: nothing for this task is behind it in the looper, and once  *)
(* it has run nothing of this task is left there.                           *)
OutcomeIsLast ==
  /\ \A i, j \in DOMAIN handler :
       i < j /\ handler[i].task = handler[j].task => handler[i].kind = "message"
  /\ \A i \in DOMAIN handler : handler[i].task \notin delivered

(* A registered listener is owed a callback: its task is on its way to the  *)
(* queue, in it or in the executor.  The only tasks whose listener stays    *)
(* registered for nothing are those a full queue refused, those addTask     *)
(* threw for and those cancelTask took out of the queue.                    *)
OwedACallback ==
  \A t \in Tasks :
    listeners[t] # None => BeingAdded(t) \/ Holds(queue, t) \/ InExecutor(t) \/ t \in dropped

(* A task cancelTask took out of the queue, or the queue refused, is never  *)
(* executed and never reported afterwards.                                  *)
DroppedNeverRuns ==
  \A t \in dropped : ~Holds(queue, t) /\ ~InExecutor(t) /\ ~Posted(t) /\ t \notin delivered

(* Whoever is registered will be called, and whoever will not be called has *)
(* been dropped for good.                                                   *)
NobodyWaitsInVain == OwedACallback /\ DroppedNeverRuns

(* detachFromTasks is final for the tasks it returns: unless the executor   *)
(* had already looked the listener up, the task is never reported.          *)
DetachIsFinal == [][\A t \in detached : ~Reporting(t) => ~Reporting(t)']_vars

(* Every task the queue accepted leaves the executor in the end, unless it  *)
(* is cancelled in the queue or the hub is stopped.                         *)
EveryAcceptedTaskEnds ==
  \A t \in Tasks : Holds(queue, t) ~>
    (~Holds(queue, t) /\ ~InExecutor(t)) \/ exPc = "dead"

(* stopTasksMultiplexor ends the executor thread once run has begun.        *)
StopTakesEffect == (exPc # "new" /\ ~working) ~> exPc = "dead"

(* Why these hold: a submitted task is in one place at a time, the addTask  *)
(* call, the queue or the executor, and it has no outcome before it leaves  *)
(* the executor.  The three invariants above follow, but none of them is    *)
(* preserved by the steps without the facts about the other places.         *)
NoRepeat(s) == \A i, j \in DOMAIN s : s[i] = s[j] => i = j
Mentioned(t) == \E i \in DOMAIN handler : handler[i].task = t
Fresh(t) == t \notin dropped /\ t \notin delivered /\ ~Mentioned(t)

InOnePlace ==
  /\ NoRepeat(queue)
  /\ \A t \in Tasks :
       /\ BeingAdded(t) => ~Holds(queue, t) /\ ~InExecutor(t) /\ Fresh(t)
       /\ Holds(queue, t) => ~InExecutor(t) /\ Fresh(t)
       /\ InExecutor(t) => t \notin dropped /\ t \notin delivered /\ ~Posted(t)
       /\ BeingAdded(t) \/ Holds(queue, t) \/ InExecutor(t) \/ ~Fresh(t) \/ listeners[t] # None
            => Holds(submitted, t)
  /\ exPc \in ReportPcs \ {"unreg"} => listeners[current] = None

IInv == InOnePlace /\ OutcomeIsLast /\ OwedACallback /\ DroppedNeverRuns

(* The hub keeps the contract of ITaskHub: see TaskContract.                *)
Status(t) ==
  CASE ~Holds(submitted, t) -> "new"
    [] Posted(t) \/ t \in delivered -> "reported"
    [] ~Posted(t) /\ t \notin delivered /\ t \notin dropped
         /\ (listeners[t] # None \/ Reporting(t)) -> "pending"
    [] OTHER -> "silent"

Contract == INSTANCE TaskContract
              WITH order <- submitted, status <- [t \in Tasks |-> Status(t)]

(* Every step of the two threads is a step of the contract or changes       *)
(* nothing it sees: a task is reported once at most, in submission order,   *)
(* and a task that fell silent stays silent.                                *)
KeepsContract == Contract!Spec

-----------------------------------------------------------------------------
(* What the documentation or a test says and the code does not do.          *)

(* "Cancel execution of the specified task" (ITaskHub.cancelTask and        *)
(* RunnableQueueExecutor.cancelTask): only a task given to cancelTask is    *)
(* marked as cancelled or reported with InterruptedException.               *)
CancelHitsOnlyItsTask ==
  /\ canceled \subseteq asked
  /\ (exPc = "find" /\ result = "failed" /\ ~inCatch) => current \in asked

=============================================================================

---------------------------- MODULE TaskContract ----------------------------
(***************************************************************************)
(* What ITaskHub promises of every submitted task, with no threads, queue  *)
(* or maps: a task is pending until it is reported to its listener or      *)
(* falls silent (its listener was detached, or it was taken out), each of  *)
(* them for good, and tasks are reported in the order of submission.       *)
(***************************************************************************)
EXTENDS Naturals, Sequences

CONSTANT Tasks

VARIABLES
  order,    \* the submitted tasks, oldest first
  status    \* what has become of each task

Statuses == {"new", "pending", "reported", "silent"}

Init == order = <<>> /\ status = [t \in Tasks |-> "new"]

(* addTask *)
Submit(t) ==
  /\ status[t] = "new"
  /\ status' = [status EXCEPT ![t] = "pending"]
  /\ order' = Append(order, t)

(* onTaskFinished or onTaskFailed is posted: no older task is pending.      *)
Report(t) ==
  /\ status[t] = "pending"
  /\ \A i, j \in DOMAIN order : i < j /\ order[j] = t => status[order[i]] # "pending"
  /\ status' = [status EXCEPT ![t] = "reported"]
  /\ UNCHANGED order

(* The listener will never hear of the task.                                *)
Silence(t) ==
  /\ status[t] = "pending"
  /\ status' = [status EXCEPT ![t] = "silent"]
  /\ UNCHANGED order

Next == \E t \in Tasks : Submit(t) \/ Report(t) \/ Silence(t)

Spec == Init /\ [][Next]_<<order, status>>
=============================================================================

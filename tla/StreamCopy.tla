----------------------------- MODULE StreamCopy -----------------------------
(***************************************************************************)
(* StreamHelper.copy with a speed limit: the copy loop, the recursion of   *)
(* SpeedControlOutputStream.write, SpeedControlInputStream.read, and the   *)
(* budget they share with ResourceTimeController.  Bytes are counted;      *)
(* the clock is a variable, and a cancel may come from another thread.     *)
(***************************************************************************)
EXTENDS Naturals, Integers

CONSTANTS
  Modes,      \* the kinds of copy: the limited stream is "in", "out" or "none"
  Source,     \* bytes in the source
  Buffer,     \* BUFFER_SIZE of copy
  Limit,      \* mAllowedConsuptionPerSecond
  Slot,       \* TIME_SLOT_MS, in ticks
  Second,     \* ticks in a second
  Measure,    \* updateMeasure
  MaxDepth,   \* calls of write the thread's stack has room for
  Cancels,    \* TRUE: the copy may be cancelled
  MaxSlack    \* bound: ticks that pass while the thread is not asleep

ASSUME CopyAssumption ==
  /\ Modes \subseteq {"none", "in", "out"} /\ Cancels \in BOOLEAN
  /\ Source \in Nat /\ Buffer \in Nat \ {0} /\ Limit \in Nat /\ Slot \in Nat \ {0}
  /\ Second \in Nat \ {0} /\ Measure \in Nat /\ MaxDepth \in Nat \ {0} /\ MaxSlack \in Nat

VARIABLES
  mode,       \* which stream of this copy is limited
  now,        \* System.currentTimeMillis()
  slack,      \* ticks that have passed while the thread was not asleep
  nextTime,   \* mNextTime
  remained,   \* mRemainedResources
  pc,         \* where copy is
  left,       \* bytes the source still holds
  got,        \* bytes of the buffer that read has filled
  off,        \* of these, bytes that write has passed on
  depth,      \* nested calls of write
  total,      \* total, what copy believes it has written
  written,    \* bytes that have reached the inner output
  position,   \* what the last onPositionChanged reported
  canceled,   \* isCanceled() of the monitor
  late        \* buffers read since the cancel

vars == <<mode, now, slack, nextTime, remained, pc, left, got, off, depth, total, written, position,
          canceled, late>>

Ended == {"done", "interrupted", "failed", "overflow"}
Asleep == pc \in {"readSleep", "writeSleep"}

(* The budget of a slot, in integer arithmetic: a limit below Second / Slot *)
(* gives none at all.                                                       *)
Budget == (Limit * Slot) \div Second

Least(a, b) == IF a <= b THEN a ELSE b

Init ==
  /\ mode \in Modes
  /\ now = 0 /\ slack = 0 /\ nextTime = Slot /\ remained = Budget
  /\ pc = "read" /\ left = Source /\ got = 0 /\ off = 0 /\ depth = 0
  /\ total = 0 /\ written = 0 /\ position = 0 /\ canceled = FALSE /\ late = 0

GoTo(from, to) == pc = from /\ pc' = to

(* requestResources                                                         *)
Allowed(count, limited) == IF limited THEN Least(count, remained) ELSE count

-----------------------------------------------------------------------------
(* checkRemainedResources: go on, or sleep until the slot has ended.        *)
CheckRead ==
  /\ GoTo("read", IF mode = "in" /\ remained < 1 THEN "readSleep" ELSE "take")
  /\ UNCHANGED <<mode, now, slack, nextTime, remained, left, got, off, depth, total, written, position,
                 canceled, late>>

CheckWrite ==
  /\ GoTo("write", IF mode = "out" /\ remained < 1 THEN "writeSleep" ELSE "put")
  /\ UNCHANGED <<mode, now, slack, nextTime, remained, left, got, off, depth, total, written, position,
                 canceled, late>>

(* Mutant: the thread does not sleep for the rest of the slot.              *)
WakeEarly ==
  /\ GoTo("readSleep", "take") \/ GoTo("writeSleep", "put")
  /\ nextTime' = now + Slot
  /\ remained' = Budget
  /\ UNCHANGED <<mode, now, slack, left, got, off, depth, total, written, position, canceled, late>>

(* waitTimeSlot after its sleep: updateStat.                                *)
Wake ==
  /\ GoTo("readSleep", "take") \/ GoTo("writeSleep", "put")
  /\ now >= nextTime
  /\ nextTime' = now + Slot
  /\ remained' = Budget
  /\ UNCHANGED <<mode, now, slack, left, got, off, depth, total, written, position, canceled, late>>

(* The sleep is interrupted by the cancel (RunnableQueueExecutor.cancelTask *)
(* sets the flag and interrupts the thread): an IOException leaves copy.    *)
SleepInterrupted ==
  /\ canceled
  /\ GoTo("readSleep", "failed") \/ GoTo("writeSleep", "failed")
  /\ UNCHANGED <<mode, now, slack, nextTime, remained, left, got, off, depth, total, written, position,
                 canceled, late>>

(* Mutant: the end of the source does not end the loop.                     *)
TakeOn ==
  LET count == Allowed(Buffer, mode = "in")
  IN  \/ /\ count <= 0 \/ left = 0
         /\ GoTo("take", "read")
         /\ UNCHANGED <<remained, left, got, off, late>>
      \/ /\ count > 0
         /\ GoTo("take", "write")
         /\ \E n \in 1 .. Least(count, left) :
              /\ left' = left - n /\ got' = n
              /\ remained' = IF mode = "in" THEN remained - n ELSE remained
         /\ off' = 0
         /\ late' = IF canceled THEN late + 1 ELSE late

(* read of the inner stream: any number of the bytes asked for, 0 when none *)
(* are asked for and -1 at the end, which is also what is taken from the    *)
(* budget.  The loop of copy ends with 0 and -1.                            *)
Take ==
  LET count == Allowed(Buffer, mode = "in")
  IN  \/ /\ count <= 0 \/ left = 0
         /\ GoTo("take", "done")
         /\ remained' = IF mode = "in" /\ count > 0 THEN remained + 1 ELSE remained
         /\ UNCHANGED <<left, got, off, late>>
      \/ /\ count > 0
         /\ GoTo("take", "write")
         /\ \E n \in 1 .. Least(count, left) :
              /\ left' = left - n /\ got' = n
              /\ remained' = IF mode = "in" THEN remained - n ELSE remained
         /\ off' = 0
         /\ late' = IF canceled THEN late + 1 ELSE late

TakeBytes ==
  /\ Take
  /\ UNCHANGED <<mode, now, slack, nextTime, depth, total, written, position, canceled>>

(* Mutant: the nested call is given the whole count again.                  *)
PutRepeats ==
  /\ pc = "put"
  /\ LET n == Allowed(got - off, mode = "out")
     IN  /\ written' = written + n
         /\ remained' = IF mode = "out" THEN remained - n ELSE remained
         /\ IF n < got - off
              THEN /\ off' = 0 /\ depth' = depth + 1
                   /\ pc' = IF depth + 1 < MaxDepth THEN "write" ELSE "overflow"
              ELSE off' = got /\ depth' = 0 /\ pc' = "after"
  /\ UNCHANGED <<mode, now, slack, nextTime, left, got, total, position, canceled, late>>

(* write of what the budget allows; the rest is left to a nested call.      *)
Put ==
  /\ pc = "put"
  /\ LET n == Allowed(got - off, mode = "out")
     IN  /\ off' = off + n
         /\ written' = written + n
         /\ remained' = IF mode = "out" THEN remained - n ELSE remained
         /\ IF n < got - off
              THEN /\ depth' = depth + 1
                   /\ pc' = IF depth + 1 < MaxDepth THEN "write" ELSE "overflow"
              ELSE depth' = 0 /\ pc' = "after"
  /\ UNCHANGED <<mode, now, slack, nextTime, left, got, total, position, canceled, late>>

(* Mutant: the monitor is asked for progress only, not for the cancel.      *)
AfterWriteDeaf ==
  /\ GoTo("after", "read")
  /\ total' = total + got
  /\ position' = IF total' - Measure > 0 THEN total' ELSE position
  /\ UNCHANGED <<mode, now, slack, nextTime, remained, left, got, off, depth, written, canceled, late>>

(* The rest of the round: total, the listener (prevTotal stays 0) and the   *)
(* cancel monitor.                                                          *)
AfterWrite ==
  /\ GoTo("after", IF canceled THEN "interrupted" ELSE "read")
  /\ total' = total + got
  /\ position' = IF total' - Measure > 0 THEN total' ELSE position
  /\ UNCHANGED <<mode, now, slack, nextTime, remained, left, got, off, depth, written, canceled, late>>

-----------------------------------------------------------------------------
Cancel ==
  /\ Cancels /\ ~canceled /\ pc \notin Ended
  /\ canceled' = TRUE
  /\ UNCHANGED <<mode, now, slack, nextTime, remained, pc, left, got, off, depth, total, written,
                 position, late>>

Tick ==
  /\ pc \notin Ended
  /\ \/ Asleep /\ now < nextTime /\ UNCHANGED slack
     \/ ~Asleep /\ slack < MaxSlack /\ slack' = slack + 1
  /\ now' = now + 1
  /\ UNCHANGED <<mode, nextTime, remained, pc, left, got, off, depth, total, written, position,
                 canceled, late>>

CopyStep ==
  \/ CheckRead \/ CheckWrite \/ Wake \/ TakeBytes \/ Put \/ AfterWrite

Next == CopyStep \/ SleepInterrupted \/ Cancel \/ Tick

(* The thread is scheduled and the clock goes on.                           *)
Spec == Init /\ [][Next]_vars /\ WF_vars(CopyStep) /\ WF_vars(Tick)

-----------------------------------------------------------------------------
(* Every variable has the type the code gives it.                           *)
TypeOK ==
  /\ mode \in Modes
  /\ now \in Nat /\ slack \in 0 .. MaxSlack /\ nextTime \in Nat /\ remained \in 0 .. Budget + 1
  /\ pc \in {"read", "readSleep", "take", "write", "writeSleep", "put", "after"} \cup Ended
  /\ left \in 0 .. Source /\ got \in 0 .. Buffer /\ off \in 0 .. got /\ depth \in 0 .. MaxDepth
  /\ total \in 0 .. Source /\ written \in 0 .. Source /\ position \in 0 .. Source
  /\ canceled \in BOOLEAN /\ late \in Nat

(* The speed limit: in the time passed, no more is written than the budgets *)
(* of the slots that have begun in it (with a limited input, no more is     *)
(* read).                                                                   *)
RateIsKept ==
  /\ mode = "out" => written <= Budget * (1 + now \div Slot)
  /\ mode = "in" => Source - left <= Budget * (1 + now \div Slot)

(* No byte is lost or written twice by the recursion of write: what was     *)
(* read is written, or is the rest of the buffer.                           *)
BytesAreKept ==
  /\ pc \in {"write", "writeSleep", "put", "after", "overflow"} =>
       written = total + off /\ Source - left = total + got
  /\ pc \in {"read", "readSleep", "take", "done", "interrupted"} =>
       written = total /\ Source - left = total

(* copy returns only when the source is at its end.                         *)
CopyIsWhole == pc = "done" => left = 0 /\ written = Source

(* What has come in goes out, all of it when copy returns, and nothing else.*)
NoByteIsLost == BytesAreKept /\ CopyIsWhole

(* A cancelled copy passes on one more buffer at most.                      *)
CancelStopsCopy == late <= 1

(* A copy comes to its end.                                                 *)
CopyEnds == <>(pc \in Ended)

=============================================================================

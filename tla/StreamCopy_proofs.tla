------------------------- MODULE StreamCopy_proofs -------------------------
(***************************************************************************)
(* Proofs about StreamCopy, for every source, buffer, limit and slot.      *)
(***************************************************************************)
EXTENDS StreamCopy, TLAPS

USE CopyAssumption DEF CopyAssumption

-----------------------------------------------------------------------------
(* The arithmetic of slots.                                                 *)

(* A quotient is a natural number, and it is monotone.                      *)
LEMMA Quotient ==
  ASSUME NEW a \in Nat, NEW b \in Nat, NEW d \in Nat \ {0}, a <= b
  PROVE  a \div d \in Nat /\ a \div d <= b \div d
BY SMT

(* One more slot is one more.                                               *)
LEMMA NextSlot ==
  ASSUME NEW a \in Nat, NEW d \in Nat \ {0}
  PROVE  (a + d) \div d = 1 + a \div d /\ d \div d = 1
BY SMT

(* More slots have a larger budget.                                         *)
LEMMA MoreSlots ==
  ASSUME NEW a \in Nat, NEW b \in Nat, NEW d \in Nat, a <= b
  PROVE  d * a <= d * b /\ d * a \in Nat /\ d * (1 + a) = d * a + d
BY SMT

(* The budget of a slot is a number of bytes.                               *)
LEMMA BudgetIsNat == Budget \in Nat
<1>1. Limit * Slot \in Nat
  BY SMT
<1> QED
  BY <1>1, Quotient DEF Budget

-----------------------------------------------------------------------------
(* The invariant                                                            *)

(* write is called while the stack has room and returns when all is passed  *)
(* on; at the end of the source the budget may have grown by the -1 that    *)
(* read returned.                                                           *)
Bounded ==
  /\ TypeOK
  /\ pc = "after" => off = got
  /\ pc # "overflow" => depth < MaxDepth
  /\ pc # "done" => remained <= Budget

(* What may be used in the slots that have begun until nextTime.            *)
Granted == Budget * (nextTime \div Slot)

(* used and what is left of the budget are granted.                         *)
Within(used) == used <= Granted /\ (pc # "done" => used + remained <= Granted)

RateInv ==
  /\ nextTime <= now + Slot
  /\ mode = "out" => Within(written)
  /\ mode = "in" => Within(Source - left)

(* A cancelled copy has at most the buffer in hand.                         *)
LateInv ==
  late = 0 \/ (late = 1 /\ canceled
                 /\ pc \in {"write", "writeSleep", "put", "after", "interrupted", "failed", "overflow"})

-----------------------------------------------------------------------------
(* A copy keeps its kind.                                                   *)
LEMMA ModeIsKept == Bounded /\ [Next]_vars => mode' = mode /\ mode \in Modes
BY DEF Next, CopyStep, CheckRead, CheckWrite, Wake, SleepInterrupted, TakeBytes, Put, AfterWrite,
       Cancel, Tick, vars, Bounded, TypeOK

LEMMA InitBounded == Init => Bounded /\ BytesAreKept
<1> SUFFICES ASSUME Init PROVE Bounded /\ BytesAreKept
  OBVIOUS
<1>1. TypeOK
  <2>1. /\ MaxSlack \in Nat /\ Slot \in Nat /\ Source \in Nat /\ Buffer \in Nat /\ MaxDepth \in Nat
        /\ Budget \in Nat
    BY BudgetIsNat
  <2>2. now \in Nat /\ slack \in 0 .. MaxSlack /\ nextTime \in Nat /\ remained \in 0 .. Budget + 1
    BY <2>1 DEF Init
  <2>3. /\ pc \in {"read", "readSleep", "take", "write", "writeSleep", "put", "after"}
        /\ canceled \in BOOLEAN /\ mode \in Modes
    BY DEF Init
  <2>4. left \in 0 .. Source /\ got \in 0 .. Buffer /\ off \in 0 .. got /\ depth \in 0 .. MaxDepth
    BY <2>1 DEF Init
  <2>5. total \in 0 .. Source /\ written \in 0 .. Source /\ position \in 0 .. Source /\ late \in Nat
    BY <2>1 DEF Init
  <2> QED
    BY <2>2, <2>3, <2>4, <2>5 DEF TypeOK
<1> QED
  BY <1>1, BudgetIsNat DEF Init, Bounded, BytesAreKept

(* Types and bytes are kept together: total is at most Source because       *)
(* total + got is what has left the source.                                 *)
LEMMA NextBounded ==
  Bounded /\ BytesAreKept /\ [Next]_vars => Bounded' /\ BytesAreKept'
<1> SUFFICES ASSUME Bounded, BytesAreKept, [Next]_vars
             PROVE  Bounded' /\ BytesAreKept'
  OBVIOUS
<1>m. mode' = mode /\ mode \in Modes
  BY ModeIsKept
<1> USE BudgetIsNat, <1>m
<1>1. CASE CheckRead
  BY <1>1 DEF CheckRead, GoTo, Bounded, TypeOK, Ended, BytesAreKept
<1>2. CASE CheckWrite
  BY <1>2 DEF CheckWrite, GoTo, Bounded, TypeOK, Ended, BytesAreKept
<1>3. CASE Wake
  <2>1. nextTime' \in Nat
    BY <1>3 DEF Wake, Bounded, TypeOK
  <2> QED
    BY <1>3, <2>1 DEF Wake, GoTo, Bounded, TypeOK, Ended, BytesAreKept
<1>4. CASE SleepInterrupted
  BY <1>4 DEF SleepInterrupted, GoTo, Bounded, TypeOK, Ended, BytesAreKept
<1>5. CASE TakeBytes
  <2> DEFINE count == Allowed(Buffer, mode = "in")
  <2>1. count \in Nat /\ count <= Buffer /\ (mode = "in" => count <= remained)
    BY DEF Allowed, Least, Bounded, TypeOK
  <2>2. CASE (count <= 0 \/ left = 0) /\ pc' = "done"
    BY <1>5, <2>1, <2>2 DEF TakeBytes, Take, GoTo, Bounded, TypeOK, Ended, BytesAreKept
  <2>3. CASE count > 0 /\ pc' = "write"
    <3>1. PICK n \in 1 .. Least(count, left) :
            /\ left' = left - n /\ got' = n
            /\ remained' = IF mode = "in" THEN remained - n ELSE remained
      BY <1>5, <2>3 DEF TakeBytes, Take, GoTo
    <3>2. n \in Nat /\ 1 <= n /\ n <= count /\ n <= left
      BY <2>1 DEF Least, Bounded, TypeOK
    <3> QED
      BY <1>5, <2>1, <2>3, <3>1, <3>2 DEF TakeBytes, Take, GoTo, Bounded, TypeOK, Ended, BytesAreKept
  <2> QED
    BY <1>5, <2>2, <2>3 DEF TakeBytes, Take, GoTo
<1>6. CASE Put
  <2> DEFINE n == Allowed(got - off, mode = "out")
  <2>1. n \in Nat /\ n <= got - off /\ (mode = "out" => n <= remained)
    BY DEF Allowed, Least, Bounded, TypeOK
  <2>2. CASE n < got - off
    BY <1>6, <2>1, <2>2 DEF Put, Bounded, TypeOK, Ended, BytesAreKept
  <2>3. CASE n = got - off
    BY <1>6, <2>1, <2>3 DEF Put, Bounded, TypeOK, Ended, BytesAreKept
  <2> QED
    BY <2>1, <2>2, <2>3 DEF Bounded, TypeOK
<1>7. CASE AfterWrite
  <2>1. off = got /\ total + got <= Source
    BY <1>7 DEF AfterWrite, GoTo, Bounded, TypeOK, BytesAreKept
  <2> QED
    BY <1>7, <2>1 DEF AfterWrite, GoTo, Bounded, TypeOK, Ended, BytesAreKept
<1>8. CASE Cancel
  BY <1>8 DEF Cancel, Bounded, TypeOK, Ended, BytesAreKept
<1>9. CASE Tick
  BY <1>9 DEF Tick, Asleep, Bounded, TypeOK, Ended, BytesAreKept
<1>10. CASE UNCHANGED vars
  BY <1>10 DEF vars, Bounded, TypeOK, Ended, BytesAreKept
<1> QED
  BY <1>1, <1>2, <1>3, <1>4, <1>5, <1>6, <1>7, <1>8, <1>9, <1>10 DEF Next, CopyStep

-----------------------------------------------------------------------------
LEMMA InitRate == Init => RateInv /\ LateInv
<1> SUFFICES ASSUME Init PROVE RateInv /\ LateInv
  OBVIOUS
<1>1. Granted = Budget
  BY BudgetIsNat, NextSlot DEF Init, Granted
<1> QED
  BY <1>1, BudgetIsNat DEF Init, RateInv, Within, LateInv

(* As long as nextTime stays, what is granted stays; Wake grants a budget   *)
(* for the slot it begins, which is behind the last one.                    *)
LEMMA NextRate ==
  Bounded /\ BytesAreKept /\ RateInv /\ [Next]_vars => RateInv'
<1> SUFFICES ASSUME Bounded, BytesAreKept, RateInv, [Next]_vars
             PROVE  RateInv'
  OBVIOUS
<1>m. mode' = mode /\ mode \in Modes
  BY ModeIsKept
<1> USE BudgetIsNat, <1>m
<1>0. Granted \in Nat
  <2>1. nextTime \in Nat
    BY DEF Bounded, TypeOK
  <2> QED
    BY <2>1, Quotient, MoreSlots DEF Granted
<1>1. CASE Wake
  <2>1. now \in Nat /\ nextTime \in Nat /\ nextTime <= now /\ nextTime' = now + Slot
    BY <1>1 DEF Wake, Bounded, TypeOK
  <2>2. /\ nextTime \div Slot \in Nat /\ now \div Slot \in Nat
        /\ nextTime \div Slot <= now \div Slot
    BY <2>1, Quotient
  <2>3. Granted' = Budget * (1 + now \div Slot)
    BY <2>1, NextSlot DEF Granted, Budget
  <2>4. Granted' = Budget * (now \div Slot) + Budget
    BY <2>2, <2>3, MoreSlots
  <2>5. Granted + Budget <= Granted' /\ Granted' \in Nat
    BY <2>2, <2>4, MoreSlots DEF Granted
  <2>6. remained' = Budget /\ UNCHANGED <<now, left, written>>
    BY <1>1 DEF Wake
  <2>7. pc # "done" /\ remained \in Nat
    BY <1>1 DEF Wake, GoTo, Bounded, TypeOK
  <2>8. ASSUME NEW used \in Nat, Within(used)
        PROVE  used <= Granted' /\ used + remained' <= Granted'
    BY <1>0, <2>5, <2>6, <2>7, <2>8 DEF Within
  <2>9. written \in Nat /\ Source - left \in Nat
    BY DEF Bounded, TypeOK
  <2>10. mode = "out" => Within(written)'
    BY <2>6, <2>8, <2>9 DEF RateInv, Within
  <2>11. mode = "in" => Within(Source - left)'
    BY <2>6, <2>8, <2>9 DEF RateInv, Within
  <2> QED
    BY <2>1, <2>6, <2>10, <2>11 DEF RateInv
<1>2. CASE nextTime' = nextTime
  <2>1. Granted' = Granted
    BY <1>2 DEF Granted, Budget
  <2>2. CASE CheckRead \/ CheckWrite \/ SleepInterrupted \/ AfterWrite \/ Cancel \/ Tick \/ UNCHANGED vars
    <3>1. UNCHANGED <<remained, left, written>> /\ (pc = "done" => pc' = "done")
      BY <2>2 DEF CheckRead, CheckWrite, SleepInterrupted, AfterWrite, Cancel, Tick, GoTo, vars
    <3>2. nextTime' <= now' + Slot
      BY <2>2, <1>2 DEF CheckRead, CheckWrite, SleepInterrupted, AfterWrite, Cancel, Tick, vars,
                        RateInv, Bounded, TypeOK
    <3> QED
      BY <2>1, <3>1, <3>2 DEF RateInv, Within
  <2>3. CASE TakeBytes
    <3> DEFINE count == Allowed(Buffer, mode = "in")
    <3>1. pc = "take" /\ nextTime' <= now' + Slot /\ written' = written
      BY <2>3 DEF TakeBytes, Take, GoTo, RateInv
    <3>2. CASE pc' = "done" /\ left' = left
      BY <2>1, <3>1, <3>2 DEF RateInv, Within
    <3>3. CASE count > 0 /\ pc' = "write"
      <4>1. PICK n \in 1 .. Least(count, left) :
              /\ left' = left - n
              /\ remained' = IF mode = "in" THEN remained - n ELSE remained
        BY <2>3, <3>3 DEF TakeBytes, Take, GoTo
      <4>2. n \in Nat /\ n <= left
        BY DEF Allowed, Least, Bounded, TypeOK
      <4>3. mode = "in" => (Source - left') + remained' = (Source - left) + remained
        BY <4>1, <4>2 DEF Bounded, TypeOK
      <4>4. remained' \in Nat /\ Source - left' \in Nat
        BY <2>3, NextBounded DEF Bounded, TypeOK
      <4>5. mode = "in" => Within(Source - left)'
        BY <1>0, <2>1, <3>1, <4>3, <4>4 DEF RateInv, Within
      <4>6. mode = "out" => Within(written)'
        BY <2>1, <3>1, <4>1 DEF RateInv, Within
      <4> QED
        BY <3>1, <4>5, <4>6 DEF RateInv
    <3> QED
      BY <2>3, <3>2, <3>3 DEF TakeBytes, Take, GoTo
  <2>4. CASE Put
    <3> DEFINE n == Allowed(got - off, mode = "out")
    <3>1. n \in Nat /\ (mode = "out" => n <= remained)
      BY DEF Allowed, Least, Bounded, TypeOK
    <3>2. /\ pc = "put" /\ nextTime' <= now' + Slot /\ left' = left /\ written' = written + n
          /\ remained' = IF mode = "out" THEN remained - n ELSE remained
      BY <2>4 DEF Put, RateInv
    <3>3. written \in Nat /\ remained \in Nat
      BY DEF Bounded, TypeOK
    <3>4. mode = "out" => /\ written' + remained' = written + remained
                          /\ written' \in Nat /\ remained' \in Nat
      BY <3>1, <3>2, <3>3
    <3>5. mode = "out" => Within(written)'
      BY <1>0, <2>1, <3>2, <3>4 DEF RateInv, Within
    <3>6. mode = "in" => Within(Source - left)'
      BY <2>1, <3>2 DEF RateInv, Within
    <3> QED
      BY <3>2, <3>5, <3>6 DEF RateInv
  <2> QED
    BY <1>1, <2>2, <2>3, <2>4 DEF Next, CopyStep, Wake
<1> QED
  BY <1>1, <1>2 DEF Next, CopyStep, CheckRead, CheckWrite, SleepInterrupted, TakeBytes, Put,
                    AfterWrite, Cancel, Tick, vars

LEMMA NextLate == Bounded /\ LateInv /\ [Next]_vars => LateInv'
<1> SUFFICES ASSUME Bounded, LateInv, [Next]_vars PROVE LateInv'
  OBVIOUS
<1> USE DEF LateInv, GoTo
<1>1. CASE CheckRead \/ CheckWrite \/ Wake \/ SleepInterrupted
  BY <1>1 DEF CheckRead, CheckWrite, Wake, SleepInterrupted
<1>2. CASE TakeBytes
  <2>1. late = 0
    BY <1>2 DEF TakeBytes, Take
  <2> QED
    BY <1>2, <2>1 DEF TakeBytes, Take
<1>3. CASE Put
  BY <1>3 DEF Put
<1>4. CASE AfterWrite
  BY <1>4 DEF AfterWrite
<1>5. CASE Cancel \/ Tick \/ UNCHANGED vars
  BY <1>5 DEF Cancel, Tick, vars
<1> QED
  BY <1>1, <1>2, <1>3, <1>4, <1>5 DEF Next, CopyStep

-----------------------------------------------------------------------------
IInv == Bounded /\ BytesAreKept /\ RateInv /\ LateInv

(* The invariant of the copy: types, bytes, budget and late buffers         *)
(* together.                                                                *)
THEOREM CopySafety == Spec => []IInv
<1>1. Init => IInv
  BY InitBounded, InitRate DEF IInv
<1>2. IInv /\ [Next]_vars => IInv'
  BY NextBounded, NextRate, NextLate DEF IInv
<1> QED
  BY <1>1, <1>2, PTL DEF Spec

(* Every variable of the copy keeps its type, the position never passes the *)
(* size of the source, and the budget is never negative.                    *)
THEOREM TypeCorrect == Spec => []TypeOK
<1>1. IInv => TypeOK
  BY DEF IInv, Bounded
<1> QED
  BY <1>1, CopySafety, PTL

(* StreamHelper.copy and the recursion of SpeedControlOutputStream.write    *)
(* lose no byte and write none twice.                                       *)
THEOREM BytesAreKeptHolds == Spec => []BytesAreKept
<1>1. IInv => BytesAreKept
  BY DEF IInv
<1> QED
  BY <1>1, CopySafety, PTL

(* The speed limit of SpeedControlInputStream and SpeedControlOutputStream: *)
(* whatever the clock does between two calls, no more passes than the       *)
(* budgets of the slots that have begun.                                    *)
THEOREM RateIsKeptHolds == Spec => []RateIsKept
<1>1. IInv => RateIsKept
  <2> SUFFICES ASSUME IInv PROVE RateIsKept
    OBVIOUS
  <2>1. now \in Nat /\ nextTime \in Nat /\ nextTime <= now + Slot /\ now + Slot \in Nat
    BY DEF IInv, Bounded, TypeOK, RateInv
  <2>2. nextTime \div Slot \in Nat /\ nextTime \div Slot <= 1 + now \div Slot
    BY <2>1, Quotient, NextSlot
  <2>3. now \div Slot \in Nat
    BY <2>1, Quotient
  <2>4. Granted <= Budget * (1 + now \div Slot) /\ Granted \in Nat /\ Budget * (1 + now \div Slot) \in Nat
    BY <2>2, <2>3, BudgetIsNat, MoreSlots DEF Granted
  <2>5. written \in Nat /\ Source - left \in Nat
    BY DEF IInv, Bounded, TypeOK
  <2> QED
    BY <2>4, <2>5 DEF IInv, RateInv, Within, RateIsKept
<1> QED
  BY <1>1, CopySafety, PTL

(* A cancelled copy passes on one more buffer at most: the monitor is asked *)
(* after every buffer.                                                      *)
THEOREM CancelStopsCopyHolds == Spec => []CancelStopsCopy
<1>1. IInv => CancelStopsCopy
  BY DEF IInv, LateInv, CancelStopsCopy
<1> QED
  BY <1>1, CopySafety, PTL

-----------------------------------------------------------------------------
(* A read is made with a budget, and ends the copy at the end of the source *)
(* only.                                                                    *)
WholeInv ==
  /\ pc = "take" /\ mode = "in" => remained > 0
  /\ pc = "done" => left = 0

LEMMA NextWhole ==
  ASSUME "in" \in Modes => Budget > 0
  PROVE  IInv /\ WholeInv /\ [Next]_vars => WholeInv'
<1> SUFFICES ASSUME IInv, WholeInv, [Next]_vars PROVE WholeInv'
  OBVIOUS
<1>m. mode' = mode /\ (mode = "in" => Budget > 0)
  BY ModeIsKept DEF IInv, Bounded, TypeOK
<1> USE <1>m DEF WholeInv, GoTo
<1>0. TypeOK
  BY DEF IInv, Bounded
<1>1. CASE CheckRead
  BY <1>0, <1>1, BudgetIsNat DEF CheckRead, TypeOK
<1>2. CASE Wake
  BY <1>2 DEF Wake, Budget
<1>3. CASE TakeBytes
  <2>1. Allowed(Buffer, mode = "in") \in Int /\ ~(Allowed(Buffer, mode = "in") <= 0)
    <3>1. pc = "take"
      BY <1>3 DEF TakeBytes, Take
    <3>2. remained \in Int
      BY <1>0, BudgetIsNat DEF TypeOK
    <3>3. Buffer \in Nat /\ Buffer > 0
      OBVIOUS
    <3>4. mode = "in" => remained > 0
      BY <3>1
    <3>5. CASE mode = "in"
      BY <3>2, <3>3, <3>4, <3>5 DEF Allowed, Least
    <3>6. CASE mode # "in"
      BY <3>3, <3>6 DEF Allowed
    <3> QED
      BY <3>5, <3>6
  <2>2. pc' = "done" => left = 0 /\ left' = left
    BY <1>3, <2>1 DEF TakeBytes, Take
  <2> QED
    BY <1>3, <2>2 DEF TakeBytes, Take
<1>4. CASE CheckWrite \/ SleepInterrupted \/ Put \/ AfterWrite
  BY <1>4 DEF CheckWrite, SleepInterrupted, Put, AfterWrite
<1>5. CASE Cancel \/ Tick \/ UNCHANGED vars
  BY <1>5 DEF Cancel, Tick, vars
<1> QED
  BY <1>1, <1>2, <1>3, <1>4, <1>5 DEF Next, CopyStep

(* copy returns with the whole source written, unless a limited input has   *)
(* no budget at all: below Second / Slot bytes a second the first read asks *)
(* for nothing and ends the copy.                                           *)
THEOREM CopyIsWholeHolds ==
  ASSUME "in" \in Modes => Budget > 0
  PROVE  Spec => []CopyIsWhole
<1>1. Init => WholeInv
  BY DEF Init, WholeInv
<1>2. IInv /\ WholeInv /\ [Next]_vars => WholeInv'
  BY NextWhole
<1>3. IInv /\ WholeInv => CopyIsWhole
  BY DEF IInv, Bounded, TypeOK, BytesAreKept, WholeInv, CopyIsWhole
<1> QED
  BY <1>1, <1>2, <1>3, CopySafety, PTL DEF Spec

(* Both at once: the bytes in between, and all of them at the end.          *)
THEOREM NoByteIsLostHolds ==
  ASSUME "in" \in Modes => Budget > 0
  PROVE  Spec => []NoByteIsLost
<1>1. BytesAreKept /\ CopyIsWhole => NoByteIsLost
  BY DEF NoByteIsLost
<1> QED
  BY <1>1, BytesAreKeptHolds, CopyIsWholeHolds, PTL
=============================================================================

------------------------- MODULE PageLoading_proofs -------------------------
(***************************************************************************)
(* Proofs about PageLoading, for every source, size of a page, set of      *)
(* threads and number of calls.  IInv says where the one load of a list is *)
(* (its thread, the queue or the hands of handleMessage), that it holds    *)
(* the isLoading flag, and where its page belongs; of a cursor it says     *)
(* which thread holds the flag and counts those that do no longer.         *)
(***************************************************************************)
EXTENDS PageLoading, FiniteSetTheorems, SequenceTheorems, WellFoundedInduction, TLAPS

ThreadStates ==
  [st : {"idle", "reading", "fetching", "writing"}, start : Nat,
   more : BOOLEAN, writes : SUBSET {"want", "loading"}]

Active(t) == thread[t].st # "idle"
Holds(t) == thread[t].st = "fetching" \/ "loading" \in thread[t].writes
IsPage(msg) == msg.what = "addList"

-----------------------------------------------------------------------------
(* The parts of the inductive invariant                                     *)

(* The threads of a list have nothing to write, and its messages are pages  *)
(* and edits.                                                               *)
ListShape ==
  /\ \A t \in Threads : thread[t].st # "writing" /\ thread[t].writes = {}
                          /\ (~Active(t) => thread[t] = Idle)
  /\ \A i \in DOMAIN queue : queue[i].what # "finished"

(* A load has one place, and isLoading tells whether there is one.          *)
OnePlace ==
  /\ \A t, u \in Threads : Active(t) /\ Active(u) => t = u
  /\ \A i, j \in DOMAIN queue : IsPage(queue[i]) /\ IsPage(queue[j]) => i = j
  /\ \A t \in Threads : Active(t) => isLoading /\ page = None
  /\ \A t \in Threads, i \in DOMAIN queue : ~(Active(t) /\ IsPage(queue[i]))
  /\ \A i \in DOMAIN queue : IsPage(queue[i]) => isLoading /\ page = None
  /\ page # None => isLoading
  /\ isLoading => \/ \E t \in Threads : Active(t)
                  \/ \E i \in DOMAIN queue : IsPage(queue[i])
                  \/ page # None
  /\ shown = IF isLoading THEN 1 ELSE 0

(* Where the page belongs as long as nobody edits the list                  *)
PageBelongs ==
  ~edited =>
    /\ \A t \in Threads : thread[t].st = "fetching" => thread[t].start = Len(mItems)
    /\ \A i \in DOMAIN queue : IsPage(queue[i]) => queue[i].start = Len(mItems)
    /\ page # None => page.start = Len(mItems)

ListInv == kind = "list" => ListShape /\ OnePlace /\ PageBelongs

CursorShape ==
  /\ page = None /\ ~clearing
  /\ \A i \in DOMAIN queue : queue[i].what = "finished"
  /\ \A t \in Threads : thread[t].st # "reading"
                          /\ (thread[t].st # "writing" => thread[t].writes = {})
                          /\ (~Active(t) => thread[t] = Idle)

(* One thread at most holds the flag; the loads that are not reported are   *)
(* those of the threads and of the queue.                                   *)
OneHolder ==
  /\ \A t, u \in Threads : Holds(t) /\ Holds(u) => t = u
  /\ isLoading <=> \E t \in Threads : Holds(t)
  /\ shown = Cardinality(Alive) + Len(queue)

CursorInv == kind = "cursor" => CursorShape /\ OneHolder

(* A wish that is kept has nothing in flight that could overwrite it.       *)
WishInv ==
  wish => /\ mWantToLoadMore /\ ~isLoading
          /\ \A t \in Threads : "want" \notin thread[t].writes

ForgetInv == mItems = <<>> /\ mWantToLoadMore => unseen \/ isLoading

IInv == TypeOK /\ ListInv /\ CursorInv /\ WishInv /\ ForgetInv

-----------------------------------------------------------------------------
(* What the actions are built from                                          *)

LEMMA KindIs == TypeOK => kind \in {"list", "cursor"}
BY PageAssumption DEF TypeOK

LEMMA ThreadType == TypeOK <=> /\ TypeOK /\ thread \in [Threads -> ThreadStates]
BY DEF TypeOK, ThreadStates

(* A thread that starts                                                     *)
LEMMA StartedType ==
  \A s \in {"reading", "fetching"} :
    /\ [Idle EXCEPT !.st = s] \in ThreadStates
    /\ [Idle EXCEPT !.st = s].st = s /\ [Idle EXCEPT !.st = s].writes = {}
BY DEF Idle, ThreadStates

LEMMA StartThread ==
  ASSUME thread \in [Threads -> ThreadStates], NEW t \in Threads, thread[t] = Idle,
         NEW s \in {"reading", "fetching"}, thread' = [thread EXCEPT ![t].st = s]
  PROVE  /\ thread' \in [Threads -> ThreadStates]
         /\ thread'[t].st = s /\ thread'[t].writes = {}
         /\ \A u \in Threads : u # t => thread'[u] = thread[u]
<1>1. thread' = [thread EXCEPT ![t] = [thread[t] EXCEPT !.st = s]]
  OBVIOUS
<1>2. DOMAIN thread = Threads /\ thread[t] \in ThreadStates
  OBVIOUS
<1>3. /\ [thread[t] EXCEPT !.st = s] \in ThreadStates
      /\ [thread[t] EXCEPT !.st = s].st = s /\ [thread[t] EXCEPT !.st = s].writes = {}
  BY StartedType
<1> HIDE DEF ThreadStates
<1>4. thread'[t] = [thread[t] EXCEPT !.st = s]
  BY <1>1, <1>2
<1>5. \A u \in Threads : u # t => thread'[u] = thread[u]
  BY <1>1, <1>2
<1>6. thread' \in [Threads -> ThreadStates]
  BY <1>1, <1>3
<1> QED
  BY <1>3, <1>4, <1>5, <1>6

(* getCount starts a load or leaves things as they are.                     *)
Begins(n) ==
  /\ isLoading' = TRUE /\ shown' = n + 1 /\ wish' = FALSE
  /\ \E t \in Threads :
       /\ thread[t] = Idle
       /\ thread' \in [Threads -> ThreadStates]
       /\ thread'[t].st = IF kind = "list" THEN "reading" ELSE "fetching"
       /\ thread'[t].writes = {}
       /\ \A u \in Threads : u # t => thread'[u] = thread[u]

LEMMA LoadBegins ==
  ASSUME TypeOK, NEW n, LoadNextPart(n)
  PROVE  Begins(n)
<1>1. PICK t \in Threads :
        /\ thread[t] = Idle
        /\ thread' = [thread EXCEPT ![t].st = IF kind = "list" THEN "reading" ELSE "fetching"]
  BY DEF LoadNextPart
<1>2. thread \in [Threads -> ThreadStates]
  BY ThreadType
<1>3. CASE kind = "list"
  <2>1. thread' = [thread EXCEPT ![t].st = "reading"]
    BY <1>1, <1>3
  <2> QED
    BY <1>1, <1>2, <1>3, <2>1, StartThread DEF LoadNextPart, Begins
<1>4. CASE kind # "list"
  <2>1. thread' = [thread EXCEPT ![t].st = "fetching"]
    BY <1>1, <1>4
  <2> QED
    BY <1>1, <1>2, <1>4, <2>1, StartThread DEF LoadNextPart, Begins
<1> QED
  BY <1>3, <1>4

LEMMA CountAsked ==
  ASSUME TypeOK, NEW items, NEW loading \in BOOLEAN, NEW n, GetCount(items, loading, n)
  PROVE  /\ unseen' = FALSE
         /\ \/ Begins(n) /\ items = <<>> /\ mWantToLoadMore /\ ~loading
            \/ /\ ~(items = <<>> /\ mWantToLoadMore /\ ~loading)
               /\ isLoading' = loading /\ shown' = n /\ thread' = thread /\ wish' = wish
<1>1. CASE items = <<>> /\ mWantToLoadMore /\ ~loading
  BY <1>1, LoadBegins DEF GetCount
<1>2. CASE ~(items = <<>> /\ mWantToLoadMore /\ ~loading)
  BY <1>2 DEF GetCount
<1> QED
  BY <1>1, <1>2

(* What is in a queue with a message more, or without its first             *)
LEMMA QueueAppended ==
  ASSUME NEW q \in Seq(Messages), NEW msg \in Messages
  PROVE  /\ Append(q, msg) \in Seq(Messages) /\ Len(Append(q, msg)) = Len(q) + 1
         /\ \A i \in DOMAIN Append(q, msg) :
              \/ i \in DOMAIN q /\ Append(q, msg)[i] = q[i]
              \/ i = Len(q) + 1 /\ Append(q, msg)[i] = msg
         /\ \A i \in DOMAIN q : i \in DOMAIN Append(q, msg) /\ Append(q, msg)[i] = q[i]
         /\ Len(q) + 1 \in DOMAIN Append(q, msg) /\ Append(q, msg)[Len(q) + 1] = msg
BY AppendProperties

LEMMA QueueTaken ==
  ASSUME NEW q \in Seq(Messages), q # <<>>
  PROVE  /\ Head(q) \in Messages /\ 1 \in DOMAIN q /\ Head(q) = q[1]
         /\ Tail(q) \in Seq(Messages) /\ Len(Tail(q)) = Len(q) - 1
         /\ \A i \in DOMAIN Tail(q) : i + 1 \in DOMAIN q /\ i + 1 # 1 /\ Tail(q)[i] = q[i + 1]
         /\ \A i \in DOMAIN q : i # 1 => i - 1 \in DOMAIN Tail(q) /\ Tail(q)[i - 1] = q[i]
BY HeadTailProperties

LEMMA PagesFit == \A start \in Nat : DataFrom(start) \in Items
<1> SUFFICES ASSUME NEW start \in Nat PROVE DataFrom(start) \in Items
  OBVIOUS
<1> DEFINE to == IF start + PartSize < Rows THEN start + PartSize ELSE Rows
<1>1. Rows \in Nat /\ PartSize \in Nat
  BY PageAssumption
<1>2. to \in Int /\ to <= Rows
  BY <1>1
<1>3. Source \in Seq(0 .. Rows) /\ Len(Source) = Rows
  BY <1>1 DEF Source
<1>4. SubSeq(Source, start + 1, to) \in Seq(0 .. Rows)
  <2> HIDE DEF to
  <2>1. \A i \in (start + 1) .. to : i \in 1 .. Len(Source)
    BY <1>2, <1>3
  <2> QED
    BY <1>2, <1>3, <2>1, SubSeqProperties
<1> QED
  BY <1>4 DEF DataFrom, Items

LEMMA LeastNat ==
  ASSUME NEW T \in SUBSET Nat, T # {}
  PROVE  \E x \in T : \A y \in T : ~(y < x)
<1>1. PICK x \in T : \A y \in T : ~(<<y, x>> \in OpToRel(<, Nat))
  BY NatLessThanWellFounded, WFMin
<1>2. \A y \in T : ~(y < x)
  BY <1>1 DEF OpToRel
<1> QED
  BY <1>2

LEMMA Removed == \A s \in Items : \A x : Without(s, x) \in Items
<1> SUFFICES ASSUME NEW s \in Items, NEW x PROVE Without(s, x) \in Items
  OBVIOUS
<1>1. CASE ~\E i \in DOMAIN s : s[i] = x
  BY <1>1 DEF Without
<1>2. CASE \E i \in DOMAIN s : s[i] = x
  <2> DEFINE First(j) == s[j] = x /\ \A k \in 1 .. j - 1 : s[k] # x
             i == CHOOSE j \in DOMAIN s : First(j)
  <2>1. Without(s, x) = SubSeq(s, 1, i - 1) \o SubSeq(s, i + 1, Len(s))
    BY <1>2 DEF Without
  <2>2. DOMAIN s = 1 .. Len(s) /\ Len(s) \in Nat /\ \A k \in 1 .. Len(s) : s[k] \in 0 .. Rows
    BY LenProperties, ElementOfSeq DEF Items
  <2>3. \E j \in DOMAIN s : First(j)
    <3> DEFINE T == {j \in 1 .. Len(s) : s[j] = x}
    <3>1. T \in SUBSET Nat /\ T # {}
      BY <1>2, <2>2
    <3>2. PICK j \in T : \A k \in T : ~(k < j)
      BY <3>1, LeastNat
    <3>3. \A k \in 1 .. j - 1 : s[k] # x
      BY <2>2, <3>2
    <3> QED
      BY <2>2, <3>2, <3>3
  <2>4. i \in DOMAIN s
    BY <2>3
  <2> HIDE DEF i
  <2>5. /\ SubSeq(s, 1, i - 1) \in Seq(0 .. Rows)
        /\ SubSeq(s, i + 1, Len(s)) \in Seq(0 .. Rows)
    BY <2>2, <2>4, SubSeqProperties
  <2> QED
    BY <2>1, <2>5, ConcatProperties DEF Items
<1> QED
  BY <1>1, <1>2

-----------------------------------------------------------------------------
(* What a load that begins makes of the invariant                           *)

LEMMA AliveIsFinite ==
  IsFiniteSet(Alive) /\ IsFiniteSet(Alive') /\ Cardinality(Alive) \in Nat
<1>1. IsFiniteSet(Threads) /\ Alive \subseteq Threads /\ Alive' \subseteq Threads
  BY PageAssumption DEF Alive
<1> QED
  BY <1>1, FS_Subset, FS_CardinalityType

LEMMA AliveGrows ==
  ASSUME NEW t \in Threads, thread[t] = Idle, thread'[t].st # "idle",
         \A u \in Threads : u # t => thread'[u] = thread[u]
  PROVE  Cardinality(Alive') = Cardinality(Alive) + 1
<1>1. thread'[t] # Idle
  BY DEF Idle
<1>2. Alive' = Alive \cup {t} /\ t \notin Alive
  BY <1>1 DEF Alive
<1> QED
  BY <1>2, AliveIsFinite, FS_AddElement

LEMMA AliveShrinks ==
  ASSUME NEW t \in Threads, thread'[t] = Idle, thread[t].st # "idle",
         \A u \in Threads : u # t => thread'[u] = thread[u]
  PROVE  Cardinality(Alive') = Cardinality(Alive) - 1
<1>1. thread[t] # Idle
  BY DEF Idle
<1>2. Alive' = Alive \ {t} /\ t \in Alive
  BY <1>1 DEF Alive
<1> QED
  BY <1>2, AliveIsFinite, FS_RemoveElement

LEMMA AliveStays ==
  ASSUME \A u \in Threads : \/ thread'[u] = thread[u]
                            \/ thread'[u].st # "idle" /\ thread[u].st # "idle"
  PROVE  Alive' = Alive
<1>1. \A t \in Threads : thread'[t] # Idle <=> thread[t] # Idle
  BY DEF Idle
<1> QED
  BY <1>1 DEF Alive

LEMMA ListBegins ==
  ASSUME kind = "list", ListShape, Begins(0), page' = None,
         \A t \in Threads : ~Active(t),
         \A i \in DOMAIN queue' : queue'[i].what # "finished" /\ queue'[i].what # "addList"
  PROVE  ListShape' /\ OnePlace' /\ PageBelongs'
<1>1. PICK t \in Threads :
        /\ thread'[t].st = "reading" /\ thread'[t].writes = {}
        /\ \A u \in Threads : u # t => thread'[u] = thread[u]
  BY DEF Begins
<1>2. isLoading' = TRUE /\ shown' = 1
  BY DEF Begins
<1>3. \A u \in Threads : Active(u)' <=> u = t
  BY <1>1 DEF Active
<1>4. \A i \in DOMAIN queue' : ~IsPage(queue'[i])
  BY DEF IsPage
<1>5. ListShape'
  BY <1>1, <1>3 DEF ListShape, Active
<1>6. OnePlace'
  BY <1>1, <1>2, <1>3, <1>4 DEF OnePlace
<1>7. \A u \in Threads : thread'[u].st # "fetching"
  BY <1>1 DEF Active
<1>8. PageBelongs'
  BY <1>4, <1>7 DEF PageBelongs
<1> QED
  BY <1>5, <1>6, <1>8

LEMMA CursorBegins ==
  ASSUME TypeOK, kind = "cursor", CursorShape, OneHolder, ~isLoading, Begins(shown),
         queue' = queue, page' = page, clearing' = clearing
  PROVE  CursorShape' /\ OneHolder'
<1>1. PICK t \in Threads :
        /\ thread[t] = Idle
        /\ thread'[t].st = "fetching" /\ thread'[t].writes = {}
        /\ \A u \in Threads : u # t => thread'[u] = thread[u]
  BY DEF Begins
<1>2. isLoading' = TRUE /\ shown' = shown + 1
  BY DEF Begins
<1>3. \A u \in Threads : Holds(u)' <=> u = t
  BY <1>1 DEF Holds, OneHolder
<1>4. CursorShape'
  BY <1>1 DEF CursorShape, Active
<1>5. shown' = Cardinality(Alive') + Len(queue')
  <2>1. Cardinality(Alive') = Cardinality(Alive) + 1
    BY <1>1, AliveGrows
  <2>2. Len(queue) \in Nat
    BY DEF TypeOK
  <2> QED
    BY <1>2, <2>1, <2>2, AliveIsFinite DEF OneHolder
<1>6. OneHolder'
  BY <1>1, <1>2, <1>3, <1>5 DEF OneHolder
<1> QED
  BY <1>4, <1>6

(* A load that begins with nothing on its way                               *)
LEMMA BeginsKeeps ==
  ASSUME IInv, ~isLoading, Begins(shown), UNCHANGED <<kind, queue, page, clearing>>
  PROVE  ListInv' /\ CursorInv'
<1>1. CASE kind = "list"
  <2>1. ListShape /\ OnePlace
    BY <1>1 DEF IInv, ListInv
  <2>2. /\ shown = 0 /\ page' = None /\ \A t \in Threads : ~Active(t)
        /\ \A i \in DOMAIN queue' : queue'[i].what # "finished" /\ queue'[i].what # "addList"
    BY <2>1 DEF OnePlace, ListShape, IsPage
  <2> QED
    BY <1>1, <2>1, <2>2, ListBegins DEF ListInv, CursorInv
<1>2. CASE kind = "cursor"
  BY <1>2, CursorBegins DEF IInv, ListInv, CursorInv
<1> QED
  BY <1>1, <1>2, KindIs DEF IInv

(* What getCount makes of the rest of the invariant                         *)
LEMMA CountRest ==
  ASSUME IInv, NEW items, NEW loading \in BOOLEAN, NEW n \in Nat, GetCount(items, loading, n),
         loading => isLoading, mItems' = items, mWantToLoadMore' = mWantToLoadMore
  PROVE  /\ thread' \in [Threads -> ThreadStates] /\ isLoading' \in BOOLEAN /\ shown' \in Nat
         /\ unseen' \in BOOLEAN /\ wish' \in BOOLEAN
         /\ WishInv' /\ ForgetInv'
<1>1. TypeOK /\ thread \in [Threads -> ThreadStates] /\ wish \in BOOLEAN
  BY ThreadType DEF IInv, TypeOK
<1>2. CASE Begins(n)
  <2>1. unseen' = FALSE
    BY <1>1, CountAsked
  <2>2. thread' \in [Threads -> ThreadStates] /\ isLoading' = TRUE /\ shown' = n + 1 /\ wish' = FALSE
    BY <1>2 DEF Begins
  <2>3. WishInv' /\ ForgetInv'
    BY <2>2 DEF WishInv, ForgetInv
  <2>4. n + 1 \in Nat /\ TRUE \in BOOLEAN /\ FALSE \in BOOLEAN
    OBVIOUS
  <2>5. shown' \in Nat
    BY <2>2, <2>4
  <2>6. isLoading' \in BOOLEAN /\ unseen' \in BOOLEAN /\ wish' \in BOOLEAN
    BY <2>1, <2>2, <2>4, Zenon
  <2> QED
    BY <2>2, <2>3, <2>5, <2>6, Zenon
<1>3. CASE ~Begins(n)
  <2>1. /\ unseen' = FALSE /\ ~(items = <<>> /\ mWantToLoadMore /\ ~loading)
        /\ isLoading' = loading /\ shown' = n /\ thread' = thread /\ wish' = wish
    BY <1>1, <1>3, CountAsked
  <2>2. WishInv'
    BY <2>1 DEF IInv, WishInv
  <2>3. ForgetInv'
    BY <2>1 DEF ForgetInv
  <2> QED
    BY <1>1, <2>1, <2>2, <2>3
<1> QED
  BY <1>2, <1>3

LEMMA LayoutKeeps == ASSUME IInv, Layout PROVE IInv'
<1>1. TypeOK /\ isLoading \in BOOLEAN /\ shown \in Nat
  BY DEF IInv, TypeOK
<1>2. /\ GetCount(mItems, isLoading, shown)
      /\ UNCHANGED <<kind, mItems, mWantToLoadMore, queue, page, clearing, stored, calls, edited>>
  BY DEF Layout
<1>3. /\ thread' \in [Threads -> ThreadStates] /\ isLoading' \in BOOLEAN /\ shown' \in Nat
      /\ unseen' \in BOOLEAN /\ wish' \in BOOLEAN /\ WishInv' /\ ForgetInv'
  BY <1>1, <1>2, CountRest
<1>4. TypeOK'
  BY <1>1, <1>2, <1>3 DEF TypeOK, ThreadStates
<1>5. ListInv' /\ CursorInv'
  <2>1. CASE Begins(shown) /\ ~isLoading
    BY <1>2, <2>1, BeginsKeeps
  <2>2. CASE ~(Begins(shown) /\ ~isLoading)
    <3>1. isLoading' = isLoading /\ shown' = shown /\ thread' = thread
      BY <1>1, <1>2, <2>2, CountAsked
    <3> QED
      BY <1>2, <3>1 DEF IInv, ListInv, ListShape, OnePlace, PageBelongs, CursorInv, CursorShape,
        OneHolder, Active, Holds, IsPage, Alive
  <2> QED
    BY <2>1, <2>2
<1> QED
  BY <1>3, <1>4, <1>5 DEF IInv

LEMMA RequeryKeeps == ASSUME IInv, Requery PROVE IInv'
<1>1. TypeOK /\ isLoading \in BOOLEAN /\ shown \in Nat /\ stored \in 0 .. Rows
  BY DEF IInv, TypeOK
<1>2. /\ kind = "cursor" /\ mItems' = SubSeq(Source, 1, stored)
      /\ GetCount(mItems', isLoading, shown)
      /\ UNCHANGED <<kind, mWantToLoadMore, queue, page, clearing, stored, calls, edited>>
  BY DEF Requery
<1>3. /\ thread' \in [Threads -> ThreadStates] /\ isLoading' \in BOOLEAN /\ shown' \in Nat
      /\ unseen' \in BOOLEAN /\ wish' \in BOOLEAN /\ WishInv' /\ ForgetInv'
  BY <1>1, <1>2, CountRest
<1>4. mItems' \in Items
  <2>1. Rows \in Nat /\ stored \in Int /\ stored <= Rows
    BY <1>1, PageAssumption
  <2>2. \A i \in 1 .. stored : Source[i] \in 0 .. Rows
    BY <2>1 DEF Source
  <2>3. SubSeq(Source, 1, stored) \in Seq(0 .. Rows)
    BY <2>1, <2>2, SubSeqProperties
  <2> QED
    BY <1>2, <2>3 DEF Items
<1>5. TypeOK'
  BY <1>1, <1>2, <1>3, <1>4 DEF TypeOK, ThreadStates
<1>6. ListInv' /\ CursorInv'
  <2>1. CASE Begins(shown) /\ ~isLoading
    BY <1>2, <2>1, BeginsKeeps
  <2>2. CASE ~(Begins(shown) /\ ~isLoading)
    <3>1. isLoading' = isLoading /\ shown' = shown /\ thread' = thread
      BY <1>1, <1>2, <2>2, CountAsked
    <3> QED
      BY <1>2, <3>1 DEF IInv, ListInv, CursorInv, CursorShape, OneHolder, Active, Holds, Alive
  <2> QED
    BY <2>1, <2>2
<1> QED
  BY <1>3, <1>5, <1>6 DEF IInv

LEMMA GetViewKeeps == ASSUME IInv, GetView PROVE IInv'
<1>1. /\ ~isLoading /\ LoadNextPart(shown) /\ unseen' = FALSE /\ TypeOK /\ shown \in Nat
      /\ UNCHANGED <<kind, mItems, mWantToLoadMore, queue, page, clearing, stored, calls, edited>>
  BY DEF GetView, IInv, TypeOK
<1>2. Begins(shown)
  BY <1>1, LoadBegins
<1>3. thread' \in [Threads -> ThreadStates] /\ isLoading' = TRUE /\ shown' = shown + 1 /\ wish' = FALSE
  BY <1>2 DEF Begins
<1>4. TypeOK'
  <2>0. shown + 1 \in Nat /\ TRUE \in BOOLEAN /\ FALSE \in BOOLEAN
    BY <1>1
  <2>1. isLoading' \in BOOLEAN /\ shown' \in Nat /\ unseen' \in BOOLEAN /\ wish' \in BOOLEAN
    BY <1>1, <1>3, <2>0, Zenon
  <2> QED
    BY <1>1, <1>3, <2>1 DEF TypeOK, ThreadStates
<1>5. WishInv' /\ ForgetInv'
  BY <1>3 DEF WishInv, ForgetInv
<1> QED
  BY <1>1, <1>2, <1>4, <1>5, BeginsKeeps DEF IInv

-----------------------------------------------------------------------------
(* The messages of the main thread                                          *)

LEMMA Edited ==
  ASSUME TypeOK, NEW msg \in Messages, msg.what \in {"clear", "changed", "add", "remove"}
  PROVE  EditedBy(msg) \in Items
<1>1. mItems \in Items /\ msg.items \in Items /\ <<>> \in Items
  BY DEF TypeOK, Messages, Items
<1>2. mItems \o msg.items \in Items
  BY <1>1, ConcatProperties DEF Items
<1>3. Without(mItems, msg.items[1]) \in Items
  BY <1>1, Removed
<1> QED
  BY <1>1, <1>2, <1>3 DEF EditedBy

LEMMA HandleEditKeeps == ASSUME IInv, HandleEdit PROVE IInv'
<1>1. TypeOK /\ isLoading \in BOOLEAN /\ shown \in Nat /\ queue \in Seq(Messages)
  BY DEF IInv, TypeOK
<1>2. /\ page = None /\ queue # <<>> /\ Head(queue).what \in {"clear", "changed", "add", "remove"}
      /\ queue' = Tail(queue) /\ mItems' = EditedBy(Head(queue)) /\ edited' = TRUE
      /\ GetCount(mItems', isLoading, shown)
      /\ UNCHANGED <<kind, mWantToLoadMore, page, clearing, stored, calls>>
  BY DEF HandleEdit
<1>3. /\ Head(queue) \in Messages /\ 1 \in DOMAIN queue /\ Head(queue) = queue[1]
      /\ Tail(queue) \in Seq(Messages)
      /\ \A i \in DOMAIN Tail(queue) : i + 1 \in DOMAIN queue /\ i + 1 # 1 /\ Tail(queue)[i] = queue[i + 1]
      /\ \A i \in DOMAIN queue : i # 1 => i - 1 \in DOMAIN Tail(queue) /\ Tail(queue)[i - 1] = queue[i]
  BY <1>1, <1>2, QueueTaken
<1>4. kind = "list"
  BY <1>2, <1>3, KindIs DEF IInv, CursorInv, CursorShape
<1>5. ListShape /\ OnePlace
  BY <1>4 DEF IInv, ListInv
<1>6. /\ thread' \in [Threads -> ThreadStates] /\ isLoading' \in BOOLEAN /\ shown' \in Nat
      /\ unseen' \in BOOLEAN /\ wish' \in BOOLEAN /\ WishInv' /\ ForgetInv'
  BY <1>1, <1>2, CountRest
<1>7. mItems' \in Items /\ queue' \in Seq(Messages)
  BY <1>1, <1>2, <1>3, Edited
<1>8. TypeOK'
  BY <1>1, <1>2, <1>6, <1>7 DEF TypeOK, ThreadStates
<1>9. ListShape' /\ OnePlace' /\ PageBelongs'
  <2>1. CASE Begins(shown) /\ ~isLoading
    <3>1. /\ shown = 0 /\ \A t \in Threads : ~Active(t)
          /\ \A i \in DOMAIN queue : queue[i].what # "finished" /\ queue[i].what # "addList"
      BY <1>5, <2>1 DEF ListShape, OnePlace, IsPage
    <3>2. \A i \in DOMAIN queue' : queue'[i].what # "finished" /\ queue'[i].what # "addList"
      BY <1>2, <1>3, <3>1
    <3> QED
      BY <1>2, <1>4, <1>5, <2>1, <3>1, <3>2, ListBegins
  <2>2. CASE ~(Begins(shown) /\ ~isLoading)
    <3>1. isLoading' = isLoading /\ shown' = shown /\ thread' = thread
      BY <1>1, <1>2, <2>2, CountAsked
    <3>2. /\ \A i \in DOMAIN queue' : i + 1 \in DOMAIN queue /\ queue'[i] = queue[i + 1]
          /\ \A i \in DOMAIN queue : IsPage(queue[i]) => i - 1 \in DOMAIN queue' /\ queue'[i - 1] = queue[i]
      BY <1>2, <1>3 DEF IsPage
    <3>3. ListShape'
      BY <1>5, <3>1, <3>2 DEF ListShape, Active
    <3>4. \A i, j \in DOMAIN queue' : IsPage(queue'[i]) /\ IsPage(queue'[j]) => i = j
      <4> SUFFICES ASSUME NEW i \in DOMAIN queue', NEW j \in DOMAIN queue',
                          IsPage(queue'[i]), IsPage(queue'[j])
                   PROVE  i = j
        OBVIOUS
      <4>1. i + 1 = j + 1
        BY <1>5, <3>2 DEF OnePlace
      <4>2. i \in Nat /\ j \in Nat
        BY <1>7, LenProperties
      <4> QED
        BY <4>1, <4>2
    <3>5. OnePlace'
      BY <1>2, <1>5, <3>1, <3>2, <3>4 DEF OnePlace, Active
    <3>6. PageBelongs'
      BY <1>2 DEF PageBelongs
    <3> QED
      BY <3>3, <3>5, <3>6
  <2> QED
    BY <2>1, <2>2
<1> QED
  BY <1>2, <1>4, <1>6, <1>8, <1>9 DEF IInv, ListInv, CursorInv

LEMMA HandlePageKeeps == ASSUME IInv, HandlePage PROVE IInv'
<1>1. TypeOK /\ mWantToLoadMore \in BOOLEAN /\ queue \in Seq(Messages)
  BY DEF IInv, TypeOK
<1>2. /\ page = None /\ queue # <<>> /\ Head(queue).what = "addList"
      /\ queue' = Tail(queue) /\ page' = Head(queue)
      /\ mWantToLoadMore' = (mWantToLoadMore /\ Head(queue).items # <<>>)
      /\ UNCHANGED <<kind, mItems, isLoading, thread, clearing, stored, calls, shown, edited, unseen, wish>>
  BY DEF HandlePage
<1>3. /\ Head(queue) \in Messages /\ 1 \in DOMAIN queue /\ Head(queue) = queue[1]
      /\ Tail(queue) \in Seq(Messages)
      /\ \A i \in DOMAIN Tail(queue) : i + 1 \in DOMAIN queue /\ i + 1 # 1 /\ Tail(queue)[i] = queue[i + 1]
  BY <1>1, <1>2, QueueTaken
<1>4. kind = "list"
  BY <1>2, <1>3, KindIs DEF IInv, CursorInv, CursorShape
<1>5. ListShape /\ OnePlace /\ PageBelongs
  BY <1>4 DEF IInv, ListInv
<1>6. mWantToLoadMore' \in BOOLEAN
  BY <1>1, <1>2
<1>7. TypeOK'
  BY <1>1, <1>2, <1>3, <1>6 DEF TypeOK
<1>8. page' # None
  BY <1>2 DEF None
<1>9. isLoading /\ \A t \in Threads : ~Active(t)
  BY <1>2, <1>3, <1>5 DEF OnePlace, IsPage
<1>10. \A i \in DOMAIN queue' : ~IsPage(queue'[i]) /\ queue'[i].what # "finished"
  BY <1>2, <1>3, <1>5 DEF OnePlace, ListShape, IsPage
<1>11. ListShape'
  BY <1>2, <1>5, <1>10 DEF ListShape, Active
<1>12. OnePlace'
  BY <1>2, <1>5, <1>8, <1>9, <1>10 DEF OnePlace, Active
<1>13. PageBelongs'
  BY <1>2, <1>3, <1>5, <1>10 DEF PageBelongs, IsPage
<1>14. WishInv' /\ ForgetInv'
  BY <1>2, <1>9 DEF IInv, WishInv, ForgetInv
<1> QED
  BY <1>2, <1>4, <1>7, <1>11, <1>12, <1>13, <1>14 DEF IInv, ListInv, CursorInv

LEMMA FinishPageKeeps == ASSUME IInv, FinishPage PROVE IInv'
<1>1. TypeOK /\ mItems \in Items /\ shown \in Nat /\ queue \in Seq(Messages) /\ page \in Messages \cup {None}
  BY DEF IInv, TypeOK
<1>2. /\ page # None /\ page' = None /\ mItems' = mItems \o page.items
      /\ GetCount(mItems', FALSE, shown - 1)
      /\ UNCHANGED <<kind, mWantToLoadMore, queue, clearing, stored, calls, edited>>
  BY DEF FinishPage
<1>3. kind = "list"
  BY <1>2, KindIs DEF IInv, CursorInv, CursorShape
<1>4. ListShape /\ OnePlace
  BY <1>3 DEF IInv, ListInv
<1>5. /\ isLoading /\ shown = 1
      /\ \A t \in Threads : ~Active(t)
      /\ \A i \in DOMAIN queue : ~IsPage(queue[i])
  BY <1>2, <1>4 DEF OnePlace
<1>6. shown - 1 = 0
  BY <1>5
<1>7. GetCount(mItems', FALSE, 0)
  BY <1>2, <1>6
<1>8. /\ thread' \in [Threads -> ThreadStates] /\ isLoading' \in BOOLEAN /\ shown' \in Nat
      /\ unseen' \in BOOLEAN /\ wish' \in BOOLEAN /\ WishInv' /\ ForgetInv'
  BY <1>2, <1>7, CountRest
<1>9. mItems' \in Items
  <2>1. page.items \in Items
    BY <1>1, <1>2 DEF Messages
  <2> QED
    BY <1>1, <1>2, <2>1, ConcatProperties DEF Items
<1>10. TypeOK'
  BY <1>1, <1>2, <1>8, <1>9 DEF TypeOK, ThreadStates
<1>11. ListShape' /\ OnePlace' /\ PageBelongs'
  <2>1. CASE Begins(0)
    <3>1. \A i \in DOMAIN queue' : queue'[i].what # "finished" /\ queue'[i].what # "addList"
      BY <1>2, <1>4, <1>5 DEF ListShape, IsPage
    <3> QED
      BY <1>2, <1>3, <1>4, <1>5, <2>1, <3>1, ListBegins
  <2>2. CASE ~Begins(0)
    <3>1. isLoading' = FALSE /\ shown' = 0 /\ thread' = thread
      BY <1>1, <1>7, <2>2, CountAsked
    <3>2. ListShape'
      BY <1>2, <1>4, <3>1 DEF ListShape, Active
    <3>3. OnePlace'
      BY <1>2, <1>5, <3>1 DEF OnePlace, Active
    <3>4. \A t \in Threads : thread[t].st # "fetching"
      BY <1>5 DEF Active
    <3>5. PageBelongs'
      BY <1>2, <1>5, <3>1, <3>4 DEF PageBelongs
    <3> QED
      BY <3>2, <3>3, <3>5
  <2> QED
    BY <2>1, <2>2
<1> QED
  BY <1>2, <1>3, <1>8, <1>10, <1>11 DEF IInv, ListInv, CursorInv

LEMMA HandleFinishedKeeps == ASSUME IInv, HandleFinished PROVE IInv'
<1>1. TypeOK /\ shown \in Nat /\ queue \in Seq(Messages)
  BY DEF IInv, TypeOK
<1>2. /\ queue # <<>> /\ Head(queue).what = "finished"
      /\ queue' = Tail(queue) /\ shown' = shown - 1
      /\ UNCHANGED <<kind, mItems, mWantToLoadMore, isLoading, thread, page, clearing, stored, calls,
                     edited, unseen, wish>>
  BY DEF HandleFinished
<1>3. /\ 1 \in DOMAIN queue /\ Head(queue) = queue[1]
      /\ Tail(queue) \in Seq(Messages) /\ Len(Tail(queue)) = Len(queue) - 1
      /\ \A i \in DOMAIN Tail(queue) : i + 1 \in DOMAIN queue /\ Tail(queue)[i] = queue[i + 1]
  BY <1>1, <1>2, QueueTaken
<1>4. kind = "cursor"
  BY <1>1, <1>2, <1>3, KindIs DEF IInv, ListInv, ListShape
<1>5. CursorShape /\ OneHolder
  BY <1>4 DEF IInv, CursorInv
<1>6. Alive' = Alive
  BY <1>2 DEF Alive
<1>7. /\ shown - 1 = Cardinality(Alive) + Len(Tail(queue)) /\ shown - 1 \in Nat
  <2>1. Len(queue) \in Nat /\ Len(queue) > 0
    BY <1>1, <1>2, <1>3, LenProperties
  <2>2. Cardinality(Alive) \in Nat /\ shown = Cardinality(Alive) + Len(queue)
    BY <1>5, AliveIsFinite DEF OneHolder
  <2> QED
    BY <1>3, <2>1, <2>2
<1>8. shown' \in Nat /\ shown' = Cardinality(Alive') + Len(queue')
  BY <1>2, <1>6, <1>7
<1>9. TypeOK'
  BY <1>1, <1>2, <1>3, <1>8 DEF TypeOK
<1>10. CursorShape'
  BY <1>2, <1>3, <1>5 DEF CursorShape, Active
<1>11. OneHolder'
  BY <1>2, <1>5, <1>8 DEF OneHolder, Holds
<1>12. WishInv' /\ ForgetInv'
  BY <1>2 DEF IInv, WishInv, ForgetInv
<1> QED
  BY <1>2, <1>4, <1>9, <1>10, <1>11, <1>12 DEF IInv, ListInv, CursorInv

-----------------------------------------------------------------------------
(* The loading threads                                                      *)

LEMMA ThreadMoves ==
  ASSUME thread \in [Threads -> ThreadStates], NEW t \in Threads, NEW r \in ThreadStates,
         thread' = [thread EXCEPT ![t] = r]
  PROVE  /\ thread' \in [Threads -> ThreadStates] /\ thread'[t] = r
         /\ \A u \in Threads : u # t => thread'[u] = thread[u]
OBVIOUS

LEMMA SizeRead ==
  ASSUME NEW r \in ThreadStates, NEW n \in Nat
  PROVE  LET q == [r EXCEPT !.st = "fetching", !.start = n]
         IN q \in ThreadStates /\ q.st = "fetching" /\ q.start = n /\ q.writes = r.writes
BY DEF ThreadStates

LEMMA PageHad ==
  ASSUME NEW r \in ThreadStates, NEW more \in BOOLEAN
  PROVE  LET q == [r EXCEPT !.st = "writing", !.more = more, !.writes = {"want", "loading"}]
         IN q \in ThreadStates /\ q.st = "writing" /\ q.writes = {"want", "loading"}
BY DEF ThreadStates

LEMMA FlagWritten ==
  ASSUME NEW r \in ThreadStates, NEW w
  PROVE  LET q == [r EXCEPT !.writes = @ \ {w}]
         IN q \in ThreadStates /\ q.st = r.st /\ q.writes = r.writes \ {w}
BY DEF ThreadStates

LEMMA ReadSizeKeeps == ASSUME IInv, NEW t \in Threads, ReadSize(t) PROVE IInv'
<1>1. TypeOK /\ thread \in [Threads -> ThreadStates] /\ mItems \in Items
  BY ThreadType DEF IInv, TypeOK
<1>2. Len(mItems) \in Nat
  BY <1>1, LenProperties DEF Items
<1> DEFINE r == [thread[t] EXCEPT !.st = "fetching", !.start = Len(mItems)]
<1>3. /\ thread[t].st = "reading" /\ thread' = [thread EXCEPT ![t] = r] /\ edited' = FALSE
      /\ UNCHANGED <<kind, mItems, mWantToLoadMore, isLoading, queue, page, clearing, stored, calls,
                     shown, unseen, wish>>
  BY DEF ReadSize
<1>4. r \in ThreadStates /\ r.st = "fetching" /\ r.start = Len(mItems) /\ r.writes = thread[t].writes
  BY <1>1, <1>2, SizeRead
<1> HIDE DEF r
<1>5. /\ thread' \in [Threads -> ThreadStates] /\ thread'[t] = r
      /\ \A u \in Threads : u # t => thread'[u] = thread[u]
  BY <1>1, <1>3, <1>4, ThreadMoves
<1>6. kind = "list"
  BY <1>1, <1>3, KindIs DEF IInv, CursorInv, CursorShape
<1>7. ListShape /\ OnePlace
  BY <1>6 DEF IInv, ListInv
<1>8. TypeOK'
  BY <1>1, <1>3, <1>5 DEF TypeOK, ThreadStates
<1>9. /\ Active(t) /\ \A u \in Threads : Active(u) => u = t
      /\ page = None /\ \A i \in DOMAIN queue : ~IsPage(queue[i])
  <2>1. Active(t)
    BY <1>3 DEF Active
  <2> QED
    BY <1>7, <2>1 DEF OnePlace
<1>10. \A u \in Threads : Active(u)' <=> Active(u)
  BY <1>4, <1>5, <1>9 DEF Active
<1>11. ListShape'
  BY <1>3, <1>4, <1>5, <1>7, <1>10 DEF ListShape, Active
<1>12. OnePlace'
  BY <1>3, <1>7, <1>10 DEF OnePlace
<1>13. PageBelongs'
  BY <1>3, <1>4, <1>5, <1>9 DEF PageBelongs, Active
<1>14. WishInv' /\ ForgetInv'
  <2>1. \A u \in Threads : thread'[u].writes = thread[u].writes
    BY <1>4, <1>5
  <2> QED
    BY <1>3, <2>1 DEF IInv, WishInv, ForgetInv
<1> QED
  BY <1>3, <1>6, <1>8, <1>11, <1>12, <1>13, <1>14 DEF IInv, ListInv, CursorInv

LEMMA IdleType == Idle \in ThreadStates /\ Idle.st = "idle" /\ Idle.writes = {}
BY DEF Idle, ThreadStates

LEMMA SendPageKeeps == ASSUME IInv, NEW t \in Threads, SendPage(t) PROVE IInv'
<1>1. TypeOK /\ thread \in [Threads -> ThreadStates] /\ queue \in Seq(Messages)
  BY ThreadType DEF IInv, TypeOK
<1>2. /\ kind = "list" /\ thread[t].st = "fetching" /\ thread' = [thread EXCEPT ![t] = Idle]
      /\ UNCHANGED <<kind, mItems, mWantToLoadMore, isLoading, page, clearing, stored, calls,
                     shown, edited, unseen, wish>>
  BY DEF SendPage
<1>3. PICK part \in {DataFrom(thread[t].start), <<>>} :
        queue' = Append(queue, Msg("addList", part, thread[t].start))
  BY DEF SendPage
<1> DEFINE msg == Msg("addList", part, thread[t].start)
<1>4. msg \in Messages /\ msg.what = "addList" /\ msg.start = thread[t].start
  <2>1. thread[t].start \in Nat
    BY <1>1 DEF ThreadStates
  <2>2. part \in Items
    BY <2>1, PagesFit, EmptySeq DEF Items
  <2> QED
    BY <2>1, <2>2 DEF Msg, Messages
<1>5. queue' = Append(queue, msg)
  BY <1>3
<1> HIDE DEF msg
<1>6. /\ queue' \in Seq(Messages)
      /\ \A i \in DOMAIN queue' : \/ i \in DOMAIN queue /\ queue'[i] = queue[i]
                                  \/ i = Len(queue) + 1 /\ queue'[i] = msg
      /\ Len(queue) + 1 \in DOMAIN queue' /\ queue'[Len(queue) + 1] = msg
  BY <1>1, <1>4, <1>5, QueueAppended
<1>7. /\ thread' \in [Threads -> ThreadStates] /\ thread'[t] = Idle
      /\ \A u \in Threads : u # t => thread'[u] = thread[u]
  BY <1>1, <1>2, IdleType, ThreadMoves
<1>8. ListShape /\ OnePlace /\ PageBelongs
  BY <1>2 DEF IInv, ListInv
<1>9. TypeOK'
  BY <1>1, <1>2, <1>6, <1>7 DEF TypeOK, ThreadStates
<1>10. Active(t)
  BY <1>2 DEF Active
<1>11. \A u \in Threads : ~Active(u)'
  BY <1>7, <1>8, <1>10, IdleType DEF OnePlace, Active
<1>12. isLoading /\ page = None /\ \A i \in DOMAIN queue : ~IsPage(queue[i])
  BY <1>8, <1>10 DEF OnePlace
<1>13. \A i \in DOMAIN queue' : IsPage(queue'[i]) => i = Len(queue) + 1 /\ queue'[i] = msg
  BY <1>6, <1>12
<1>14. \A u \in Threads : thread'[u].writes = thread[u].writes
  BY <1>7, <1>8, IdleType DEF ListShape
<1>15. ListShape'
  BY <1>4, <1>6, <1>7, <1>8, IdleType DEF ListShape, Active
<1>16. OnePlace'
  <2>1. \E i \in DOMAIN queue' : IsPage(queue'[i])
    BY <1>4, <1>6 DEF IsPage
  <2> QED
    BY <1>2, <1>8, <1>11, <1>12, <1>13, <2>1 DEF OnePlace
<1>17. PageBelongs'
  <2>1. \A u \in Threads : thread'[u].st # "fetching"
    BY <1>11 DEF Active
  <2> QED
    BY <1>2, <1>4, <1>8, <1>12, <1>13, <2>1 DEF PageBelongs
<1>18. WishInv' /\ ForgetInv'
  BY <1>2, <1>14 DEF IInv, WishInv, ForgetInv
<1> QED
  BY <1>2, <1>9, <1>15, <1>16, <1>17, <1>18 DEF IInv, ListInv, CursorInv

LEMMA GetNextDataPageKeeps == ASSUME IInv, NEW t \in Threads, GetNextDataPage(t) PROVE IInv'
<1>1. TypeOK /\ thread \in [Threads -> ThreadStates] /\ stored \in 0 .. Rows
  BY ThreadType DEF IInv, TypeOK
<1>2. /\ kind = "cursor" /\ thread[t].st = "fetching"
      /\ UNCHANGED <<kind, mItems, mWantToLoadMore, isLoading, queue, page, clearing, calls,
                     shown, edited, unseen, wish>>
  BY DEF GetNextDataPage
<1>3. PICK more \in BOOLEAN :
        /\ thread' = [thread EXCEPT ![t] =
                         [@ EXCEPT !.st = "writing", !.more = more, !.writes = {"want", "loading"}]]
        /\ \/ stored' = IF stored + PartSize < Rows THEN stored + PartSize ELSE Rows
           \/ ~more /\ stored' = stored
  BY DEF GetNextDataPage
<1> DEFINE r == [thread[t] EXCEPT !.st = "writing", !.more = more, !.writes = {"want", "loading"}]
<1>4. r \in ThreadStates /\ r.st = "writing" /\ r.writes = {"want", "loading"}
  BY <1>1, PageHad
<1>5. thread' = [thread EXCEPT ![t] = r]
  BY <1>3
<1> HIDE DEF r
<1>6. /\ thread' \in [Threads -> ThreadStates] /\ thread'[t] = r
      /\ \A u \in Threads : u # t => thread'[u] = thread[u]
  BY <1>1, <1>4, <1>5, ThreadMoves
<1>7. stored' \in 0 .. Rows
  <2>1. (IF stored + PartSize < Rows THEN stored + PartSize ELSE Rows) \in 0 .. Rows
    BY <1>1, PageAssumption
  <2> QED
    BY <1>1, <1>3, <2>1
<1>8. TypeOK'
  BY <1>1, <1>2, <1>6, <1>7 DEF TypeOK, ThreadStates
<1>9. CursorShape /\ OneHolder
  BY <1>2 DEF IInv, CursorInv
<1>10. Holds(t) /\ isLoading
  BY <1>2, <1>9 DEF Holds, OneHolder
<1>11. \A u \in Threads : Holds(u)' <=> Holds(u)
  BY <1>4, <1>6, <1>10 DEF Holds
<1>12. Alive' = Alive
  <2>1. thread'[t].st # "idle" /\ thread[t].st # "idle"
    BY <1>2, <1>4, <1>6
  <2>2. \A u \in Threads : \/ thread'[u] = thread[u]
                           \/ thread'[u].st # "idle" /\ thread[u].st # "idle"
    BY <1>6, <2>1
  <2> QED
    BY <2>2, AliveStays
<1>13. CursorShape'
  BY <1>2, <1>4, <1>6, <1>9 DEF CursorShape, Active
<1>14. OneHolder'
  BY <1>2, <1>9, <1>11, <1>12 DEF OneHolder
<1>15. WishInv' /\ ForgetInv'
  BY <1>2, <1>10 DEF IInv, WishInv, ForgetInv
<1> QED
  BY <1>2, <1>8, <1>13, <1>14, <1>15 DEF IInv, ListInv, CursorInv

LEMMA WriteFlagKeeps == ASSUME IInv, NEW t \in Threads, WriteFlag(t) PROVE IInv'
<1>1. /\ TypeOK /\ thread \in [Threads -> ThreadStates]
      /\ mWantToLoadMore \in BOOLEAN /\ isLoading \in BOOLEAN
  BY ThreadType DEF IInv, TypeOK
<1>2. /\ thread[t].st = "writing" /\ unseen' = TRUE
      /\ UNCHANGED <<kind, mItems, queue, page, clearing, stored, calls, shown, edited, wish>>
  BY DEF WriteFlag
<1>3. PICK w \in thread[t].writes :
        /\ thread' = [thread EXCEPT ![t].writes = @ \ {w}]
        /\ IF w = "want"
           THEN mWantToLoadMore' = thread[t].more /\ UNCHANGED isLoading
           ELSE isLoading' = FALSE /\ UNCHANGED mWantToLoadMore
  BY DEF WriteFlag
<1> DEFINE r == [thread[t] EXCEPT !.writes = @ \ {w}]
<1>4. r \in ThreadStates /\ r.st = "writing" /\ r.writes = thread[t].writes \ {w}
  BY <1>1, <1>2, FlagWritten
<1>5. thread' = [thread EXCEPT ![t] = r]
  BY <1>3
<1> HIDE DEF r
<1>6. /\ thread' \in [Threads -> ThreadStates] /\ thread'[t] = r
      /\ \A u \in Threads : u # t => thread'[u] = thread[u]
  BY <1>1, <1>4, <1>5, ThreadMoves
<1>7. mWantToLoadMore' \in BOOLEAN /\ isLoading' \in BOOLEAN
  <2>1. thread[t].more \in BOOLEAN
    BY <1>1 DEF ThreadStates
  <2> QED
    BY <1>1, <1>3, <2>1
<1>8. TypeOK'
  BY <1>1, <1>2, <1>6, <1>7 DEF TypeOK, ThreadStates
<1>9. kind = "cursor"
  BY <1>1, <1>2, KindIs DEF IInv, ListInv, ListShape
<1>10. CursorShape /\ OneHolder
  BY <1>9 DEF IInv, CursorInv
<1>11. w \in {"want", "loading"}
  BY <1>1 DEF ThreadStates
<1>12. CursorShape'
  BY <1>2, <1>4, <1>6, <1>10 DEF CursorShape, Active
<1>13. Alive' = Alive
  <2>1. thread'[t].st # "idle" /\ thread[t].st # "idle"
    BY <1>2, <1>4, <1>6
  <2>2. \A u \in Threads : \/ thread'[u] = thread[u]
                           \/ thread'[u].st # "idle" /\ thread[u].st # "idle"
    BY <1>6, <2>1
  <2> QED
    BY <2>2, AliveStays
<1>14. CASE w = "want"
  <2>1. \A u \in Threads : Holds(u)' <=> Holds(u)
    BY <1>2, <1>4, <1>6, <1>14 DEF Holds
  <2>2. OneHolder'
    BY <1>2, <1>3, <1>10, <1>13, <1>14, <2>1 DEF OneHolder
  <2>3. ~wish
    BY <1>3, <1>14 DEF IInv, WishInv
  <2>4. WishInv' /\ ForgetInv'
    BY <1>2, <2>3 DEF WishInv, ForgetInv
  <2> QED
    BY <1>2, <1>8, <1>9, <1>12, <2>2, <2>4 DEF IInv, ListInv, CursorInv
<1>15. CASE w = "loading"
  <2>1. Holds(t)
    BY <1>3, <1>15 DEF Holds
  <2>2. \A u \in Threads : ~Holds(u)'
    BY <1>2, <1>4, <1>6, <1>10, <1>15, <2>1 DEF Holds, OneHolder
  <2>3. isLoading' = FALSE /\ mWantToLoadMore' = mWantToLoadMore
    BY <1>3, <1>15
  <2>4. OneHolder'
    BY <1>2, <1>10, <1>13, <2>2, <2>3 DEF OneHolder
  <2>5. \A u \in Threads : thread'[u].writes \subseteq thread[u].writes
    BY <1>4, <1>6
  <2>6. WishInv' /\ ForgetInv'
    BY <1>2, <2>3, <2>5 DEF IInv, WishInv, ForgetInv
  <2> QED
    BY <1>2, <1>8, <1>9, <1>12, <2>4, <2>6 DEF IInv, ListInv, CursorInv
<1> QED
  BY <1>11, <1>14, <1>15

LEMMA PostFinishedKeeps == ASSUME IInv, NEW t \in Threads, PostFinished(t) PROVE IInv'
<1>1. TypeOK /\ thread \in [Threads -> ThreadStates] /\ queue \in Seq(Messages)
  BY ThreadType DEF IInv, TypeOK
<1>2. /\ thread[t].st = "writing" /\ thread[t].writes = {} /\ thread' = [thread EXCEPT ![t] = Idle]
      /\ queue' = Append(queue, Msg("finished", <<>>, 0))
      /\ UNCHANGED <<kind, mItems, mWantToLoadMore, isLoading, page, clearing, stored, calls,
                     shown, edited, unseen, wish>>
  BY DEF PostFinished
<1> DEFINE msg == Msg("finished", <<>>, 0)
<1>3. msg \in Messages /\ msg.what = "finished"
  BY EmptySeq DEF Msg, Messages, Items
<1>4. queue' = Append(queue, msg)
  BY <1>2
<1> HIDE DEF msg
<1>5. /\ queue' \in Seq(Messages) /\ Len(queue') = Len(queue) + 1
      /\ \A i \in DOMAIN queue' : \/ i \in DOMAIN queue /\ queue'[i] = queue[i]
                                  \/ queue'[i] = msg
  BY <1>1, <1>3, <1>4, QueueAppended
<1>6. /\ thread' \in [Threads -> ThreadStates] /\ thread'[t] = Idle
      /\ \A u \in Threads : u # t => thread'[u] = thread[u]
  BY <1>1, <1>2, IdleType, ThreadMoves
<1>7. kind = "cursor"
  BY <1>1, <1>2, KindIs DEF IInv, ListInv, ListShape
<1>8. CursorShape /\ OneHolder
  BY <1>7 DEF IInv, CursorInv
<1>9. TypeOK'
  BY <1>1, <1>2, <1>5, <1>6 DEF TypeOK, ThreadStates
<1>10. \A u \in Threads : Holds(u)' <=> Holds(u)
  BY <1>2, <1>6, IdleType DEF Holds
<1>11. Cardinality(Alive') + Len(queue') = Cardinality(Alive) + Len(queue)
  <2>1. Cardinality(Alive') = Cardinality(Alive) - 1
    BY <1>2, <1>6, AliveShrinks
  <2>2. Len(queue) \in Nat
    BY <1>1, LenProperties
  <2>3. (Cardinality(Alive) - 1) + (Len(queue) + 1) = Cardinality(Alive) + Len(queue)
    BY <2>2, AliveIsFinite
  <2> QED
    BY <1>5, <2>1, <2>3
<1>12. CursorShape'
  BY <1>2, <1>3, <1>5, <1>6, <1>8, IdleType DEF CursorShape, Active
<1>13. OneHolder'
  BY <1>2, <1>8, <1>10, <1>11 DEF OneHolder
<1>14. WishInv' /\ ForgetInv'
  <2>1. \A u \in Threads : thread'[u].writes = thread[u].writes
    BY <1>2, <1>6, IdleType
  <2> QED
    BY <1>2, <2>1 DEF IInv, WishInv, ForgetInv
<1> QED
  BY <1>2, <1>7, <1>9, <1>12, <1>13, <1>14 DEF IInv, ListInv, CursorInv

-----------------------------------------------------------------------------
(* The calls                                                                *)

(* A message that is no page, and no report of a load                       *)
LEMMA EditQueued ==
  ASSUME IInv, kind = "list", NEW msg \in Messages, msg.what \notin {"addList", "finished"},
         queue' = Append(queue, msg), UNCHANGED <<kind, mItems, isLoading, thread, page, shown, edited>>
  PROVE  queue' \in Seq(Messages) /\ ListInv' /\ CursorInv'
<1>1. queue \in Seq(Messages)
  BY DEF IInv, TypeOK
<1>2. /\ queue' \in Seq(Messages)
      /\ \A i \in DOMAIN queue' : \/ i \in DOMAIN queue /\ queue'[i] = queue[i]
                                  \/ queue'[i] = msg
      /\ \A i \in DOMAIN queue : i \in DOMAIN queue' /\ queue'[i] = queue[i]
  BY <1>1, QueueAppended
<1>3. ListShape /\ OnePlace /\ PageBelongs
  BY DEF IInv, ListInv
<1>4. /\ \A i \in DOMAIN queue' : IsPage(queue'[i]) => i \in DOMAIN queue /\ IsPage(queue[i]) /\ queue'[i] = queue[i]
      /\ \A i \in DOMAIN queue : IsPage(queue[i]) => i \in DOMAIN queue' /\ IsPage(queue'[i])
  BY <1>2 DEF IsPage
<1>5. ListShape'
  BY <1>2, <1>3 DEF ListShape, Active
<1>6. OnePlace'
  BY <1>3, <1>4 DEF OnePlace, Active
<1>7. PageBelongs'
  BY <1>3, <1>4 DEF PageBelongs
<1> QED
  BY <1>2, <1>5, <1>6, <1>7 DEF ListInv, CursorInv

(* What a wish makes of the rest                                            *)
LEMMA Wished ==
  ASSUME IInv, Wish, UNCHANGED <<mItems, isLoading, thread>>
  PROVE  /\ mWantToLoadMore' \in BOOLEAN /\ unseen' \in BOOLEAN /\ wish' \in BOOLEAN
         /\ WishInv' /\ ForgetInv'
<1>1. /\ mWantToLoadMore' = TRUE /\ unseen' = (unseen \/ ~mWantToLoadMore)
      /\ wish' = (wish \/ (~isLoading /\ \A t \in Threads : "want" \notin thread[t].writes))
  BY DEF Wish
<1>2. WishInv'
  BY <1>1 DEF IInv, WishInv
<1>3. ForgetInv'
  BY <1>1 DEF IInv, ForgetInv
<1>4. mWantToLoadMore' \in BOOLEAN /\ unseen' \in BOOLEAN /\ wish' \in BOOLEAN
  BY <1>1
<1> QED
  BY <1>2, <1>3, <1>4

LEMMA Called == ASSUME TypeOK, Call PROVE calls' \in 0 .. MaxCalls
<1>1. calls \in 0 .. MaxCalls /\ calls < MaxCalls /\ calls' = calls + 1
  BY DEF TypeOK, Call
<1>2. calls + 1 \in 0 .. MaxCalls
  BY <1>1, PageAssumption
<1> QED
  BY <1>1, <1>2

LEMMA TryToLoadMoreKeeps == ASSUME IInv, TryToLoadMore PROVE IInv'
<1>1. /\ TypeOK /\ Call /\ Wish
      /\ UNCHANGED <<kind, mItems, isLoading, queue, thread, page, clearing, stored, shown, edited>>
  BY DEF IInv, TryToLoadMore
<1>2. /\ mWantToLoadMore' \in BOOLEAN /\ unseen' \in BOOLEAN /\ wish' \in BOOLEAN
      /\ WishInv' /\ ForgetInv'
  BY <1>1, Wished
<1>3. TypeOK'
  BY <1>1, <1>2, Called DEF TypeOK
<1>4. ListInv' /\ CursorInv'
  BY <1>1 DEF IInv, ListInv, ListShape, OnePlace, PageBelongs, CursorInv, CursorShape,
    OneHolder, Active, Holds, IsPage, Alive
<1> QED
  BY <1>2, <1>3, <1>4 DEF IInv

LEMMA ClearWantsKeeps == ASSUME IInv, ClearWants PROVE IInv'
<1>1. /\ TypeOK /\ clearing /\ clearing' = FALSE /\ Wish
      /\ UNCHANGED <<kind, mItems, isLoading, queue, thread, page, stored, calls, shown, edited>>
  BY DEF IInv, ClearWants
<1>2. /\ mWantToLoadMore' \in BOOLEAN /\ unseen' \in BOOLEAN /\ wish' \in BOOLEAN
      /\ WishInv' /\ ForgetInv'
  BY <1>1, Wished
<1>3. TypeOK'
  BY <1>1, <1>2 DEF TypeOK
<1>4. kind = "list"
  BY <1>1, KindIs DEF IInv, CursorInv, CursorShape
<1>5. ListInv' /\ CursorInv'
  BY <1>1, <1>4 DEF IInv, ListInv, ListShape, OnePlace, PageBelongs, CursorInv, Active, IsPage
<1> QED
  BY <1>2, <1>3, <1>5 DEF IInv

LEMMA ClearType == Msg("clear", <<>>, 0) \in Messages /\ Msg("clear", <<>>, 0).what = "clear"
BY EmptySeq DEF Msg, Messages, Items

LEMMA ClearKeeps == ASSUME IInv, Clear PROVE IInv'
<1>1. /\ TypeOK /\ kind = "list" /\ Call /\ Wish /\ queue' = Append(queue, Msg("clear", <<>>, 0))
      /\ UNCHANGED <<kind, mItems, isLoading, thread, page, clearing, stored, shown, edited>>
  BY DEF IInv, Clear
<1>2. queue' \in Seq(Messages) /\ ListInv' /\ CursorInv'
  BY <1>1, ClearType, EditQueued
<1>3. /\ mWantToLoadMore' \in BOOLEAN /\ unseen' \in BOOLEAN /\ wish' \in BOOLEAN
      /\ WishInv' /\ ForgetInv'
  BY <1>1, Wished
<1>4. TypeOK'
  BY <1>1, <1>2, <1>3, Called DEF TypeOK
<1> QED
  BY <1>2, <1>3, <1>4 DEF IInv

LEMMA ClearElsewhereKeeps == ASSUME IInv, ClearElsewhere PROVE IInv'
<1>1. /\ TypeOK /\ kind = "list" /\ Call /\ clearing' = TRUE /\ queue' = Append(queue, Msg("clear", <<>>, 0))
      /\ UNCHANGED <<kind, mItems, mWantToLoadMore, isLoading, thread, page, stored, shown, edited, unseen, wish>>
  BY DEF IInv, ClearElsewhere
<1>2. queue' \in Seq(Messages) /\ ListInv' /\ CursorInv'
  BY <1>1, ClearType, EditQueued
<1>3. TypeOK'
  BY <1>1, <1>2, Called DEF TypeOK
<1>4. WishInv' /\ ForgetInv'
  BY <1>1 DEF IInv, WishInv, ForgetInv
<1> QED
  BY <1>2, <1>3, <1>4 DEF IInv

LEMMA EditKeeps == ASSUME IInv, Edit PROVE IInv'
<1>1. /\ TypeOK /\ kind = "list" /\ Call
      /\ UNCHANGED <<kind, mItems, mWantToLoadMore, isLoading, thread, page, clearing, stored,
                     shown, edited, unseen, wish>>
  BY DEF IInv, Edit
<1>2. PICK msg \in {Msg("add", <<Extra>>, 0), Msg("changed", <<Extra>>, 0), Msg("changed", <<>>, 0)}
                    \cup {Msg("remove", <<i>>, 0) : i \in 1 .. Rows} :
        queue' = Append(queue, msg)
  BY DEF Edit
<1>3. msg \in Messages /\ msg.what \notin {"addList", "finished"}
  <2>1. <<>> \in Items /\ \A i \in 0 .. Rows : <<i>> \in Items
    BY DEF Items
  <2>2. Extra \in 0 .. Rows /\ \A i \in 1 .. Rows : i \in 0 .. Rows
    BY PageAssumption DEF Extra
  <2>3. \A items \in Items, what \in {"add", "changed", "remove"} :
          Msg(what, items, 0) \in Messages /\ Msg(what, items, 0).what = what
    BY DEF Msg, Messages
  <2> QED
    BY <1>2, <2>1, <2>2, <2>3
<1>4. queue' \in Seq(Messages) /\ ListInv' /\ CursorInv'
  BY <1>1, <1>2, <1>3, EditQueued
<1>5. TypeOK'
  BY <1>1, <1>4, Called DEF TypeOK
<1>6. WishInv' /\ ForgetInv'
  BY <1>1 DEF IInv, WishInv, ForgetInv
<1> QED
  BY <1>4, <1>5, <1>6 DEF IInv

-----------------------------------------------------------------------------
(* The theorems                                                             *)

LEMMA InitHolds == Init => IInv
<1> SUFFICES ASSUME Init PROVE IInv
  OBVIOUS
<1>1. /\ kind \in Kinds /\ mItems = <<>> /\ mWantToLoadMore = TRUE /\ isLoading = FALSE
      /\ queue = <<>> /\ thread = [t \in Threads |-> Idle] /\ page = None /\ clearing = FALSE
      /\ stored = 0 /\ calls = 0 /\ shown = 0 /\ edited = FALSE /\ unseen = TRUE /\ wish = FALSE
  BY DEF Init
<1>2. thread \in [Threads -> ThreadStates] /\ \A t \in Threads : thread[t] = Idle
  BY <1>1, IdleType
<1>3. 0 \in 0 .. Rows /\ 0 \in 0 .. MaxCalls
  BY PageAssumption
<1>4. mItems \in Items /\ queue \in Seq(Messages) /\ DOMAIN queue = {} /\ Len(queue) = 0
  BY <1>1, EmptySeq DEF Items
<1>5. TypeOK
  BY <1>1, <1>2, <1>3, <1>4 DEF TypeOK, ThreadStates
<1>6. \A t \in Threads : ~Active(t) /\ ~Holds(t) /\ thread[t].writes = {} /\ thread[t].st = "idle"
  BY <1>2, IdleType DEF Active, Holds
<1>7. ListInv
  BY <1>1, <1>2, <1>4, <1>6 DEF ListInv, ListShape, OnePlace, PageBelongs
<1>8. CursorInv
  <2>1. Alive = {}
    BY <1>2 DEF Alive
  <2>2. shown = Cardinality(Alive) + Len(queue)
    BY <1>1, <1>4, <2>1, FS_EmptySet
  <2>3. CursorShape
    BY <1>1, <1>2, <1>4, <1>6 DEF CursorShape
  <2>4. OneHolder
    BY <1>1, <1>6, <2>2 DEF OneHolder
  <2> QED
    BY <2>3, <2>4 DEF CursorInv
<1>9. WishInv /\ ForgetInv
  BY <1>1 DEF WishInv, ForgetInv
<1> QED
  BY <1>5, <1>7, <1>8, <1>9 DEF IInv

LEMMA StepKeeps == IInv /\ [Next]_vars => IInv'
<1> SUFFICES ASSUME IInv, [Next]_vars PROVE IInv'
  OBVIOUS
<1>1. CASE Layout
  BY <1>1, LayoutKeeps
<1>2. CASE GetView
  BY <1>2, GetViewKeeps
<1>3. CASE Handle
  BY <1>3, HandleEditKeeps, HandlePageKeeps, FinishPageKeeps, HandleFinishedKeeps DEF Handle
<1>4. CASE Requery
  BY <1>4, RequeryKeeps
<1>5. ASSUME NEW t \in Threads, Load(t) PROVE IInv'
  BY <1>5, ReadSizeKeeps, SendPageKeeps, GetNextDataPageKeeps, WriteFlagKeeps, PostFinishedKeeps DEF Load
<1>6. CASE TryToLoadMore
  BY <1>6, TryToLoadMoreKeeps
<1>7. CASE Clear
  BY <1>7, ClearKeeps
<1>8. CASE ClearElsewhere
  BY <1>8, ClearElsewhereKeeps
<1>9. CASE ClearWants
  BY <1>9, ClearWantsKeeps
<1>10. CASE Edit
  BY <1>10, EditKeeps
<1>11. CASE UNCHANGED vars
  BY <1>11 DEF vars, IInv, TypeOK, ListInv, ListShape, OnePlace, PageBelongs, CursorInv, CursorShape,
    OneHolder, WishInv, ForgetInv, Active, Holds, IsPage, Alive
<1> QED
  BY <1>1, <1>2, <1>3, <1>4, <1>5, <1>6, <1>7, <1>8, <1>9, <1>10, <1>11 DEF Next

(* The inductive invariant holds in every behaviour of the two adapters.    *)
THEOREM PageSafety == Spec => []IInv
BY InitHolds, StepKeeps, PTL DEF Spec

(* The list, the messages and the threads keep their types.                 *)
THEOREM TypeCorrect == Spec => []TypeOK
<1>1. IInv => TypeOK
  BY DEF IInv
<1> QED
  BY <1>1, PageSafety, PTL

(* What is wished for while nothing loads stays wished for until a load     *)
(* begins (clear, tryToLoadMore and loadNextPart).                          *)
THEOREM WishIsKeptHolds == Spec => []WishIsKept
<1>1. IInv => WishIsKept
  BY DEF IInv, WishInv, WishIsKept
<1> QED
  BY <1>1, PageSafety, PTL

(* An empty list that wants more and has nothing on its way waits only to   *)
(* be looked at (getCount).                                                 *)
THEOREM NothingForgottenHolds == Spec => []NothingForgotten
<1>1. IInv => NothingForgotten
  <2> SUFFICES ASSUME IInv, Alive = {}, queue = <<>>, page = None, mItems = <<>>, mWantToLoadMore
               PROVE  unseen
    BY DEF NothingForgotten
  <2>1. DOMAIN queue = {} /\ \A t \in Threads : thread[t] = Idle
    BY DEF Alive
  <2>2. \A t \in Threads : ~Active(t) /\ ~Holds(t)
    BY <2>1, IdleType DEF Active, Holds
  <2>3. CASE kind = "list"
    BY <2>1, <2>2, <2>3 DEF IInv, ListInv, OnePlace, ForgetInv
  <2>4. CASE kind = "cursor"
    BY <2>2, <2>4 DEF IInv, CursorInv, OneHolder, ForgetInv
  <2> QED
    BY <2>3, <2>4, KindIs DEF IInv
<1> QED
  BY <1>1, PageSafety, PTL

LEMMA AtMostOne ==
  ASSUME NEW S, \A x, y \in S : x = y
  PROVE  IsFiniteSet(S) /\ Cardinality(S) = IF S = {} THEN 0 ELSE 1
<1>1. CASE S = {}
  BY <1>1, FS_EmptySet
<1>2. CASE S # {}
  <2>1. PICK x \in S : S = {x}
    BY <1>2
  <2> QED
    BY <2>1, FS_Singleton
<1> QED
  BY <1>1, <1>2

(* isLoading and the callbacks tell of every load: of a list there is at    *)
(* most one, in one place; a cursor is asked by one thread at a time; and   *)
(* what is shown as loading is on its way (loadNextPart, handleMessage).    *)
THEOREM LoadIsKnownHolds == Spec => []LoadIsKnown
<1>1. IInv => LoadIsKnown
  <2> SUFFICES ASSUME IInv PROVE LoadIsKnown
    OBVIOUS
  <2>1. ASSUME kind = "list"
        PROVE  /\ shown = Cardinality(Alive) + Cardinality(Queued("addList")) + (IF page = None THEN 0 ELSE 1)
               /\ shown = IF isLoading THEN 1 ELSE 0
    <3>1. ListShape /\ OnePlace
      BY <2>1 DEF IInv, ListInv
    <3>2. \A t \in Threads : t \in Alive <=> Active(t)
      BY <3>1, IdleType DEF ListShape, Alive, Active
    <3>3. Alive \subseteq Threads
      BY DEF Alive
    <3>4. \A i : i \in Queued("addList") <=> i \in DOMAIN queue /\ IsPage(queue[i])
      BY DEF Queued, IsPage
    <3>5. \A t, u \in Alive : t = u
      BY <3>1, <3>2, <3>3 DEF OnePlace
    <3>6. \A i, j \in Queued("addList") : i = j
      BY <3>1, <3>4 DEF OnePlace
    <3>7. /\ Cardinality(Alive) = IF Alive = {} THEN 0 ELSE 1
          /\ Cardinality(Queued("addList")) = IF Queued("addList") = {} THEN 0 ELSE 1
      BY <3>5, <3>6, AtMostOne
    <3>8. /\ ~(Alive # {} /\ Queued("addList") # {})
          /\ ~(Alive # {} /\ page # None) /\ ~(Queued("addList") # {} /\ page # None)
          /\ isLoading <=> Alive # {} \/ Queued("addList") # {} \/ page # None
      BY <3>1, <3>2, <3>3, <3>4 DEF OnePlace
    <3> QED
      BY <3>1, <3>7, <3>8 DEF OnePlace
  <2>2. ASSUME kind = "cursor"
        PROVE  /\ shown = Cardinality(Alive) + Cardinality(Queued("finished"))
               /\ Cardinality({t \in Threads : thread[t].st = "fetching"}) <= 1
               /\ (\E t \in Threads : thread[t].st = "fetching") => isLoading
    <3>1. CursorShape /\ OneHolder
      BY <2>2 DEF IInv, CursorInv
    <3>2. Len(queue) \in Nat /\ DOMAIN queue = 1 .. Len(queue)
      BY LenProperties DEF IInv, TypeOK
    <3>3. Queued("finished") = 1 .. Len(queue)
      BY <3>1, <3>2 DEF CursorShape, Queued
    <3>4. Cardinality(Queued("finished")) = Len(queue)
      <4>1. \A n \in Nat : Cardinality(1 .. n) = n
        <5>1. \A n \in Nat : Cardinality(1 .. n) = IF 1 > n THEN 0 ELSE n - 1 + 1
          BY FS_Interval
        <5> QED
          BY <5>1
      <4> QED
        BY <3>2, <3>3, <4>1
    <3> DEFINE F == {t \in Threads : thread[t].st = "fetching"}
    <3>5. \A t \in F : Holds(t)
      BY DEF Holds
    <3>6. \A t, u \in F : t = u
      BY <3>1, <3>5 DEF OneHolder
    <3> HIDE DEF F
    <3>7. Cardinality(F) <= 1
      BY <3>6, AtMostOne
    <3> USE DEF F
    <3>8. (\E t \in Threads : thread[t].st = "fetching") => isLoading
      BY <3>1, <3>5 DEF OneHolder
    <3> QED
      BY <3>1, <3>4, <3>7, <3>8 DEF OneHolder
  <2> QED
    BY <2>1, <2>2 DEF LoadIsKnown
<1> QED
  BY <1>1, PageSafety, PTL

(* A page is put where it was asked for, unless the list was edited in      *)
(* between (handleMessage and the thread of loadNextPart).                  *)
THEOREM PageFitsHolds == Spec => PageFits
<1>1. IInv => (page # None /\ page' = None /\ ~edited => page.start = Len(mItems))
  BY KindIs DEF IInv, ListInv, PageBelongs, CursorInv, CursorShape
<1>2. IInv => [page # None /\ page' = None /\ ~edited => page.start = Len(mItems)]_vars
  BY <1>1
<1> QED
  BY <1>2, PageSafety, PTL DEF PageFits

=============================================================================

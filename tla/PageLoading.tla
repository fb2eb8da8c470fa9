----------------------------- MODULE PageLoading -----------------------------
(***************************************************************************)
(* The two adapters that load their rows page by page while they are       *)
(* looked at.  Both start a thread when they are asked for the count of an *)
(* empty list or for the last row, and guard the start with isLoading and  *)
(* mWantToLoadMore.  BackLoadingAdapter ("list") hands the page to the     *)
(* main thread in a message, in one queue with the edits of                *)
(* CustomViewAdapter; the thread of CursorPaginationAdapter ("cursor")     *)
(* writes the two flags itself, and its rows come with the next query.     *)
(*                                                                         *)
(* The flags are not volatile: what another thread has written may arrive  *)
(* late and in either order.                                               *)
(***************************************************************************)
EXTENDS Integers, Sequences, FiniteSets

CONSTANTS
  Kinds,       \* the adapters looked at: a subset of {"list", "cursor"}
  Rows,        \* number of rows of the source
  PartSize,    \* mPartSize
  Threads,     \* bound: the loads that are not reported yet, by their threads
  MaxCalls     \* bound: calls of clear, addItem, removeItem, setData and tryToLoadMore

ASSUME PageAssumption ==
  /\ Kinds \subseteq {"list", "cursor"} /\ Rows \in Nat /\ PartSize \in Nat \ {0}
  /\ Threads \subseteq Nat /\ IsFiniteSet(Threads) /\ MaxCalls \in Nat

VARIABLES
  kind,
  mItems, mWantToLoadMore, isLoading,
  queue,       \* the messages of mHandler
  thread,      \* the threads of loadNextPart
  page,        \* the page that handleMessage is at, or None
  clearing,    \* a clear() of another thread is before its second line
  stored,      \* rows the provider behind the cursor has
  calls,
  shown,       \* onLoadStarted less onLoadFinished
  edited,      \* an edit was handled after the start of the page was read
  unseen,      \* a flag has changed, and nobody has asked for the count since
  wish         \* loading was wished for while nothing was loading

vars == <<kind, mItems, mWantToLoadMore, isLoading, queue, thread, page, clearing, stored,
          calls, shown, edited, unseen, wish>>

None == [what |-> "none"]
Extra == 0      \* an item that is added by hand
Source == [i \in 1 .. Rows |-> i]

Idle == [st |-> "idle", start |-> 0, more |-> FALSE, writes |-> {}]
Msg(what, items, start) == [what |-> what, items |-> items, start |-> start]

(* getData(start, count)                                                    *)
DataFrom(start) == SubSeq(Source, start + 1, IF start + PartSize < Rows THEN start + PartSize ELSE Rows)

(* ArrayList.remove: the first occurrence                                   *)
Without(s, x) ==
  IF \E i \in DOMAIN s : s[i] = x
  THEN LET i == CHOOSE j \in DOMAIN s : s[j] = x /\ \A k \in 1 .. j - 1 : s[k] # x
       IN SubSeq(s, 1, i - 1) \o SubSeq(s, i + 1, Len(s))
  ELSE s

Init ==
  /\ kind \in Kinds
  /\ mItems = <<>> /\ mWantToLoadMore = TRUE /\ isLoading = FALSE
  /\ queue = <<>> /\ thread = [t \in Threads |-> Idle] /\ page = None /\ clearing = FALSE
  /\ stored = 0 /\ calls = 0 /\ shown = 0 /\ edited = FALSE /\ unseen = TRUE /\ wish = FALSE

-----------------------------------------------------------------------------
(* loadNextPart, with "n" loads on show before it                           *)
LoadNextPart(n) ==
  /\ n < Cardinality(Threads)
  /\ \E t \in Threads :
       /\ thread[t] = Idle /\ \A u \in Threads : thread[u] = Idle => t <= u
       /\ thread' = [thread EXCEPT ![t].st = IF kind = "list" THEN "reading" ELSE "fetching"]
  /\ isLoading' = TRUE
  /\ shown' = n + 1
  /\ wish' = FALSE

(* Mutant: whether a page is on its way is not asked.                       *)
GetCountAlways(items, loading, n) ==
  /\ IF items = <<>> /\ mWantToLoadMore
     THEN LoadNextPart(n)
     ELSE isLoading' = loading /\ shown' = n /\ UNCHANGED <<thread, wish>>
  /\ unseen' = FALSE

(* getCount, as the list view calls it whenever it is notified and whenever *)
(* it is laid out                                                           *)
GetCount(items, loading, n) ==
  /\ IF items = <<>> /\ mWantToLoadMore /\ ~loading
     THEN LoadNextPart(n)
     ELSE isLoading' = loading /\ shown' = n /\ UNCHANGED <<thread, wish>>
  /\ unseen' = FALSE

(* A layout of the list view, which the user or the first setAdapter brings *)
Layout ==
  /\ page = None
  /\ GetCount(mItems, isLoading, shown)
  /\ UNCHANGED <<kind, mItems, mWantToLoadMore, queue, page, clearing, stored, calls, edited>>

(* getView of the last row                                                  *)
GetView ==
  /\ page = None
  /\ mItems # <<>> /\ mWantToLoadMore /\ ~isLoading
  /\ LoadNextPart(shown)
  /\ unseen' = FALSE
  /\ UNCHANGED <<kind, mItems, mWantToLoadMore, queue, page, clearing, stored, calls, edited>>

-----------------------------------------------------------------------------
(* The thread of BackLoadingAdapter: it asks for the size of the list ...   *)
ReadSize(t) ==
  /\ thread[t].st = "reading"
  /\ thread' = [thread EXCEPT ![t] = [@ EXCEPT !.st = "fetching", !.start = Len(mItems)]]
  /\ edited' = FALSE
  /\ UNCHANGED <<kind, mItems, mWantToLoadMore, isLoading, queue, page, clearing, stored, calls,
                 shown, unseen, wish>>

(* Mutant: the thread says itself that it has loaded.                       *)
SendPageLoaded(t) ==
  /\ kind = "list" /\ thread[t].st = "fetching"
  /\ \E part \in {DataFrom(thread[t].start), <<>>} :
       queue' = Append(queue, Msg("addList", part, thread[t].start))
  /\ thread' = [thread EXCEPT ![t] = Idle]
  /\ isLoading' = FALSE
  /\ UNCHANGED <<kind, mItems, mWantToLoadMore, page, clearing, stored, calls,
                 shown, edited, unseen, wish>>

(* ... and sends the rows from there on, or none when there are no more or  *)
(* they cannot be had.                                                      *)
SendPage(t) ==
  /\ kind = "list" /\ thread[t].st = "fetching"
  /\ \E part \in {DataFrom(thread[t].start), <<>>} :
       queue' = Append(queue, Msg("addList", part, thread[t].start))
  /\ thread' = [thread EXCEPT ![t] = Idle]
  /\ UNCHANGED <<kind, mItems, mWantToLoadMore, isLoading, page, clearing, stored, calls,
                 shown, edited, unseen, wish>>

(* The thread of CursorPaginationAdapter: getNextDataPage, which may store  *)
(* a page and say that it was the last one ...                              *)
GetNextDataPage(t) ==
  /\ kind = "cursor" /\ thread[t].st = "fetching"
  /\ \E more \in BOOLEAN :
       /\ thread' = [thread EXCEPT ![t] =
                       [@ EXCEPT !.st = "writing", !.more = more, !.writes = {"want", "loading"}]]
       /\ \/ stored' = IF stored + PartSize < Rows THEN stored + PartSize ELSE Rows
          \/ ~more /\ stored' = stored
  /\ UNCHANGED <<kind, mItems, mWantToLoadMore, isLoading, queue, page, clearing, calls,
                 shown, edited, unseen, wish>>

(* ... its two assignments ...                                              *)
WriteFlag(t) ==
  /\ thread[t].st = "writing"
  /\ \E w \in thread[t].writes :
       /\ thread' = [thread EXCEPT ![t].writes = @ \ {w}]
       /\ IF w = "want"
          THEN mWantToLoadMore' = thread[t].more /\ UNCHANGED isLoading
          ELSE isLoading' = FALSE /\ UNCHANGED mWantToLoadMore
  /\ unseen' = TRUE
  /\ UNCHANGED <<kind, mItems, queue, page, clearing, stored, calls, shown, edited, wish>>

(* ... and its post.                                                        *)
PostFinished(t) ==
  /\ thread[t].st = "writing" /\ thread[t].writes = {}
  /\ queue' = Append(queue, Msg("finished", <<>>, 0))
  /\ thread' = [thread EXCEPT ![t] = Idle]
  /\ UNCHANGED <<kind, mItems, mWantToLoadMore, isLoading, page, clearing, stored, calls,
                 shown, edited, unseen, wish>>

-----------------------------------------------------------------------------
(* What an edit makes of the list (CustomViewAdapter.handleMessage)         *)
EditedBy(msg) ==
  CASE msg.what = "clear" -> <<>>
    [] msg.what = "changed" -> msg.items
    [] msg.what = "add" -> mItems \o msg.items
    [] msg.what = "remove" -> Without(mItems, msg.items[1])

HandleEdit ==
  /\ page = None /\ queue # <<>> /\ Head(queue).what \in {"clear", "changed", "add", "remove"}
  /\ queue' = Tail(queue)
  /\ mItems' = EditedBy(Head(queue))
  /\ edited' = TRUE
  /\ GetCount(mItems', isLoading, shown)
  /\ UNCHANGED <<kind, mWantToLoadMore, page, clearing, stored, calls>>

(* handleMessage of a page: "No more data" ...                              *)
HandlePage ==
  /\ page = None /\ queue # <<>> /\ Head(queue).what = "addList"
  /\ queue' = Tail(queue) /\ page' = Head(queue)
  /\ mWantToLoadMore' = (mWantToLoadMore /\ Head(queue).items # <<>>)
  /\ UNCHANGED <<kind, mItems, isLoading, thread, clearing, stored, calls, shown, edited, unseen, wish>>

(* Mutant: an empty page leaves the adapter loading.                        *)
FinishFullPage ==
  /\ page # None /\ page' = None
  /\ mItems' = mItems \o page.items
  /\ GetCount(mItems', page.items = <<>>, shown - 1)
  /\ UNCHANGED <<kind, mWantToLoadMore, queue, clearing, stored, calls, edited>>

(* ... onLoadFinished, isLoading, the rows and the notification.            *)
FinishPage ==
  /\ page # None /\ page' = None
  /\ mItems' = mItems \o page.items
  /\ GetCount(mItems', FALSE, shown - 1)
  /\ UNCHANGED <<kind, mWantToLoadMore, queue, clearing, stored, calls, edited>>

(* onLoadFinished of CursorPaginationAdapter                                *)
HandleFinished ==
  /\ queue # <<>> /\ Head(queue).what = "finished"
  /\ queue' = Tail(queue) /\ shown' = shown - 1
  /\ UNCHANGED <<kind, mItems, mWantToLoadMore, isLoading, thread, page, clearing, stored, calls,
                 edited, unseen, wish>>

(* The cursor is queried again and the view notified.                       *)
Requery ==
  /\ kind = "cursor" /\ Len(mItems) # stored
  /\ mItems' = SubSeq(Source, 1, stored)
  /\ GetCount(mItems', isLoading, shown)
  /\ UNCHANGED <<kind, mWantToLoadMore, queue, page, clearing, stored, calls, edited>>

-----------------------------------------------------------------------------
Call == calls < MaxCalls /\ calls' = calls + 1

(* "mWantToLoadMore = true", and what is to be remembered of it: it is      *)
(* overwritten by a load that has not ended.                                *)
Wish ==
  /\ mWantToLoadMore' = TRUE
  /\ unseen' = (unseen \/ ~mWantToLoadMore)
  /\ wish' = (wish \/ (~isLoading /\ \A t \in Threads : "want" \notin thread[t].writes))

TryToLoadMore ==
  /\ Call /\ Wish
  /\ UNCHANGED <<kind, mItems, isLoading, queue, thread, page, clearing, stored, shown, edited>>

(* clear() of the main thread                                               *)
Clear ==
  /\ kind = "list" /\ page = None /\ Call
  /\ queue' = Append(queue, Msg("clear", <<>>, 0))
  /\ Wish
  /\ UNCHANGED <<kind, mItems, isLoading, thread, page, clearing, stored, shown, edited>>

(* clear() of another thread, in its two lines                              *)
ClearElsewhere ==
  /\ kind = "list" /\ ~clearing /\ Call
  /\ queue' = Append(queue, Msg("clear", <<>>, 0)) /\ clearing' = TRUE
  /\ UNCHANGED <<kind, mItems, mWantToLoadMore, isLoading, thread, page, stored, shown, edited, unseen, wish>>

ClearWants ==
  /\ clearing /\ clearing' = FALSE
  /\ Wish
  /\ UNCHANGED <<kind, mItems, isLoading, queue, thread, page, stored, calls, shown, edited>>

(* addItem, removeItem and setData                                          *)
Edit ==
  /\ kind = "list" /\ Call
  /\ \E msg \in {Msg("add", <<Extra>>, 0), Msg("changed", <<Extra>>, 0), Msg("changed", <<>>, 0)}
                  \cup {Msg("remove", <<i>>, 0) : i \in 1 .. Rows} :
       queue' = Append(queue, msg)
  /\ UNCHANGED <<kind, mItems, mWantToLoadMore, isLoading, thread, page, clearing, stored,
                 shown, edited, unseen, wish>>

-----------------------------------------------------------------------------
Load(t) == ReadSize(t) \/ SendPage(t) \/ GetNextDataPage(t) \/ WriteFlag(t) \/ PostFinished(t)
Handle == HandleEdit \/ HandlePage \/ FinishPage \/ HandleFinished

Next ==
  \/ Layout \/ GetView \/ Handle \/ Requery
  \/ \E t \in Threads : Load(t)
  \/ TryToLoadMore \/ Clear \/ ClearElsewhere \/ ClearWants \/ Edit

(* The loading threads and the looper of the main thread are scheduled, and *)
(* the provider tells its cursor of new rows.                               *)
Fairness == WF_vars(Handle) /\ WF_vars(Requery) /\ \A t \in Threads : WF_vars(Load(t))

Spec == Init /\ [][Next]_vars /\ Fairness

-----------------------------------------------------------------------------
Items == Seq(0 .. Rows)
Messages ==
  [what : {"clear", "changed", "add", "remove", "addList", "finished"}, items : Items, start : Nat]

TypeOK ==
  /\ kind \in Kinds
  /\ mItems \in Items /\ mWantToLoadMore \in BOOLEAN /\ isLoading \in BOOLEAN
  /\ queue \in Seq(Messages) /\ page \in Messages \cup {None} /\ clearing \in BOOLEAN
  /\ thread \in [Threads -> [st : {"idle", "reading", "fetching", "writing"}, start : Nat,
                              more : BOOLEAN, writes : SUBSET {"want", "loading"}]]
  /\ stored \in 0 .. Rows /\ calls \in 0 .. MaxCalls /\ shown \in Nat
  /\ edited \in BOOLEAN /\ unseen \in BOOLEAN /\ wish \in BOOLEAN

Alive == {t \in Threads : thread[t] # Idle}
Queued(what) == {i \in DOMAIN queue : queue[i].what = what}

(* A page goes to the place it was asked for: it starts with the row behind *)
(* the last, unless the list was edited while the page was on its way.      *)
PageFits ==
  [][page # None /\ page' = None /\ ~edited => page.start = Len(mItems)]_vars

(* isLoading and the two callbacks tell of every load: the pages of a list  *)
(* come one at a time, a cursor is asked for the next page by one thread at *)
(* a time, and every load that began is either on its way or was reported.  *)
LoadIsKnown ==
  /\ kind = "list" =>
       /\ shown = Cardinality(Alive) + Cardinality(Queued("addList")) + (IF page = None THEN 0 ELSE 1)
       /\ shown = IF isLoading THEN 1 ELSE 0
  /\ kind = "cursor" =>
       /\ shown = Cardinality(Alive) + Cardinality(Queued("finished"))
       /\ Cardinality({t \in Threads : thread[t].st = "fetching"}) <= 1
       /\ (\E t \in Threads : thread[t].st = "fetching") => isLoading

(* When nothing is on its way, an empty list that wants more waits for no   *)
(* other reason than that it was not looked at since it wants more (since   *)
(* its load ended, for a cursor, which tells the view of rows only).        *)
NothingForgotten ==
  (Alive = {} /\ queue = <<>> /\ page = None /\ (kind = "list" \/ stored = Len(mItems)))
    => (mItems = <<>> /\ mWantToLoadMore => unseen)

(* Loading that is wished for while nothing loads stays wished for until a  *)
(* load begins.                                                             *)
WishIsKept == wish => mWantToLoadMore

(* An empty list that is looked at, a page on its way or not, gets rows or  *)
(* is told that there are none, again and again when it is emptied; and no  *)
(* load of either adapter goes on for ever.                                 *)
FillsAgain ==
  /\ (kind = "list" /\ mItems = <<>> /\ ~unseen) ~> (mItems # <<>> \/ ~mWantToLoadMore)
  /\ isLoading ~> ~isLoading

=============================================================================

# V2AndLib.UI: models, checks and proofs

TLA+ modules of the parts of V2AndLib.UI that carry state, the TLC runs that check them
on small instances, and TLAPS proofs about them for every instance. Paths are relative to
the repository root (`src/` here); `CD`, `CA`, `DEP`, `NET`, `MED` stand for
`com/v2soft/AndLib` under the `src` directory of `V2AndLib-commondata`, `-commonandroid`,
`-depredecated`, `-networking` and `-media`.

## 1. Inventory

V2AndLib.UI is a Java library for Android applications: background tasks, downloads with a
file cache, speed-limited streams, an in-memory chat store, UDP discovery, list adapters
that load in the background, a media player/recorder wrapper, and views. There is no server
and no storage engine: what is hard is the interplay of the UI thread (which runs every
`Handler`/`Loader` callback) with worker threads, sockets, files and Android's media objects.

| Component | State | Operations | How it interacts | What must hold | Hard part |
|---|---|---|---|---|---|
| Task hub: `DEP/dataproviders/TasksMultiplexor`, `RunnableQueueExecutor`, `ITaskHub`, `CD/.../DummyTask` | queue, running task, interrupt flag, listener per task id, task list per listener, posted callbacks | addTask, cancelTask, cancelAllTasksByListener, detachFromTasks, stopTasksMultiplexor, the executor loop, onMessageFromTask, handleFinished/Exception | executor thread calls back into the hub; the hub posts to the UI thread's `Handler` | one outcome per task, last of its callbacks, in order; nobody waits for a callback that cannot come; detach and cancel mean what they say | two threads on unsynchronised maps; interrupt aimed at a thread, not at a task |
| Download and file cache: `CD/.../DownloadTask`, `CD/filecache/FileCache`, `CD/streams/StreamHelper` (+ `CacheHTTPFile`, `DownloadAndDecodeImage`) | cache files, copy position, cancel flag, mSuccess | execute, cancel, clear, remove, isInCache, copy | tasks of several executors share one cache directory; the copy polls the task's cancel flag | a cached file is a whole file; a cancelled download leaves nothing; a cached URI is not fetched again | I/O errors and kills between chunks, two tasks on one URI |
| Speed control: `CD/streams/ResourceTimeController`, `SpeedControlInputStream`, `SpeedControlOutputStream` | budget of the slot, end of the slot | checkRemainedResources, requestResources, decrementResources, read, write | wraps the output of DownloadTask | never above the limit, never stuck below it | rounding of small limits, the recursion of write |
| Chat store: `CD/communications/AbstractCommunicationChat`, `AbstractIMStorage` | messages per chat, unread counter, chat per user, message per id | addMessage, removeMessage, setMessages, setMessageRead, deleteMessage, deleteMessageById, removeAllChats, getUnreadMessageCount | the storage routes to chats; listeners refresh on change | the counter counts, the two indexes agree | the same message through several doors |
| UDP discovery: `NET/networking/UDPBroadcastDiscovery`, `UDPBroadcastReceiver`, `NET/ui/loaders/UDPScannerLoader` | sender/receiver thread, socket, isWorking, servers with a TTL, the answering side's port | startDiscovery, stopDiscovery, startReceiver, stopReceiver, loader start/stop/reset, timers | sender, receiver, timer and loader threads; datagrams | a stopped discovery stops; a silent server disappears | restart while the old threads wind down, on both sides; lost and repeated datagrams |
| Background-loading adapters: `CA/ui/adapters/BackLoadingAdapter`, `CursorPaginationAdapter`, `CustomViewAdapter` | loaded rows, isLoading, end mark, message of the loading thread | getCount, getView, loadNextPart, handleMessage, clear | a thread per page; messages of the handler, or (cursor) writes of the thread itself; the list view asks for the count | every page once and in order, an empty list is filled when it is looked at | clear while a page is on its way, flags written by two threads |
| Media: `MED/CustomizableMediaPlayer`, `CustomizableRecorder`, `RawPlayer`, encoders, `CameraView` | player state machine, prepared/ended flags, position timer | play, stop, pause, resume, seek, release; onPrepared, onCompletion, onError | wraps `MediaPlayer`, callbacks on the UI thread | calls reach MediaPlayer only in states that allow them | a callback that arrives after the call that made it obsolete |
| Service requests: `CA/dataproviders/AbstractServiceTaskHandler`, `AbstractServiceRequest`, `AbstractDataRequest` | started requests, result broadcasts | onHandleIntent, execute, deliver | intent service and receiver | one answer per request | stop of the service while work remains |
| Async executors and list tasks: `CA/dataproviders/AsyncTaskExecutor`, `CD/.../ListTask`, `DEP/.../TaskExecutorLoader`, `AbstractCache` | current task, queue position | execute, stop, next | AsyncTask pool | tasks of a list run in order, a stop is not lost | stop before doInBackground |
| Account helper: `CA/services/AndroidAccountHelper` | accounts, the pending future | getAccount, createAccount, callbacks | AccountManager | one answer per question | add/remove while waiting |
| Containers: `CD/containers/TTLMap`, `MultiMap`... | value and expiry per key | put, get, clean | plain Java | an expired value is never returned | the boundary instant |
| Wi-Fi and Bluetooth scanners: `CA/.../WiFiScannerLoader`, `BluetoothScannerLoader` | results list, receiver registration | start, stop, onReceive | broadcast receiver and loader | registered exactly while started | removal while iterating |
| Views, dialogs, activities, fonts, settings, `BitmapsCache`, `ProfileStorage`, JPEG/bitmap tasks, Dropbox service, demo application, sketches | mostly Android view state | – | – | – | – |
| MP3 bit reservoir and bit stream: `V2AndLib-media/jni/mpg_full` (`reservoir.c`, `bitstream.c`, the iteration loops of `quantize.c`) | three counts of the bits left over, a ring of headers with their places in the stream | lame_encode_mp3_frame, flush_bitstream, add_dummy_byte, the reset of the bit count | vendored LAME under the JNI wrapper of the MP3 encoder | every frame's main data are where its side information says, headers are where the frame length says | frames of changing length and padding, a ring that wraps |
| The rest of LAME, and libjpeg (`jni/jpeg-9a`) | third-party numerical C | – | – | – | – |

Section 6 lists what the modelling has found. The line-by-line correspondence of the
definitions to the source is in `PROJECT.json` ("map"), and the places where this code is hard
to test are listed there under "hazards".

## 2. Plan

Order: the most important behaviour first. *Done* means modelled, checked and, where it says so,
proved.

| Step | Module | Models | State |
|---|---|---|---|
| 1 | `TaskHub`, `TaskContract` | task hub, and what it promises of a task | done; safety and the contract proved in `TaskHub_proofs` |
| 2 | `Download` | download tasks over the file cache | done; safety proved in `Download_proofs` |
| 3 | `StreamCopy` | copy with a speed limit, against a clock | done; safety proved in `StreamCopy_proofs` |
| 4 | `ChatLock`, `IMStorage` | one chat under several threads; the storage's two indexes | done; safety proved in `Chat_proofs` |
| 5 | `UDPDiscovery`, `UDPSearch`, `UDPScanner` | the discovery, what it shows its client, and the loader over that | done; safety and the refinement proved in `UDP_proofs` |
| 6 | `PageLoading` | both adapters: page threads, the message queue, the flags, `clear` | done; safety proved in `PageLoading_proofs` |
| 7 | `MediaPlayer` | the player's state machine against the one of Android's `MediaPlayer`, late callbacks | to do |
| 8 | `UDPReceiver`, `WiFiScanner` | the answering side; the chain of scans and its timers | `UDPReceiver` done, proved in `UDPReceiver_proofs`; `WiFiScanner` to do |
| 9 | `RawPlayer` | thread and ring of buffers | to do |
| 10 | `Services` | start ids and the looper thread, AsyncTask executor, list tasks, account helper | to do |
| 11 | `Caches` | bitmap references, TTL map, bitmap quality loop, special timer | to do |
| 12 | `LameReservoir` | the bit reservoir and the writer of the MP3 encoder | done; safety proved in `LameReservoir_proofs`; the sample buffer of `lame_encode_buffer` may follow |

Compositions: `UDPScanner` EXTENDS `UDPSearch`, the abstract discovery that `UDPDiscovery` is
checked to implement; the task hub is checked to implement `TaskContract`; `StreamCopy` refines
the inside of `Download`'s `ReadBuffer`/`WriteBuffer` (both describe `StreamHelper.copy`, one with
files and failures, the other with bytes and time). `UDPReceiver` stands alone: the
discovery sees of it only that an answer comes or does not. A later step may put `BitmapsCache` on
`TaskContract`.

Every safety property, action property and refinement that a passing run checks is stated by a
theorem. Still worth proving: that `StreamCopy` implements the `ReadBuffer`/`WriteBuffer` loop of
`Download` (their states do not yet share a buffer), and the safety of the modules to come.

## 3. Modules and code

Every module has one action per step that another thread (or a callback, or a crash) can observe.
What one thread does without touching shared state is folded into the neighbouring step. A Java
collection operation (`HashMap.put`, `LinkedList.add`) is one step, although the collections are
not synchronized: a torn `HashMap` is outside the models. Memory is sequentially consistent: a
field that is not `volatile` may in Java be seen later than here; the models show what already
goes wrong, or stays right, without that.

### `TaskHub` (core)

| Code | Model |
|---|---|
| `TasksMultiplexor.mListeners`, `mTasksByListener` (a map of list objects) | `listeners`, `byListener` with `lists` (a list object is named by the task that made it, because two threads hold references to it while the map changes) |
| `RunnableQueueExecutor.mRequests`, `isWorking`, `mCurrentTask`, the interrupt flag of its thread | `queue`, `working`, `current`, `interrupted` |
| runnables posted to the `Handler` | `handler`, run one by one by `Deliver` |
| a call of `ITaskHub` on the UI thread | `call`: the record of its locals and of the statement it is at |
| `run`, `handleFinished`, `handleException`, `removeTask` on the executor thread | the actions from `Start` to `PostOutcome`, with `exPc` |

`addTask` is six actions, one per access to a shared map or list (the second `get` may find null:
the call then throws). `cancelTask` reads `mCurrentTask` twice, which is why `CancelCompare`,
`CancelFlag` and `CancelInterrupt` are three actions. `cancelAllTasksByListener` iterates with a
`LinkedList` iterator: `hasNext()` (`CancelAllHasNext`) compares its position with the size of the
list as it is, `next()` (`CancelAllNext`) throws, that is drops the call with the listener still in
the map, when the list is not the one the iterator was made for. `detachFromTasks` reads the size
(`DetachTest`) and takes the element (`DetachNext`, out of bounds when the list has shrunk in
between) in the same way. A task may send messages (`RunMessage`), end (`RunReturn`), throw
(`RunThrow`), or run for as long as it likes. A task object is given to `addTask` once, as every
caller in the repository does; the id that `addTask` assigns is then the object.

`TaskContract` is the promise of `ITaskHub` with no threads in it: a task is pending, then
reported or silent for good, and reports come in the order of submission. `KeepsContract`
instantiates it with `order <- submitted` and a `status` computed from the maps and the looper.

### `Download`

Files are inodes with a link (`file`) and a content (`data`), since `FileOutputStream` truncates
the file that is there, `File.delete` takes only the name away, and an open stream writes on at its
own offset. `execute` runs from `TestExists` to `CloseStreams`; a `DownloadAndDecodeImage` (the
tasks in `Images`) goes on with `CheckCanceled` and `Decode`, and does not pass `cancel` on to the
copy. `Faults` names the steps that throw; "interrupt" is the hub's interrupt in the sleep of the
speed limit, which leaves the copy as an `IOException` and so without `Delete`; "endless" is a
source whose end never comes; "kill" ends the process (`Kill`), which forgets everything but the
files. The history variables `broken` (names whose copy was left by an exception or a kill) and
`shared` (names two tasks have worked on at one time) let one run hold every fault while each
property says exactly in which cases the code keeps it.

### `StreamCopy`

`StreamHelper.copy` byte by byte with `SpeedControlInputStream` ("in") or
`SpeedControlOutputStream` ("out") around `ResourceTimeController`, or neither ("none"). `now` is
`System.currentTimeMillis()`: `Tick` may happen between any two steps (at most `MaxSlack` times
while the thread is not asleep, a bound of the run), and while it sleeps until the slot's end. A
`write` that does not fit the budget calls itself for the rest (`depth`, with `MaxDepth` for the
stack). A cancel sets the monitor and may interrupt the sleep.

### `ChatLock`, `IMStorage`

`ChatLock` is one chat with several threads, each making one call with any message or any list: the
field `mMessages` is read to find the monitor (`Enter`), the monitor is taken (`Lock`), every
statement of the body reads the field again, and `mUnreadCount++` is `Load` and `Store`.
`setMessages` replaces the field while it holds the old monitor (`SetField`), reads it again for the
second monitor (`Reread`, `Relock`) and once more for the loop that counts. Any number of threads may
do this at once, with the chat's own list, a list used before or the same list. A list that another
thread changes under an index or an iterator ends the call with an exception (`OutOfBounds`, `stale`),
which gives its monitors back as the end of a `synchronized` block does.

`IMStorage` is the storage with one thread: message objects that are equal by id, the chats, and
`mMessagesMap`; a copy of a message that comes again replaces the first one in the map and not in the
chat. `mChatsMap` has the chat ids as keys (`CID`), and `deleteMessage` gives its `get` the recipient
and the sender of the message, two users (`U`): the lookup (`FoundChats`) finds a chat only if its key
is equal to one of the two. `Users` and `Chats` are separate constants that may or may not have
members in common, since both types are parameters of the class: in `CommunicationlogicTests` they
never are equal.

### `UDPDiscovery`, `UDPSearch`, `UDPScanner`

A run is a `startDiscovery` that gets past its test of `mSenderThread`; its socket and its two threads
are named by its number. Any of `Callers` may call it, as the main and the timer thread of the loader
do, and its statements are steps: the constructor of the socket (`MakeSocket`) and `setSoTimeout`
(`SetTimeout`) may throw, which leaves the run `unmade`, in the second case with an open socket. Two
callers may pass the test before either assigns `mSenderThread`: the history variable `clashed` says
so, and the properties say nothing behind it. The fields (`mSocket`, `mSenderThread`, `mReceiverThread`, `isWorking`) are shared by all runs and
re-read at every use, as in the code. Packets are reduced to "something was received". A thread
that hits a null field or starts a thread twice is `dead`.

`UDPSearch` is what the client sees: a search that is made, starts, searches, ends and is cleared
away, the reports that are still to come, and what can go wrong: the search cannot be made, it dies
(only one that was started while another had not been reported, `hurried`) and leaves `mSenderThread`
set for ever, or two callers clash. `IsASearch` checks that `UDPDiscovery` implements it.
`UDPScanner` EXTENDS `UDPSearch` and adds the loader: `restartDiscovery` is the steps `RestartStop`,
`RestartStart` (the test) and `RestartFinish`, since the timer threads and the main thread call it and
meet in it; timers are identified, because the loader's field remembers only the last one.

### `UDPReceiver`

One caller (the main thread) starts and stops the receiver. Sockets and threads have the number of
the start that made them; `open` is the socket that holds the port, and the system lets one hold it,
so `MakeSocket` is enabled only then (otherwise the constructor throws and nothing changes). The
thread reads the field `mSocket` at the head of its loop and again in `isClosed()`: in between it
may have been replaced. The history variable `hurried` says that the last socket was made while a
thread was still there, the case in which `startReceiver` throws behind having made the socket.

### `PageLoading`

One module for `BackLoadingAdapter` and `CursorPaginationAdapter` (`kind`), because both start a
thread under the same two flags and differ in where the result goes: a message that the main thread
handles in one queue with the edits of `CustomViewAdapter`, or the loading thread's own writes to
the flags. These fields are not `volatile`, so the thread of a cursor performs its two writes
(`writes`) in either order, and `Load` is a step for each. The rows of a cursor appear with the
provider's notification (`Requery`). `getNextDataPage` says whether there may be more, which it may
deny of a page that had rows (`GetNextDataPage`). A list view asks for the count on every notification, and that
is folded into the step that notifies; it may also ask at any time (`GetCount`, `GetView`). `clear()`
is two lines, and a thread other than the main one may stop between them (`clearing`). The history
variables `edited`, `unseen` and `wish` say what the properties are relative to: an edit behind the
start of a load, a flag nobody has looked at, a wish made while nothing loads.

### `LameReservoir`

A frame goes through the phases of `pc`: bits before it (`pre`), the granules (`main`), stuffing
behind it (`post`), and between sessions `flush` and tag bytes. `todo` is what the current calls of
`putbits2` have left to write; `HeaderIsDue` inserts a header where `write_timing` says.
The quantiser may give a granule any size of `Sizes` within the limits the loops compute. Units are
the code's (bits, except `main_data_begin`, in bytes). `FrameBits`, `Rate` and `FracSpF` stand for
the tables of the MPEG version and sample rate.

## 4. Runs

A run's module is `MC<module>`, its configuration `MC<module>[...].cfg`. All passing runs together
fire every action. `CHECK_DEADLOCK FALSE` is set where the system may come to rest: a stopped
executor, a finished copy, calls that have returned, a discovery nobody starts again.

| Run | Instance and bounds | Shows |
|---|---|---|
| `hub` | 2 tasks, 1 listener, queue of 1, any 2 of stop, cancel, detach, cancelAll, 1 message of the first task | a task's outcome is its last callback and unique (`OutcomeIsLast`); a registered listener belongs to a task that is on its way or was dropped, and a dropped task never runs (`NobodyWaitsInVain`); a detached task is not reported any more (`DetachIsFinal`); the hub implements its contract (`KeepsContract`); every accepted task leaves the executor (`EveryAcceptedTaskEnds`); a stop ends the thread (`StopTakesEffect`) |
| `hub_cancel_doc` | 2 tasks, 1 call | counterexample, section 6 |
| `download` | 2 tasks (one decodes an image), 1 file of 2 buffers, 3 calls of execute, every fault | whole files at rest and no holes (`FilesAreWhole`), whole files behind a success and whole bitmaps (`ResultsAreWhole`), a whole file is neither changed nor fetched again, a cancelled task ends |
| `copy` | 7 bytes, buffers of up to 4, 2 bytes in a slot of 2 ticks, 3 ticks of slack, a cancel; all three kinds of copy | the rate, the bytes (`NoByteIsLost`), the cancel, the end |
| `chat` | 3 threads, 2 messages, 3 list objects, every combination of calls and lists | mutual exclusion on the monitor a call asked for, with the counter (`CountedUnderLock`); every call returns unless calls of `setMessages` cross in their two monitors, which takes a list that is the chat's own or is set twice (`CallsReturn`) |
| `storage` | 2 ids, 3 objects (2 copies), 3 chats, of which two have users for keys: one message in the chat of its sender, one in a chat with another key | the unread counter over copies (`CountersAgree`), and the two indexes where they can agree, in the chats of sender and recipient (`ChatsAreIndexed`) |
| `storage_delete_doc` | the same objects in 2 chats with keys of their own, as in `CommunicationlogicTests` | counterexample, section 6 |
| `udp` | 2 callers, 3 runs, 2 requests each; `CONSTRAINT UpToTheClash` | one search at a time and each on its own socket (`SearchesAreApart`), no server after the report and no socket left open (`RunsEndCleanly`), every run that could be made is reported or, when it was started on a leaving one, may die (`EveryRunIsReported`); implements `UDPSearch` |
| `scanner` | 2 devices, TTL 2, 3 starts | the list follows the searches, timers do not multiply, searching goes on but for the three cases `KeepsSearching` names, and stops |
| `receiver` | 4 starts, any number of stops, packets or none, errors of `receive` | one thread receives and the field names it, a held port is served, a stop ends the thread |
| `pages` | both adapters, 3 rows in pages of 2, 2 loads that overlap, any 3 of clear (main or another thread), addItem, removeItem, setData, tryToLoadMore | a page fits where it was asked for, `isLoading` and the callbacks tell of every load, an empty list is not forgotten, a wish is kept, an empty list that is looked at fills again |
| `lame` | constant and variable bit rate, with and without reservoir, frames of 6, 8 and 12 bytes, a ring of 6 headers, a bit count that is reset, flushes and tag bytes | the decoder finds the data, the counts agree, the headers are in place and fit the ring, a flush completes |

Why the bounds are enough to see the cases: in the hub two tasks are the least for one to be
cancelled while the other runs, one queue slot is the least for a refusal, and two calls let a
detach follow a cancel; the theorems of section 5 take over for larger instances. Order inside the
queue needs a queue of two, which the run does not have; it is the `Head`/`Append` of an
`ArrayBlockingQueue`. In `download`, two buffers are the least for a file that is partly there, two
tasks the least for an overlap, three calls the least for a task that comes behind two that
overlap. In `copy`, a buffer of two slots' budgets recurses and a source of two buffers and a rest
comes back to `read`. In `chat` three threads are the least for two that race beside one that
replaces the list, or for two `setMessages` that cross beside a third call; three lists are the chat's
own and one for each of them. `Talkers` bounds which tasks of the hub send messages: one is enough for
a message to be posted beside the outcome of another task. In `udp` two callers are the least for a
clash; the constraint stops there, behind it every property of the run is true by its own words. The third run is started on what the second one, itself started too
early, has left.

In `receiver` the third start meets what a hurried second one has left, and the fourth what it takes
to recover. In `pages` three rows make a full page, a short one and an empty one; two threads are the
loads of a cursor that overlap (`Threads` bounds only loads that are not reported yet), and three
calls let a clear, an edit and a wish meet one load. In `lame` the ring wraps inside one full
reservoir, the bit count is reset every few frames, and the three frame lengths with a padding byte
give every relation of the reservoir to its limits.

Composite properties are conjunctions of named parts (`FilesAreWhole == TypeOK /\ RestIsWhole /\
HolesAreFilled`), which the modules define and comment one by one.

Every property of a passing run has a mutant in `PROJECT.json`: a definition beside the real one
(marked "Mutant" in its comment) with a plausible mistake, under which TLC finds the property
violated in the same configuration.

### Fairness

- `TaskHub`: the executor thread is scheduled and `execute` of a task returns or throws. Nothing
  obliges the client to call, to finish a call or to run what is posted.
- `Download`: a task's thread is scheduled and its source answers every read. The code sets no
  timeout (`StreamHelper.getStream`), so a server that stays silent would stop the thread for ever:
  `CancelEnds` is about sources that go on, not about those that hang.
- `StreamCopy`: the thread is scheduled and time goes on.
- `ChatLock`: threads are scheduled; a monitor that is free again and again is taken at last
  because each thread makes one call. Nothing is supposed of monitors that cross.
- `UDPDiscovery`: a call that has begun goes on, threads are scheduled, and `receive` returns within the timeout the constructor
  gives the socket (`setSoTimeout`). No answer is ever owed.
- `UDPScanner`: threads are scheduled and a timer that is not cancelled fires. A search goes on until
  it is cleared away or dies, and one that is cleared away is reported: this is what `EveryRunIsReported`
  shows of `UDPDiscovery`. The fairness does not choose between the two, nor between a start that
  succeeds and one that throws: `SearchDie` and `SearchFail` are among its steps, so `KeepsSearching`
  and `ComesToRest` hold with searches that die or cannot be made, and name what then happens.
- `UDPReceiver`: a call that has begun goes on, and the thread is scheduled unless it waits for a
  packet at an open socket: no packet is owed, and `close` wakes the wait.
- `PageLoading`: the looper and the loading threads are scheduled, the provider tells its cursor of
  new rows. Nobody is obliged to look at a list or to edit it.
- `LameReservoir` has safety only: the encoder is sequential and takes what it is given.

## 5. Proofs

`TaskHub_proofs` (for every set of tasks and listeners, every capacity, set of calls and bounds):

- `TypeCorrect`: `Spec => []TypeOK`. Beside types it says that a call or report in progress holds
  no null where its next step uses an object.
- `HubSafety`: `Spec => []IInv`. `IInv` adds `InOnePlace` to the three invariants of the run. None
  of these is inductive alone: that a task the executor takes has not been reported yet needs that
  the queue holds no task twice, that nothing of a queued task is in the looper, and that the client
  is not at the same moment adding it; `InOnePlace` says that a submitted task is in one place at a
  time (the call, the queue, the executor) and fresh until it leaves the executor.
- `OutcomeIsLastHolds` and `NobodyWaitsInVainHolds` follow from it.

- `DetachIsFinalHolds`, an action property, needs that a detached task was submitted and has no
  listener (`DetachInv`): a report begins only where the executor finds a listener (`ReportBegins`), and
  only the call that submits a task registers one.
- `KeepsContractHolds`: `Spec => KeepsContract`, the refinement of `TaskContract`. A task's status is
  computed from where the task is, so that most steps are stutters: `FallsSilent` covers those
  that can end a task without a report.
  Reports come in the order of submission because of `OrderInv`: the tasks on their way through
  `addTask`, the queue and the executor stand in the order in which they were submitted. The run has
  a queue of one; the theorem is about every capacity.

The proof has a lemma per action group and one step per action; it uses lemmas about sequences
(what `Append`, `Tail` and `RemoveAt` do to "holds" and "no repeat"), and only `HubAssumption`.

`Download_proofs` (for every set of tasks, URIs and names, every length of a source, every set of
faults and bound on the calls):

- `DownloadSafety`: the inductive invariant. `LinksInv` relates the streams to the files (a stream
  that is open belongs to the file of its name, to no other name); `SharedInv` says what a name knows
  that is not in `shared`: one task at most works on it (`AlonePart`), and a task that found nothing
  there still finds nothing (`AbsentPart`); `ContentInv` says how much of its source a file holds,
  by who writes it, and `SizeInv` that no file is longer than its source. The four parts need each
  other: that a file at rest is whole follows from what its last writer left, and that from the
  writer having been alone.
- `FilesAreWholeHolds`, `ResultsAreWholeHolds` and `WholeIsKeptHolds` follow, the last two with
  action properties. All three hold *assuming* `OneNameEach`: two URIs do not have one file name. The
  caches made with `MD5CacheFactory` have that for all practical purposes; the 32-bit hashes of
  `JavaHashFactory` do not, and the run has one URI.

`StreamCopy_proofs` (for every source, buffer, limit, slot and clock):

- `CopySafety`: the inductive invariant: types with the bounds of the recursion, `BytesAreKept`,
  `RateInv`, `LateInv`. `RateInv` is the idea: what has passed and what is left of the budget are
  together at most `Budget * (nextTime \div Slot)`, and `nextTime` is never more than a slot ahead
  of the clock. `Wake` moves `nextTime` by a slot at least, so the quotient grows by one at least
  when the budget is renewed; every other step only moves bytes from the budget to what has passed.
- `TypeCorrect`, `BytesAreKeptHolds`, `RateIsKeptHolds`, `CancelStopsCopyHolds` follow.
- `NoByteIsLostHolds`: copy loses no byte and returns with the whole source written, *assuming that a limited input has
  a budget at all* (`"in" \in Modes => Budget > 0`): section 6 says what happens otherwise.

`PageLoading_proofs` (for every source, page size, finite set of threads, number of calls):

- `PageSafety`: the inductive invariant. For a list it says that a load is in one place at a time
  (the thread, its message, the page being handled) and that this place is what `isLoading` says; for
  a cursor, which thread holds `isLoading` until it clears it, and that `shown` counts the threads and
  the callbacks in the queue (hence the lemmas about cardinalities). The wish and the unseen flag
  change only where nothing loads, or together with their reason.
- `TypeCorrect`, `LoadIsKnownHolds`, `NothingForgottenHolds`, `WishIsKeptHolds`, `PageFitsHolds`
  follow; the last one is an action property.

`Chat_proofs`, for `IMStorage` (every set of ids, copies and chats):

- `StorageSafety`: a message lies only in chats of the map, where it is at home, and no chat holds two
  copies of it; the map of ids holds an object under its own id. On this rest the others.
- `CountersAgreeHolds` adds that each chat's counter is the number of its unread messages (hence the
  cardinality lemmas `AddCounts` and `RemoveCounts`); the sum over the chats is then the same by
  equality of the two functions, without induction. It holds *assuming* `OneHome`, a message is added
  to one chat: section 6 says what happens otherwise.
- `ChatsAreIndexedHolds`: a message that is in the chat of its sender or recipient can be found by its
  id. It says nothing of a chat with another key, where `deleteMessage` does not look, and needs no
  assumption about where messages are added or what the types of users and chat ids have in common.

and for `ChatLock` (every number of threads, messages and lists, every choice of calls):

- `ChatSafety`: `LockInv` says at which statements a call can be and that it then holds the monitor it
  asked for, beside any `setMessages`. `CountInv` says what the counter owes the list at each
  statement (`Due`): an added message is counted after it is in the list, a removed one is counted off
  before it leaves, a marked one after it is marked. `MarkedBy` names the call that marked a message.
- `CountedUnderLockHolds` follows: when all calls have returned nothing is due.
- `FreshListsNeverCross`: calls of `setMessages` do not cross in their monitors when every list given
  to them is a new one. `age` counts the lists set before each list; a call waits for a monitor of a
  list younger than the one it holds, and the youngest of a set of lists has nobody to wait for. The run
  shows the other half, that with such lists every call returns, and that without them they may cross.

`UDP_proofs`, for `UDPDiscovery` (every number of runs and requests):

- `DiscoverySafety`: the inductive invariant says which run the fields `mSenderThread`,
  `mReceiverThread` and `mSocket` belong to at every step of the two threads, which sockets are open,
  and what the caller holds while it makes a run. The leaving run (past `ClearSender`) and the one
  started beside it are described separately: the history variable `rushed` marks the latter.
- `SearchesAreApartHolds`, `RunsEndCleanlyHolds` and `IsASearchHolds` (the refinement of `UDPSearch`,
  step by step: the steps that set `mSenderThread` and `isWorking`, `ClearSender` and the report are
  steps of the abstract search, what the threads do in between is a stutter). They hold for every set of
  callers. The invariant is `TypeOK /\ (clashed \/ RunsInv)`: `RunsInv` is kept by every step but the one
  by which a second caller passes the test, and `ClashStep` says that this is the step that clashes, which
  `ClashIsASearchStep` maps to `SearchClash`. Behind it the theorems, like the properties, claim only types.

and for `UDPScanner` (every set of devices, time to live and number of starts): `ScannerSafety`, with
`ChainsAreBoundedHolds` (timers, reports, restarts and searches together are at most the starts: every
step passes one of them on, as the cardinality lemmas say) and `ListedIsFreshHolds` (the time a device
has to live and its silence add up, `LivesAsHeard`).

`UDPReceiver_proofs` (for every number of starts): `ReceiverSafety` relates the thread's place, the
socket it reads, the interrupt flag and the caller's place to `hurried`; `OneReceiverHolds` and
`PortIsServedHolds` follow. `OneReceiver` alone is not inductive: a thread that ends clears the field,
so it must be known that the field still names it.

`LameReservoir_proofs` (for every table of frame lengths, bit rate, ring, limit and sequence of sizes):

- `Invariance`: the inductive invariant. Its core is one equation at every step of a frame: the room
  in the stream before the place of the next header is the reservoir (`Space`, with the phase's own
  correction), together with the order of the headers in the ring and their distance. From the
  equation `MainDataIsFound`, `CountsAgree`, `RepairIsIdle`, `HeadersKeepTheirPlace`,
  `FlushIsComplete`.
- `RingSuffices`: no header takes the slot of one that waits, *assuming* `RingIsLarge`: the ring holds
  the frames of a full reservoir and one more. The code's numbers meet it but for one case (section 6).

The proofs use the assumptions on the constants that the modules state (`HubAssumption`,
`CopyAssumption`, `DownloadAssumption`, `ChatAssumption`, `StorageAssumption`, `DiscoveryAssumption`,
`ScannerAssumption`, `PageAssumption`, `ReceiverAssumption`, `ReservoirAssumption`; TLC evaluates them
in every run), those named above, which the theorem's statement repeats, and the installed library's
theorems, no others.

Each inductive invariant was checked with TLC as an invariant of small instances before it was proved.

Only model-checked: liveness, which needs fairness and is out of the prover's reach
(`EveryAcceptedTaskEnds`, `StopTakesEffect`, `CancelEnds`, `CopyEnds`, `CallsReturn`,
`EveryRunIsReported`, `KeepsSearching`, `ComesToRest`, `StopEnds`, `FillsAgain`). The refinements are
proved for the safety of the abstract specifications; `TaskContract` and `UDPSearch` have no fairness.
That `MapThenSumSet` computes a sum is the library's definition, which TLC evaluates.

## 6. What the code does not do

Two disagreements of the code with its documentation have a run whose counterexample shows them:

- `cancelTask` compares its task with `mCurrentTask`, reads the field again and interrupts the
  thread, without the lock `run` holds: the task that is flagged and interrupted can be the next one
  (`hub_cancel_doc`, `RunnableQueueExecutor.java:98`).
- `deleteMessage` of the storage looks in `mChatsMap`, whose keys are chat ids, for the recipient and
  the sender of the message. Where these are not keys, as in the repository's only subclass
  (`CommunicationlogicTests`, chats with a `UUID`), it finds no chat, removes the id all the same and
  returns false: the message stays in its chat and can no longer be found by its id
  (`storage_delete_doc`, `AbstractIMStorage.java:106`).

Others were met while modelling. Where a property would meet them it names them as exceptions, or
the client of the model does not go there:

- After `cancelAllTasksByListener` a listener "will not got any callback call" (`ITaskHub`); the
  code leaves `mListeners` alone, and running or posted tasks still call back.
- After an exception in a copy the partial file stays, and the next `execute` finds it and reports
  success (`DownloadTask.java:85`; `broken` in `Download`).
- `UDPBroadcastDiscovery` clears `mSenderThread` before it closes the socket of the field: a search
  started in between has its socket closed (line 147).
- The comment at `util.h:269-274` says that at most 255 headers wait, and gives the ring 256 slots.
  `encodeSideInfo2` adds a header before a bit of its frame is written (`bitstream.c:478`), so a full
  reservoir of the shortest frames has a 256th behind the one that is due: `RingIsLarge` fails by
  exactly one when frames have 24 bytes, 23 of them header and side information, that is stereo with
  a CRC. The JNI wrapper never sets the CRC, so the library does not reach this.
- `BackLoadingAdapter`: a `clear` that overtakes a load leaves the page of the old list behind the
  cleared one; an empty page on its way at a `clear` or `tryToLoadMore` ends loading for good
  (line 142); `clear()` from another thread sets `mWantToLoadMore` when the message may already have
  been handled.
- `CursorPaginationAdapter`: the loading thread overwrites a `tryToLoadMore` (line 103); a load that
  ends without rows notifies nobody, so the list waits until it is looked at.
- `UDPBroadcastReceiver.startReceiver` before the old thread has ended binds the port and throws. The
  old thread then adopts the new socket, and ends at its first packet because its interrupt flag is
  set, or leaves the port to nobody; `stopReceiver` then throws a `NullPointerException` before it
  closes, and every further `startReceiver` fails.
- `removeTask` tests the size of a listener's list and drops the list in two steps without `mLock`:
  a task added in between is lost to `cancelAllTasksByListener` and `detachFromTasks`
  (`TasksMultiplexor.java:97-99`).
- `detachFromTasks` indexes a list that the executor shrinks and so skips a task, which stays
  registered (line 126); it cannot see a list the executor has dropped.
- While one task copies, another of the same URI finds the file and reports success with a part of
  it (`DownloadTask.java:85`; `shared` in `Download`); an interrupt of the speed limit's sleep keeps
  the cancelled part (`broken`); `JavaHashFactory` gives two URIs of one hash one file; the cancel of
  a `DownloadAndDecodeImage` does not reach its copy (so `CancelEnds` leaves `Images` out).
- Below ten bytes a second the budget of a slot is 0: a limited input ends the copy at its first
  read as if the source were empty, a limited output calls itself once per slot until the stack is
  full. `prevTotal` in `StreamHelper.copy` is never written, so beyond the first 10 kB every buffer
  is reported.
- A message marked as read twice is counted off twice (`CounterIsRight` and `UnreadIsCount` name the
  case); calls on a chat beside a `setMessages` synchronize on two objects and lose a count; two
  `setMessages` of which one sets a list the chat has or had before can wait for each other's monitor
  for ever (`CrossedSets`, the exception of `CallsReturn`); `removeAllChats` keeps `mMessagesMap`;
  `deleteMessage` returns true for a message that is in neither of the chats it finds; a message kept in two chats and marked in one stays unread in the
  other (so `Home` in the run is one chat per message).
- A `stopDiscovery` before the sender thread has begun is overwritten. Two threads in `startDiscovery`
  at once, as the loader's main and timer thread can be, start two searches over one set of fields
  (`clashed`). A sender that was started while the one before it cleared its fields may find
  `mReceiverThread` null and die (lines 117 and 138), with `mSenderThread` set: every further
  `startDiscovery` throws and the loader never searches again. A `SocketException` of a start is logged
  by the loader, which then has no timer and no search; thrown by `setSoTimeout`, it leaves the socket
  open. These are the exceptions of `KeepsSearching` and `EveryRunIsReported`.
- `restartDiscovery` of the loader during a search stops it and starts none, and the next one comes
  from the timer.

## 7. Not modelled

The components of the inventory without a module are listed with their reasons in `PROJECT.json`;
the plan names those that are still to come. Left out for good: views, dialogs, activities, fonts
and settings (state that Android owns), the camera and the encoders (calls into Android and native
code), trees and injected rows (functions of a position), the sketches and the demo application
(users of the library), the Dropbox fragment.

Most of the repository's lines are vendored C: libjpeg and LAME's psychoacoustics, filters,
quantisation, Huffman coding and decoder. They are numerical and sequential; their correctness is
about numbers and tables, and a model of them would be a transliteration. Of LAME, the part that is a
protocol between pieces of code, the bit reservoir and its writer, is modelled.

Inside the modelled parts: wording, logging, progress percentages, the order of the device list in
`UDPScannerLoader`, the schemes `StreamHelper.getStream` knows, `FileCache.getFileOutputStream`,
torn non-volatile reads (but for the flags of `CursorPaginationAdapter`) and torn collections; in
`LameReservoir` the average-bit-rate and the old variable-bit-rate loops, free format, what the bits
say, and `copy_buffer`.

------------------------------ MODULE Download ------------------------------
(***************************************************************************)
(* Downloads into the file cache: DownloadTask (and its subclass           *)
(* CacheHTTPFile), the copy loop of StreamHelper, FileCache, and           *)
(* DownloadAndDecodeImage, which downloads with a DownloadTask of its own  *)
(* and decodes the cached file.                                            *)
(*                                                                         *)
(* Files are inodes: FileOutputStream truncates the file that is there,    *)
(* delete takes away the name only, and a stream that is open goes on      *)
(* writing to its inode at its own offset.  A resource is Size buffers of  *)
(* data; a buffer in a file is named by the URI it came from.              *)
(***************************************************************************)
EXTENDS Naturals, Sequences, FiniteSets

CONSTANTS
  Tasks,      \* the task objects
  Images,     \* those that are DownloadAndDecodeImage
  Uris,
  UriOf,      \* the mURI of each task
  NameOf,     \* FileCache.NameFactory: the file name of each URI
  Names,
  None,       \* no file, no bitmap
  Hole,       \* what a file holds where nothing was written
  Size,       \* number of buffers in every resource
  Faults,     \* what may happen to a download, see below
  MaxRuns     \* bound: number of calls of execute

ASSUME DownloadAssumption ==
  /\ Images \subseteq Tasks /\ UriOf \in [Tasks -> Uris] /\ NameOf \in [Uris -> Names]
  /\ Size \in Nat /\ MaxRuns \in Nat /\ Hole \notin Uris /\ None \notin Nat
  (* a step of this name throws; the hub interrupts the speed limit's      *)
  (* sleep; the source does not end; the process is killed                 *)
  /\ Faults \subseteq {"source", "output", "read", "write", "close", "interrupt", "endless", "kill"}

VARIABLES
  file,      \* name -> inode, or None
  data,      \* inode -> the buffers it holds
  pc,        \* where execute is
  success,   \* mSuccess
  canceled,  \* isCanceled
  out,       \* the inode of the open output stream, or None
  pos,       \* number of buffers copied
  bitmap,    \* mBitmap: the file content it was decoded from, or None
  clearing,  \* the names clear has still to delete
  runs,      \* calls of execute so far
  (* history *)
  broken,    \* names a copy of which an exception or a kill has left
  shared     \* names that two tasks have worked on at one time

history == <<broken, shared>>
vars == <<file, data, pc, success, canceled, out, pos, bitmap, clearing, runs, history>>

Pcs == {"ready", "exists", "source", "output", "read", "write", "delete", "close", "image", "decode"}

(* The most inodes that are linked or open at one time.                     *)
Inodes == 1 .. Cardinality(Names) + Cardinality(Tasks)

Name(t) == NameOf[UriOf[t]]
Whole(u) == [i \in 1 .. Size |-> u]

Init ==
  /\ file = [n \in Names |-> None] /\ data = [i \in Inodes |-> <<>>]
  /\ pc = [t \in Tasks |-> "ready"] /\ success = [t \in Tasks |-> FALSE]
  /\ canceled = {} /\ out = [t \in Tasks |-> None] /\ pos = [t \in Tasks |-> 0]
  /\ bitmap = [t \in Tasks |-> None] /\ clearing = {} /\ runs = 0
  /\ broken = {} /\ shared = {}

GoTo(t, from, to) == pc[t] = from /\ pc' = [pc EXCEPT ![t] = to]

(* execute leaves through an exception; its streams stay open, unused.      *)
Leave(t, from) ==
  /\ GoTo(t, from, "ready")
  /\ out' = [out EXCEPT ![t] = None]

Fail(t, from) == from \in Faults /\ Leave(t, from)

(* A DownloadAndDecodeImage goes on when its DownloadTask has returned.     *)
AfterDownload(t) == IF t \in Images THEN "image" ELSE "ready"

-----------------------------------------------------------------------------
(* DownloadTask.execute                                                     *)

Execute(t) ==
  /\ GoTo(t, "ready", "exists")
  /\ runs < MaxRuns /\ runs' = runs + 1
  /\ success' = [success EXCEPT ![t] = FALSE]
  /\ shared' = IF \E u \in Tasks \ {t} : pc[u] # "ready" /\ Name(u) = Name(t)
                 THEN shared \cup {Name(t)} ELSE shared
  /\ UNCHANGED <<file, data, canceled, out, pos, bitmap, clearing, broken>>

(* Mutant: the file is fetched again although it is there.                  *)
TestExistsNever(t) ==
  /\ GoTo(t, "exists", "source")
  /\ UNCHANGED <<file, data, success, canceled, out, pos, bitmap, clearing, runs, history>>

TestExists(t) ==
  /\ IF file[Name(t)] # None
       THEN GoTo(t, "exists", AfterDownload(t)) /\ success' = [success EXCEPT ![t] = TRUE]
       ELSE GoTo(t, "exists", "source") /\ UNCHANGED success
  /\ UNCHANGED <<file, data, canceled, out, pos, bitmap, clearing, runs, history>>

OpenSource(t) ==
  /\ \/ GoTo(t, "source", "output") /\ UNCHANGED out
     \/ Fail(t, "source")
  /\ UNCHANGED <<file, data, success, canceled, pos, bitmap, clearing, runs, history>>

(* An inode that is neither linked nor open (the first of them).            *)
Free(i) == (\A n \in Names : file[n] # i) /\ (\A u \in Tasks : out[u] # i)
NewInode == {i \in Inodes : Free(i) /\ \A j \in Inodes : Free(j) => i <= j}

(* Mutant: the copy goes on where the last one of this task ended.          *)
OpenOutputKeepsPos(t) ==
  /\ \/ /\ GoTo(t, "output", "read")
        /\ \E i \in IF file[Name(t)] # None THEN {file[Name(t)]} ELSE NewInode :
             /\ file' = [file EXCEPT ![Name(t)] = i]
             /\ data' = [data EXCEPT ![i] = <<>>]
             /\ out' = [out EXCEPT ![t] = i]
     \/ Fail(t, "output") /\ UNCHANGED <<file, data>>
  /\ UNCHANGED <<success, canceled, pos, bitmap, clearing, runs, history>>

(* new FileOutputStream(mCachedFile): the file is created, or truncated.    *)
OpenOutput(t) ==
  /\ \/ /\ GoTo(t, "output", "read")
        /\ \E i \in IF file[Name(t)] # None THEN {file[Name(t)]} ELSE NewInode :
             /\ file' = [file EXCEPT ![Name(t)] = i]
             /\ data' = [data EXCEPT ![i] = <<>>]
             /\ out' = [out EXCEPT ![t] = i]
        /\ pos' = [pos EXCEPT ![t] = 0]
     \/ Fail(t, "output") /\ UNCHANGED <<file, data, pos>>
  /\ UNCHANGED <<success, canceled, bitmap, clearing, runs, history>>

(* input.read: the next buffer, or the end of the source.                   *)
ReadBuffer(t) ==
  /\ \/ /\ pos[t] < Size \/ "endless" \in Faults
        /\ GoTo(t, "read", "write")
        /\ UNCHANGED <<success, out, broken>>
     \/ /\ pos[t] = Size
        /\ GoTo(t, "read", "close")
        /\ success' = [success EXCEPT ![t] = TRUE]
        /\ UNCHANGED <<out, broken>>
     \/ /\ Fail(t, "read")
        /\ broken' = broken \cup {Name(t)}
        /\ UNCHANGED success
  /\ UNCHANGED <<file, data, canceled, pos, bitmap, clearing, runs, shared>>

(* The content of a file after a buffer of u was written behind the first k *)
Put(s, k, u) ==
  [i \in 1 .. (IF Len(s) > k THEN Len(s) ELSE k + 1) |->
     IF i = k + 1 THEN u ELSE IF i <= Len(s) THEN s[i] ELSE Hole]

(* A DownloadAndDecodeImage does not pass cancel on to its DownloadTask.    *)
CopyCanceled(t) == t \in canceled /\ t \notin Images

(* Mutant: the cancel flag is not looked at.                                *)
WriteBufferDeaf(t) ==
  /\ GoTo(t, "write", "read")
  /\ IF pos[t] < Size
       THEN /\ data' = [data EXCEPT ![out[t]] = Put(@, pos[t], UriOf[t])]
            /\ pos' = [pos EXCEPT ![t] = @ + 1]
       ELSE UNCHANGED <<data, pos>>
  /\ UNCHANGED <<file, success, canceled, out, bitmap, clearing, runs, history>>

(* output.write and, behind it, the test of the cancel flag.  What a source *)
(* gives behind its Size buffers is not kept.  A write that sleeps for its speed   *)
(* limit is interrupted by the hub when it cancels the task: IOException.   *)
WriteBuffer(t) ==
  /\ \/ /\ GoTo(t, "write", IF CopyCanceled(t) THEN "delete" ELSE "read")
        /\ IF pos[t] < Size
             THEN /\ data' = [data EXCEPT ![out[t]] = Put(@, pos[t], UriOf[t])]
                  /\ pos' = [pos EXCEPT ![t] = @ + 1]
             ELSE UNCHANGED <<data, pos>>
        /\ UNCHANGED <<out, broken>>
     \/ /\ Fail(t, "write") \/ ("interrupt" \in Faults /\ CopyCanceled(t) /\ Leave(t, "write"))
        /\ broken' = broken \cup {Name(t)}
        /\ UNCHANGED <<data, pos>>
  /\ UNCHANGED <<file, success, canceled, bitmap, clearing, runs, shared>>

(* Mutant: the cancelled download is not removed.                           *)
DeleteNothing(t) ==
  /\ GoTo(t, "delete", "close")
  /\ success' = [success EXCEPT ![t] = FALSE]
  /\ UNCHANGED <<file, data, canceled, out, pos, bitmap, clearing, runs, history>>

(* "task was canceled, we should remove file"                               *)
Delete(t) ==
  /\ GoTo(t, "delete", "close")
  /\ file' = [file EXCEPT ![Name(t)] = None]
  /\ success' = [success EXCEPT ![t] = FALSE]
  /\ UNCHANGED <<data, canceled, out, pos, bitmap, clearing, runs, history>>

CloseStreams(t) ==
  /\ \/ GoTo(t, "close", AfterDownload(t)) /\ out' = [out EXCEPT ![t] = None]
     \/ Fail(t, "close")
  /\ UNCHANGED <<file, data, success, canceled, pos, bitmap, clearing, runs, history>>

-----------------------------------------------------------------------------
(* DownloadAndDecodeImage.execute behind the download, LoadBitmapTask       *)

CheckCanceled(t) ==
  /\ GoTo(t, "image", IF t \in canceled THEN "ready" ELSE "decode")
  /\ UNCHANGED <<file, data, success, canceled, out, pos, bitmap, clearing, runs, history>>

(* decodeFile gives null when there is no file.                             *)
Decode(t) ==
  /\ GoTo(t, "decode", "ready")
  /\ bitmap' = IF t \in canceled THEN bitmap
               ELSE [bitmap EXCEPT ![t] = IF file[Name(t)] = None THEN None ELSE data[file[Name(t)]]]
  /\ UNCHANGED <<file, data, success, canceled, out, pos, clearing, runs, history>>

-----------------------------------------------------------------------------
(* cancel, FileCache.clear and remove, the end of the process               *)

(* cancel sets isCanceled, and nothing resets it.                           *)
Cancel(t) ==
  /\ canceled' = canceled \cup {t}
  /\ UNCHANGED <<file, data, pc, success, out, pos, bitmap, clearing, runs, history>>

Remove(n) ==
  /\ file' = [file EXCEPT ![n] = None]
  /\ UNCHANGED <<data, pc, success, canceled, out, pos, bitmap, clearing, runs, history>>

(* clear: listFiles, then one delete after the other.                       *)
Clear ==
  /\ clearing = {}
  /\ clearing' = {n \in Names : file[n] # None}
  /\ UNCHANGED <<file, data, pc, success, canceled, out, pos, bitmap, runs, history>>

ClearNext(n) ==
  /\ n \in clearing
  /\ clearing' = clearing \ {n}
  /\ file' = [file EXCEPT ![n] = None]
  /\ UNCHANGED <<data, pc, success, canceled, out, pos, bitmap, runs, history>>

(* The process is killed and started again with new task objects; the cache *)
(* directory is on disk.                                                    *)
Kill ==
  /\ "kill" \in Faults
  /\ pc' = [t \in Tasks |-> "ready"] /\ success' = [t \in Tasks |-> FALSE]
  /\ canceled' = {} /\ out' = [t \in Tasks |-> None] /\ pos' = [t \in Tasks |-> 0]
  /\ bitmap' = [t \in Tasks |-> None] /\ clearing' = {}
  /\ broken' = broken \cup {Name(t) : t \in {u \in Tasks : pc[u] \in {"read", "write", "delete"}}}
  /\ UNCHANGED <<file, data, runs, shared>>

-----------------------------------------------------------------------------
TaskStep(t) ==
  \/ TestExists(t) \/ OpenSource(t) \/ OpenOutput(t) \/ ReadBuffer(t) \/ WriteBuffer(t)
  \/ Delete(t) \/ CloseStreams(t) \/ CheckCanceled(t) \/ Decode(t)

Next ==
  \/ \E t \in Tasks : Execute(t) \/ TaskStep(t) \/ Cancel(t)
  \/ \E n \in Names : Remove(n) \/ ClearNext(n)
  \/ Clear \/ Kill

(* The thread of a task is scheduled, and its source answers every read:    *)
(* StreamHelper sets no timeout, so a silent server would stop execute.     *)
Spec == Init /\ [][Next]_vars /\ \A t \in Tasks : WF_vars(TaskStep(t))

-----------------------------------------------------------------------------
(* Every variable has the type the code gives it; a task that copies has an *)
(* open output.                                                             *)
TypeOK ==
  /\ file \in [Names -> Inodes \cup {None}] /\ data \in [Inodes -> Seq(Uris \cup {Hole})]
  /\ pc \in [Tasks -> Pcs] /\ success \in [Tasks -> BOOLEAN] /\ canceled \subseteq Tasks
  /\ out \in [Tasks -> Inodes \cup {None}] /\ pos \in [Tasks -> 0 .. Size]
  /\ bitmap \in [Tasks -> Seq(Uris \cup {Hole}) \cup {None}]
  /\ clearing \subseteq Names /\ runs \in 0 .. MaxRuns
  /\ broken \subseteq Names /\ shared \subseteq Names
  /\ \A t \in Tasks : pc[t] \in {"read", "write", "delete", "close"} => out[t] # None

HasWhole(t) == file[Name(t)] # None /\ data[file[Name(t)]] = Whole(UriOf[t])

(* When no task is running, every cached file is a whole file, unless an    *)
(* exception or a kill has left a copy of it: cancelled downloads leave     *)
(* nothing behind, even those that copy into one file at the same time.     *)
RestIsWhole ==
  (\A t \in Tasks : pc[t] = "ready")
    => \A n \in Names \ broken :
         file[n] # None => \E u \in Uris : NameOf[u] = n /\ data[file[n]] = Whole(u)

(* A task that reports success has a whole file of its URI in the cache,    *)
(* unless the file was removed while it ran.                                *)
SuccessIsWhole ==
  [][\A t \in Tasks :
       (pc[t] \in {"exists", "close"} /\ pc'[t] # pc[t] /\ success'[t])
         => \/ file'[Name(t)] = None \/ HasWhole(t)'
            \/ Name(t) \in broken' \cup shared']_vars

(* A bitmap is decoded from a whole file of the task's URI, or is null.     *)
BitmapIsWhole ==
  [][\A t \in Tasks :
       pc[t] = "decode" => \/ bitmap'[t] \in {bitmap[t], None, Whole(UriOf[t])}
                           \/ Name(t) \in broken' \cup shared']_vars

(* A whole file stays what it is until it is removed, and no source is      *)
(* opened for it again, unless two tasks work on it at one time.            *)
WholeIsKept ==
  [][\A t \in Tasks : HasWhole(t) /\ Name(t) \notin shared' =>
       /\ file'[Name(t)] = None \/ HasWhole(t)'
       /\ \A u \in Tasks : Name(u) = Name(t) => ~(pc[u] = "exists" /\ pc'[u] = "source")]_vars

(* A file holds data of the URIs of its name only, each buffer at its       *)
(* place: what is missing is missing at the end, or is a hole that a task   *)
(* which is still copying is about to fill or to delete.  It holds for      *)
(* tasks that overlap, and for tasks that fail, but not for both at once.   *)
HolesAreFilled ==
  \A n \in Names \ (broken \cap shared) : file[n] # None =>
    \A i \in DOMAIN data[file[n]] :
      \/ data[file[n]][i] \in {u \in Uris : NameOf[u] = n}
      \/ \E t \in Tasks : pc[t] \in {"read", "write", "delete"} /\ out[t] = file[n] /\ pos[t] < i

(* The files are whole at rest and sound in between, with the streams the   *)
(* tasks hold open.                                                         *)
FilesAreWhole == TypeOK /\ RestIsWhole /\ HolesAreFilled

(* What a task hands on is whole: its success and its bitmap.               *)
ResultsAreWhole == SuccessIsWhole /\ BitmapIsWhole

(* A cancelled DownloadTask comes to an end even if its source does not.    *)
CancelEnds == \A t \in Tasks \ Images : t \in canceled ~> pc[t] = "ready"

=============================================================================

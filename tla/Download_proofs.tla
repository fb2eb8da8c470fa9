--------------------------- MODULE Download_proofs ---------------------------
(***************************************************************************)
(* Proofs about Download, for every number of tasks, every size of the     *)
(* resources and every choice of faults.  That a file is whole, and not    *)
(* only made of buffers that belong there, needs URIs of different names   *)
(* (OneNameEach): MD5CacheFactory gives them in practice, the 32 bits of   *)
(* JavaHashFactory, the default, need not.                                 *)
(***************************************************************************)
EXTENDS Download, SequenceTheorems, TLAPS

OneNameEach == \A u, v \in Uris : NameOf[u] = NameOf[v] => u = v

Copying == {"read", "write", "delete"}
Writes(t, i) == pc[t] \in Copying /\ out[t] = i
Of(n) == {u \in Uris : NameOf[u] = n}

(* An inode has one name at most, in the directory and for the streams.     *)
LinksInv ==
  /\ \A n, m \in Names : file[n] # None /\ file[n] = file[m] => n = m
  /\ \A n \in Names, t \in Tasks : out[t] # None /\ file[n] = out[t] => n = Name(t)
  /\ \A t, u \in Tasks : out[t] # None /\ out[t] = out[u] => Name(t) = Name(u)

(* shared has the names two tasks work on; a task that works alone on its   *)
(* name and found no file there has none until it makes one.                *)
AlonePart == \A t, u \in Tasks :
  t # u /\ Name(t) = Name(u) /\ pc[t] # "ready" /\ pc[u] # "ready" => Name(t) \in shared
AbsentPart == \A t \in Tasks :
  pc[t] \in {"source", "output"} /\ Name(t) \notin shared => file[Name(t)] = None
SharedInv == AlonePart /\ AbsentPart

(* What is missing in a file is missing because a task that copies into it  *)
(* has not got there; a task that works alone leaves no holes.              *)
ContentInv(n) ==
  file[n] # None =>
    /\ Of(n) # {}
    /\ n \notin broken =>
         \A p \in 1 .. Size : \/ p <= Len(data[file[n]]) /\ data[file[n]][p] \in Of(n)
                              \/ \E t \in Tasks : Writes(t, file[n]) /\ pos[t] < p
    /\ n \notin shared =>
         /\ \A p \in 1 .. Len(data[file[n]]) : data[file[n]][p] \in Of(n)
         /\ \A t \in Tasks : Writes(t, file[n]) => pos[t] <= Len(data[file[n]])

SizeInv == \A i \in Inodes : Len(data[i]) <= Size

IInv == TypeOK /\ LinksInv /\ SharedInv /\ (\A n \in Names : ContentInv(n)) /\ SizeInv
-----------------------------------------------------------------------------
(* Helpers                                                                  *)

LEMMA NameFacts ==
  /\ \A t \in Tasks : Name(t) \in Names /\ UriOf[t] \in Uris /\ UriOf[t] \in Of(Name(t))
  /\ None \notin Inodes
  BY DownloadAssumption DEF Name, Of, Inodes

(* What a file holds after one write: the buffer is in its place, what was  *)
(* there stays, and only a gap in front of the buffer becomes a hole.       *)
LEMMA PutFacts ==
  ASSUME NEW s \in Seq(Uris \cup {Hole}), NEW k \in Nat, NEW u \in Uris
  PROVE  /\ Put(s, k, u) \in Seq(Uris \cup {Hole})
         /\ Len(Put(s, k, u)) = IF Len(s) > k THEN Len(s) ELSE k + 1
         /\ \A p \in 1 .. Len(Put(s, k, u)) :
              Put(s, k, u)[p] = IF p = k + 1 THEN u ELSE IF p <= Len(s) THEN s[p] ELSE Hole
<1> DEFINE m == IF Len(s) > k THEN Len(s) ELSE k + 1
           E(i) == IF i = k + 1 THEN u ELSE IF i <= Len(s) THEN s[i] ELSE Hole
<1>1. m \in Nat
  BY LenProperties
<1>2. Put(s, k, u) = [i \in 1 .. m |-> E(i)]
  BY DEF Put
<1>3. ASSUME NEW i \in 1 .. m PROVE E(i) \in Uris \cup {Hole}
  BY <1>1, LenProperties, ElementOfSeq
<1> HIDE DEF m, E
<1>4. Put(s, k, u) \in Seq(Uris \cup {Hole}) /\ Len(Put(s, k, u)) = m
  BY <1>1, <1>2, <1>3, IsASeq, LenProperties
<1> QED
  BY <1>2, <1>4 DEF m, E

-----------------------------------------------------------------------------
(* Types                                                                    *)
LEMMA TypeStep == TypeOK /\ [Next]_vars => TypeOK'
<1> SUFFICES ASSUME TypeOK, [Next]_vars PROVE TypeOK'
  OBVIOUS
<1> USE DownloadAssumption, NameFacts DEF TypeOK, history, GoTo
<1>1. ASSUME NEW t \in Tasks, Execute(t) PROVE TypeOK'
  <2>1. runs + 1 \in 0 .. MaxRuns
    BY <1>1 DEF Execute
  <2> QED
    BY <1>1, <2>1 DEF Execute, Pcs
<1>2. ASSUME NEW t \in Tasks, TestExists(t) PROVE TypeOK'
  BY ZenonT(60), <1>2 DEF TestExists, Pcs, AfterDownload
<1>3. ASSUME NEW t \in Tasks, OpenSource(t) PROVE TypeOK'
  BY ZenonT(60), <1>3 DEF OpenSource, Pcs, Fail, Leave
<1>4. ASSUME NEW t \in Tasks, OpenOutput(t) PROVE TypeOK'
  <2>1. CASE Fail(t, "output") /\ UNCHANGED <<file, data, pos>>
    BY <1>4, <2>1 DEF OpenOutput, Pcs, Fail, Leave
  <2>2. ASSUME NEW i \in Inodes, GoTo(t, "output", "read"), file' = [file EXCEPT ![Name(t)] = i],
               data' = [data EXCEPT ![i] = <<>>], out' = [out EXCEPT ![t] = i], pos' = [pos EXCEPT ![t] = 0]
        PROVE  TypeOK'
    <3>1. <<>> \in Seq(Uris \cup {Hole}) /\ 0 \in 0 .. Size
      BY EmptySeq
    <3> QED
      BY <1>4, <2>2, <3>1 DEF OpenOutput, Pcs
  <2> QED
    BY <1>4, <2>1, <2>2 DEF OpenOutput, NewInode
<1>5. ASSUME NEW t \in Tasks, ReadBuffer(t) PROVE TypeOK'
  BY ZenonT(60), <1>5 DEF ReadBuffer, Pcs, Fail, Leave
<1>6. ASSUME NEW t \in Tasks, WriteBuffer(t) PROVE TypeOK'
  <2>1. CASE UNCHANGED <<data, pos>>
    BY ZenonT(60), <1>6, <2>1 DEF WriteBuffer, Pcs, Fail, Leave
  <2>2. CASE /\ GoTo(t, "write", IF CopyCanceled(t) THEN "delete" ELSE "read")
             /\ pos[t] < Size /\ data' = [data EXCEPT ![out[t]] = Put(@, pos[t], UriOf[t])]
             /\ pos' = [pos EXCEPT ![t] = @ + 1] /\ UNCHANGED <<out, broken>>
    <3>1. out[t] \in Inodes /\ data[out[t]] \in Seq(Uris \cup {Hole}) /\ pos[t] \in Nat
      BY <2>2
    <3>2. Put(data[out[t]], pos[t], UriOf[t]) \in Seq(Uris \cup {Hole})
      BY <3>1, PutFacts
    <3>3. pos[t] + 1 \in 0 .. Size
      BY <2>2
    <3>4. /\ data' \in [Inodes -> Seq(Uris \cup {Hole})] /\ pos' \in [Tasks -> 0 .. Size]
          /\ pc' \in [Tasks -> Pcs]
      BY <2>2, <3>1, <3>2, <3>3 DEF Pcs
    <3> QED
      BY <1>6, <2>2, <3>4 DEF WriteBuffer
  <2> QED
    BY <1>6, <2>1, <2>2 DEF WriteBuffer
<1>7. ASSUME NEW t \in Tasks, Delete(t) PROVE TypeOK'
  BY <1>7 DEF Delete, Pcs
<1>8. ASSUME NEW t \in Tasks, CloseStreams(t) PROVE TypeOK'
  BY ZenonT(60), <1>8 DEF CloseStreams, Pcs, Fail, Leave, AfterDownload
<1>9. ASSUME NEW t \in Tasks, CheckCanceled(t) \/ Cancel(t) PROVE TypeOK'
  BY SMTT(30), <1>9 DEF CheckCanceled, Cancel, Pcs
<1>10. ASSUME NEW t \in Tasks, Decode(t) PROVE TypeOK'
  BY <1>10 DEF Decode, Pcs
<1>11. ASSUME NEW n \in Names, Remove(n) \/ ClearNext(n) PROVE TypeOK'
  BY <1>11 DEF Remove, ClearNext
<1>12. CASE Clear
  BY <1>12 DEF Clear
<1>13. CASE Kill
  <2>1. 0 \in 0 .. Size /\ "ready" \in Pcs
    BY DEF Pcs
  <2>2. broken' \subseteq Names
    BY <1>13 DEF Kill
  <2> QED
    BY <1>13, <2>1, <2>2 DEF Kill
<1>14. CASE UNCHANGED vars
  BY <1>14 DEF vars
<1> QED
  BY <1>1, <1>2, <1>3, <1>4, <1>5, <1>6, <1>7, <1>8, <1>9, <1>10, <1>11, <1>12, <1>13, <1>14 DEF Next, TaskStep

-----------------------------------------------------------------------------
(* The inductive invariant                                                  *)

(* A step that opens nothing and writes nothing keeps it, as long as a task *)
(* that stops copying has written all, has its file deleted or leaves a     *)
(* broken name behind.                                                      *)
LEMMA QuietStep ==
  ASSUME IInv, TypeOK', data' = data, SharedInv',
         broken \subseteq broken', shared \subseteq shared',
         \A n \in Names : file'[n] \in {file[n], None},
         \A t \in Tasks : out'[t] \in {out[t], None},
         \A t \in Tasks : pc'[t] \in Copying => pc[t] \in Copying /\ pos'[t] = pos[t],
         \A t \in Tasks : pc[t] \in Copying /\ pos[t] < Size =>
           \/ pc'[t] \in Copying /\ out'[t] = out[t] /\ pos'[t] = pos[t]
           \/ file'[Name(t)] = None \/ Name(t) \in broken'
  PROVE  IInv'
<1>1. LinksInv'
  BY DEF IInv, LinksInv, Name
<1>2. ASSUME NEW n \in Names, file'[n] # None PROVE ContentInv(n)'
  <2>1. file'[n] = file[n] /\ file[n] # None /\ ContentInv(n)
    BY <1>2 DEF IInv
  <2>2. ASSUME n \notin broken', NEW p \in 1 .. Size
        PROVE  \/ p <= Len(data[file[n]]) /\ data[file[n]][p] \in Of(n)
               \/ \E t \in Tasks : Writes(t, file[n])' /\ pos'[t] < p
    <3>1. CASE \E t \in Tasks : Writes(t, file[n]) /\ pos[t] < p
      <4>1. PICK t \in Tasks : Writes(t, file[n]) /\ pos[t] < p
        BY <3>1
      <4>2. Name(t) = n
        BY <2>1, <4>1 DEF IInv, LinksInv, Writes
      <4>3. pos[t] < Size
        BY <4>1, DownloadAssumption DEF IInv, TypeOK
      <4>4. pc'[t] \in Copying /\ out'[t] = out[t] /\ pos'[t] = pos[t]
        BY <2>1, <2>2, <4>1, <4>2, <4>3 DEF Writes
      <4> QED
        BY <2>1, <4>1, <4>4 DEF Writes
    <3> QED
      BY <2>1, <2>2, <3>1 DEF ContentInv
  <2>3. ASSUME NEW t \in Tasks, Writes(t, file[n])' PROVE Writes(t, file[n]) /\ pos'[t] = pos[t]
    BY <2>1, <2>3 DEF Writes
  <2> QED
    BY <2>1, <2>2, <2>3 DEF ContentInv, Writes, Of
<1>3. SizeInv'
  BY DEF IInv, SizeInv
<1> QED
  BY <1>1, <1>2, <1>3 DEF IInv, ContentInv

(* No task begins to work on a name and no file comes up.                   *)
LEMMA SharedFrame ==
  ASSUME IInv, shared \subseteq shared',
         \A n \in Names : file'[n] \in {file[n], None},
         \A t \in Tasks : pc'[t] # "ready" => pc[t] # "ready",
         \A t \in Tasks : pc'[t] \in {"source", "output"} =>
           pc[t] \in {"source", "output"} \/ file[Name(t)] = None
  PROVE  SharedInv'
<1>1. \A t \in Tasks : file'[Name(t)] \in {file[Name(t)], None} /\ Name(t)' = Name(t)
  BY NameFacts DEF Name
<1>2. AlonePart'
  BY <1>1 DEF IInv, SharedInv, AlonePart
<1>3. AbsentPart'
  BY <1>1 DEF IInv, SharedInv, AbsentPart
<1> QED
  BY <1>2, <1>3 DEF SharedInv

(* Opening the output, the step that makes or truncates a file.             *)
LEMMA OpenStep ==
  ASSUME IInv, TypeOK', NEW t \in Tasks, NEW i \in Inodes,
         i = file[Name(t)] \/ (file[Name(t)] = None /\ Free(i)),
         pc[t] = "output", pc' = [pc EXCEPT ![t] = "read"],
         file' = [file EXCEPT ![Name(t)] = i], data' = [data EXCEPT ![i] = <<>>],
         out' = [out EXCEPT ![t] = i], pos' = [pos EXCEPT ![t] = 0], UNCHANGED <<broken, shared>>
  PROVE  IInv'
<1> USE NameFacts
<1>a. TypeOK /\ LinksInv /\ AlonePart /\ AbsentPart /\ SizeInv
  BY DEF IInv, SharedInv
<1>b. i # None /\ Name(t) \in Names /\ \A u \in Tasks : Name(u)' = Name(u)
  BY DEF Name
<1>c. /\ file'[Name(t)] = i /\ \A n \in Names \ {Name(t)} : file'[n] = file[n]
      /\ data'[i] = <<>> /\ \A j \in Inodes \ {i} : data'[j] = data[j]
      /\ out'[t] = i /\ pos'[t] = 0 /\ pc'[t] = "read"
      /\ \A u \in Tasks \ {t} : out'[u] = out[u] /\ pos'[u] = pos[u] /\ pc'[u] = pc[u]
  BY <1>a, <1>b DEF TypeOK
<1>1. /\ \A n \in Names \ {Name(t)} : file[n] # i
      /\ \A u \in Tasks : out[u] = i => Name(u) = Name(t)
  BY <1>a, <1>b DEF LinksInv, Free
<1>2. LinksInv'
  BY <1>a, <1>b, <1>c, <1>1 DEF LinksInv
<1>3. AlonePart'
  BY <1>a, <1>b, <1>c DEF AlonePart
<1>4. AbsentPart'
  <2> SUFFICES ASSUME NEW u \in Tasks, pc'[u] \in {"source", "output"}, Name(u) \notin shared
               PROVE  file'[Name(u)] = None
    BY <1>b DEF AbsentPart
  <2>1. u # t /\ pc[u] \in {"source", "output"}
    BY <1>c
  <2>2. Name(u) # Name(t) /\ Name(u) \in Names
    BY <1>a, <2>1 DEF AlonePart
  <2> QED
    BY <1>a, <1>c, <2>1, <2>2 DEF AbsentPart
<1>5. ASSUME NEW n \in Names, n # Name(t), file'[n] # None PROVE ContentInv(n)'
  <2>1. file'[n] = file[n] /\ file[n] # i /\ file[n] \in Inodes /\ data'[file[n]] = data[file[n]]
    BY <1>5, <1>1, <1>a, <1>c DEF TypeOK
  <2>2. \A u \in Tasks : Writes(u, file[n])' <=> u # t /\ Writes(u, file[n])
    BY <1>c, <2>1 DEF Writes
  <2>3. \A u \in Tasks : Writes(u, file[n]) => u # t
    BY DEF Writes, Copying
  <2>4. ContentInv(n)
    BY DEF IInv
  <2> QED
    BY <1>5, <1>c, <2>1, <2>2, <2>3, <2>4 DEF ContentInv, Writes, Of
<1>6. ContentInv(Name(t))'
  <2>1. Len(<<>>) = 0 /\ Writes(t, i)'
    BY <1>c DEF Writes, Copying
  <2>2. \A p \in 1 .. Size : Writes(t, i)' /\ pos'[t] < p
    BY <1>c, <2>1
  <2>3. ASSUME NEW u \in Tasks, Writes(u, i)', Name(t) \notin shared PROVE u = t
    <3>1. u # t => Name(u) = Name(t) /\ pc[u] # "ready"
      BY <1>1, <1>c, <2>3 DEF Writes, Copying
    <3> QED
      BY <1>a, <2>3, <3>1 DEF AlonePart
  <2>4. Of(Name(t)) # {}
    OBVIOUS
  <2> QED
    BY <1>b, <1>c, <2>1, <2>2, <2>3, <2>4 DEF ContentInv, Writes, Of
<1>7. SizeInv'
  <2>1. Len(<<>>) <= Size
    BY DownloadAssumption
  <2> QED
    BY <1>a, <1>c, <2>1 DEF SizeInv
<1> QED
  BY <1>2, <1>3, <1>4, <1>5, <1>6, <1>7 DEF IInv, SharedInv, ContentInv

(* Writing a buffer.                                                        *)
LEMMA WriteStep ==
  ASSUME IInv, TypeOK', NEW t \in Tasks, pc[t] = "write", pos[t] < Size,
         NEW to \in {"read", "delete"}, pc' = [pc EXCEPT ![t] = to],
         data' = [data EXCEPT ![out[t]] = Put(@, pos[t], UriOf[t])],
         pos' = [pos EXCEPT ![t] = @ + 1], UNCHANGED <<file, out, broken, shared>>
  PROVE  IInv'
<1> USE NameFacts
<1>a. TypeOK /\ LinksInv /\ AlonePart /\ AbsentPart /\ SizeInv
  BY DEF IInv, SharedInv
<1> DEFINE i == out[t]
           d == data[i]
           e == Put(d, pos[t], UriOf[t])
<1>b. i \in Inodes /\ i # None /\ d \in Seq(Uris \cup {Hole}) /\ pos[t] \in Nat /\ Len(d) \in Nat
  BY <1>a, LenProperties DEF TypeOK
<1>c. /\ Len(e) = IF Len(d) > pos[t] THEN Len(d) ELSE pos[t] + 1
      /\ \A p \in 1 .. Len(e) :
           e[p] = IF p = pos[t] + 1 THEN UriOf[t] ELSE IF p <= Len(d) THEN d[p] ELSE Hole
  <2>1. PICK k \in Nat, f \in Seq(Uris \cup {Hole}), u \in Uris : k = pos[t] /\ f = d /\ u = UriOf[t]
    BY <1>b
  <2>2. e = Put(f, k, u)
    BY <2>1
  <2> HIDE DEF d, e
  <2>3. Len(Put(f, k, u)) = IF Len(f) > k THEN Len(f) ELSE k + 1
    BY PutFacts
  <2>4. \A p \in 1 .. Len(Put(f, k, u)) :
          Put(f, k, u)[p] = IF p = k + 1 THEN u ELSE IF p <= Len(f) THEN f[p] ELSE Hole
    BY PutFacts
  <2> QED
    BY <2>1, <2>2, <2>3, <2>4
<1>d. /\ data'[i] = e /\ \A j \in Inodes \ {i} : data'[j] = data[j]
      /\ pos'[t] = pos[t] + 1 /\ \A u \in Tasks \ {t} : pos'[u] = pos[u]
      /\ \A u \in Tasks : pc'[u] = pc[u] \/ (u = t /\ {pc[u], pc'[u]} \subseteq Copying)
      /\ \A u \in Tasks : \A j : Writes(u, j)' <=> Writes(u, j)
  BY <1>a, <1>b DEF TypeOK, Writes, Copying
<1> HIDE DEF e
<1>1. LinksInv'
  BY <1>a DEF LinksInv, Name
<1>2. SharedInv'
  BY <1>d, SharedFrame DEF Copying
<1>3. SizeInv'
  BY <1>a, <1>b, <1>c, <1>d DEF SizeInv, TypeOK
<1>4. ASSUME NEW n \in Names, file[n] # None, file[n] # i PROVE ContentInv(n)'
  <2>1. \A u \in Tasks : Writes(u, file[n]) => u # t
    BY <1>4 DEF Writes
  <2>2. file[n] \in Inodes /\ data'[file[n]] = data[file[n]] /\ ContentInv(n)
    BY <1>4, <1>a, <1>d DEF IInv, TypeOK
  <2> QED
    BY <1>4, <1>d, <2>1, <2>2 DEF ContentInv, Of
<1>5. ASSUME NEW n \in Names, file[n] = i PROVE ContentInv(n)'
  <2>1. n = Name(t) /\ UriOf[t] \in Of(n) /\ ContentInv(n) /\ Writes(t, i)
    BY <1>5, <1>a, <1>b DEF IInv, LinksInv, Writes, Copying
  <2>2. ASSUME n \notin broken, NEW p \in 1 .. Size
        PROVE  \/ p <= Len(e) /\ e[p] \in Of(n)
               \/ \E u \in Tasks : Writes(u, i)' /\ pos'[u] < p
    <3>1. CASE p = pos[t] + 1
      BY <1>b, <1>c, <2>1, <3>1
    <3>2. CASE p # pos[t] + 1 /\ p <= Len(d) /\ d[p] \in Of(n)
      BY <1>b, <1>c, <2>1, <3>2
    <3>3. ASSUME p # pos[t] + 1, NEW u \in Tasks, Writes(u, i), pos[u] < p
          PROVE  Writes(u, i)' /\ pos'[u] < p
      BY <1>b, <1>d, <3>3
    <3> QED
      BY <1>b, <1>5, <2>1, <2>2, <3>1, <3>2, <3>3 DEF ContentInv
  <2>3. ASSUME n \notin shared
        PROVE  /\ \A p \in 1 .. Len(e) : e[p] \in Of(n)
               /\ \A u \in Tasks : Writes(u, i)' => pos'[u] <= Len(e)
    <3>1. pos[t] <= Len(d) /\ \A p \in 1 .. Len(d) : d[p] \in Of(n)
      BY <1>b, <1>5, <2>1, <2>3 DEF ContentInv
    <3>2. ASSUME NEW p \in 1 .. Len(e) PROVE e[p] \in Of(n)
      BY <1>b, <1>c, <2>1, <3>1
    <3>3. ASSUME NEW u \in Tasks, Writes(u, i)' PROVE u = t
      <4>1. Writes(u, i) /\ pc[u] # "ready" /\ Name(u) = n
        BY <1>5, <1>a, <1>b, <1>d, <3>3 DEF Writes, Copying, LinksInv
      <4> QED
        BY <1>a, <2>1, <2>3, <4>1 DEF AlonePart
    <3>4. pos'[t] <= Len(e)
      BY <1>b, <1>c, <1>d
    <3> QED
      BY <3>2, <3>3, <3>4
  <2> QED
    BY <1>5, <1>b, <1>d, <2>1, <2>2, <2>3 DEF ContentInv, Of
<1> QED
  BY <1>1, <1>2, <1>3, <1>4, <1>5 DEF IInv, ContentInv

(* Every step of the tasks and of the cache keeps the invariant.            *)
LEMMA SafetyStep == IInv /\ [Next]_vars => IInv'
<1> SUFFICES ASSUME IInv, [Next]_vars PROVE IInv'
  OBVIOUS
<1>a. TypeOK /\ TypeOK' /\ AlonePart /\ AbsentPart
  BY TypeStep DEF IInv, SharedInv
<1> USE NameFacts DEF history, GoTo
<1>1. ASSUME NEW t \in Tasks, Execute(t) PROVE IInv'
  <2>1. /\ pc[t] = "ready" /\ pc'[t] = "exists" /\ \A u \in Tasks \ {t} : pc'[u] = pc[u]
        /\ shared \subseteq shared' /\ UNCHANGED <<file, data, out, pos, broken>>
        /\ (\E u \in Tasks \ {t} : pc[u] # "ready" /\ Name(u) = Name(t)) => Name(t) \in shared'
    BY <1>1, <1>a DEF Execute, TypeOK
  <2>2. AlonePart'
    <3> SUFFICES ASSUME NEW u \in Tasks, NEW v \in Tasks, u # v, Name(u) = Name(v), pc'[u] # "ready",
                        pc'[v] # "ready"
                 PROVE  Name(u) \in shared'
      BY DEF AlonePart, Name
    <3>1. CASE u = t \/ v = t
      BY <2>1, <3>1
    <3>2. CASE u # t /\ v # t
      BY <1>a, <2>1, <3>2 DEF AlonePart
    <3> QED
      BY <3>1, <3>2
  <2>3. AbsentPart'
    BY <1>a, <2>1 DEF AbsentPart, Name
  <2>4. SharedInv'
    BY <2>2, <2>3 DEF SharedInv
  <2> QED
    BY <1>a, <2>1, <2>4, QuietStep DEF Copying
<1>2. ASSUME NEW t \in Tasks, TestExists(t) \/ OpenSource(t) PROVE IInv'
  <2>1. /\ pc[t] \in {"exists", "source"} /\ pc'[t] \in {"image", "ready", "source", "output"}
        /\ pc'[t] \in {"source", "output"} => pc[t] = "source" \/ file[Name(t)] = None
        /\ \A u \in Tasks \ {t} : pc'[u] = pc[u]
        /\ UNCHANGED <<file, data, pos, broken, shared>> /\ \A u \in Tasks : out'[u] \in {out[u], None}
        /\ \A u \in Tasks \ {t} : out'[u] = out[u]
    BY <1>2, <1>a DEF TestExists, OpenSource, Fail, Leave, AfterDownload, TypeOK
  <2>2. SharedInv'
    BY <2>1, SharedFrame
  <2> QED
    BY <1>a, <2>1, <2>2, QuietStep DEF Copying
<1>3. ASSUME NEW t \in Tasks, OpenOutput(t) PROVE IInv'
  <2>1. CASE Fail(t, "output") /\ UNCHANGED <<file, data, pos>>
    <3>1. /\ pc[t] = "output" /\ pc'[t] = "ready" /\ \A u \in Tasks \ {t} : pc'[u] = pc[u]
          /\ UNCHANGED <<file, data, pos, broken, shared>> /\ \A u \in Tasks : out'[u] \in {out[u], None}
          /\ \A u \in Tasks \ {t} : out'[u] = out[u]
      BY <1>3, <2>1, <1>a DEF OpenOutput, Fail, Leave, TypeOK
    <3>2. SharedInv'
      BY <3>1, SharedFrame
    <3> QED
      BY <1>a, <3>1, <3>2, QuietStep DEF Copying
  <2>2. CASE ~(Fail(t, "output") /\ UNCHANGED <<file, data, pos>>)
    <3>1. PICK i \in IF file[Name(t)] # None THEN {file[Name(t)]} ELSE NewInode :
            /\ file' = [file EXCEPT ![Name(t)] = i] /\ data' = [data EXCEPT ![i] = <<>>]
            /\ out' = [out EXCEPT ![t] = i] /\ pos' = [pos EXCEPT ![t] = 0]
            /\ pc[t] = "output" /\ pc' = [pc EXCEPT ![t] = "read"]
      BY <1>3, <2>2 DEF OpenOutput
    <3>2. i \in Inodes /\ (i = file[Name(t)] \/ (file[Name(t)] = None /\ Free(i)))
      BY <1>a, <3>1 DEF NewInode, TypeOK
    <3>3. UNCHANGED <<broken, shared>>
      BY <1>3 DEF OpenOutput
    <3> QED
      BY <1>a, <3>1, <3>2, <3>3, OpenStep
  <2> QED
    BY <2>1, <2>2
<1>4. ASSUME NEW t \in Tasks, ReadBuffer(t) PROVE IInv'
  <2>1. /\ pc[t] = "read" /\ pc'[t] \in {"write", "close", "ready"}
        /\ pc'[t] = "write" => out'[t] = out[t]
        /\ pc'[t] = "close" => pos[t] = Size
        /\ pc'[t] = "ready" => Name(t) \in broken'
        /\ \A u \in Tasks \ {t} : pc'[u] = pc[u] /\ out'[u] = out[u]
        /\ \A u \in Tasks : out'[u] \in {out[u], None}
        /\ UNCHANGED <<file, data, pos, shared>> /\ broken \subseteq broken'
    BY <1>4, <1>a DEF ReadBuffer, Fail, Leave, TypeOK
  <2>2. SharedInv'
    BY <2>1, SharedFrame
  <2>3. ASSUME NEW u \in Tasks, pc[u] \in Copying, pos[u] < Size
        PROVE  \/ pc'[u] \in Copying /\ out'[u] = out[u] /\ pos'[u] = pos[u]
               \/ file'[Name(u)] = None \/ Name(u) \in broken'
    BY <1>a, <2>1, <2>3, DownloadAssumption DEF Copying, TypeOK
  <2> QED
    BY <1>a, <2>1, <2>2, <2>3, QuietStep DEF Copying
<1>5. ASSUME NEW t \in Tasks, WriteBuffer(t) PROVE IInv'
  <2>1. CASE /\ GoTo(t, "write", IF CopyCanceled(t) THEN "delete" ELSE "read")
             /\ pos[t] < Size /\ data' = [data EXCEPT ![out[t]] = Put(@, pos[t], UriOf[t])]
             /\ pos' = [pos EXCEPT ![t] = @ + 1] /\ UNCHANGED <<out, broken>>
    <3>1. PICK to \in {"read", "delete"} : pc[t] = "write" /\ pc' = [pc EXCEPT ![t] = to]
      BY <2>1
    <3>2. UNCHANGED <<file, out, broken, shared>>
      BY <1>5, <2>1 DEF WriteBuffer
    <3> QED
      BY <1>a, <2>1, <3>1, <3>2, WriteStep
  <2>2. CASE UNCHANGED <<data, pos>>
    <3>1. /\ pc[t] = "write" /\ pc'[t] \in {"read", "delete", "ready"}
          /\ pc'[t] = "ready" => Name(t) \in broken'
          /\ pc'[t] # "ready" => out'[t] = out[t]
          /\ \A u \in Tasks \ {t} : pc'[u] = pc[u] /\ out'[u] = out[u]
          /\ \A u \in Tasks : out'[u] \in {out[u], None}
          /\ UNCHANGED <<file, data, pos, shared>> /\ broken \subseteq broken'
      BY <1>5, <2>2, <1>a DEF WriteBuffer, Fail, Leave, TypeOK
    <3>2. SharedInv'
      BY <3>1, SharedFrame
    <3> QED
      BY <1>a, <3>1, <3>2, QuietStep DEF Copying
  <2> QED
    BY <1>5, <2>1, <2>2 DEF WriteBuffer
<1>6. ASSUME NEW t \in Tasks, Delete(t) PROVE IInv'
  <2>1. /\ pc[t] = "delete" /\ pc'[t] = "close" /\ \A u \in Tasks \ {t} : pc'[u] = pc[u]
        /\ file'[Name(t)] = None /\ \A n \in Names : file'[n] \in {file[n], None}
        /\ UNCHANGED <<data, out, pos, broken, shared>>
    BY <1>6, <1>a DEF Delete, TypeOK
  <2>2. SharedInv'
    BY <2>1, SharedFrame
  <2> QED
    BY <1>a, <2>1, <2>2, QuietStep DEF Copying
<1>7. ASSUME NEW t \in Tasks, CloseStreams(t) \/ CheckCanceled(t) \/ Decode(t) PROVE IInv'
  <2>1. /\ pc[t] \in {"close", "image", "decode"} /\ pc'[t] \in {"image", "ready", "decode"}
        /\ \A u \in Tasks \ {t} : pc'[u] = pc[u] /\ out'[u] = out[u]
        /\ \A u \in Tasks : out'[u] \in {out[u], None}
        /\ UNCHANGED <<file, data, pos, broken, shared>>
    BY <1>7, <1>a DEF CloseStreams, CheckCanceled, Decode, Fail, Leave, AfterDownload, TypeOK
  <2>2. SharedInv'
    BY <2>1, SharedFrame
  <2> QED
    BY <1>a, <2>1, <2>2, QuietStep DEF Copying
<1>8. ASSUME UNCHANGED <<data, pc, out, pos, broken, shared>>,
             \A n \in Names : file'[n] \in {file[n], None}
      PROVE  IInv'
  <2>1. SharedInv'
    BY <1>8, SharedFrame
  <2> QED
    BY <1>8, <1>a, <2>1, QuietStep
<1>9. ASSUME NEW n \in Names, Remove(n) \/ ClearNext(n) PROVE IInv'
  BY <1>8, <1>9, <1>a DEF Remove, ClearNext, TypeOK
<1>10. ASSUME (\E t \in Tasks : Cancel(t)) \/ Clear \/ UNCHANGED vars PROVE IInv'
  <2>1. UNCHANGED <<file, data, pc, out, pos, broken, shared>>
    BY <1>10 DEF Cancel, Clear, vars
  <2> QED
    BY <1>8, <2>1
<1>11. CASE Kill
  <2>1. /\ \A t \in Tasks : pc'[t] = "ready" /\ out'[t] = None
        /\ \A t \in Tasks : pc[t] \in Copying => Name(t) \in broken'
        /\ UNCHANGED <<file, data, shared>> /\ broken \subseteq broken'
    BY <1>11 DEF Kill, Copying
  <2>2. SharedInv'
    BY <2>1, SharedFrame
  <2> QED
    BY <1>a, <2>1, <2>2, QuietStep DEF Copying
<1> QED
  BY <1>1, <1>2, <1>3, <1>4, <1>5, <1>6, <1>7, <1>9, <1>10, <1>11 DEF Next, TaskStep

(* Whatever the tasks do, whatever fails and whenever the process is        *)
(* killed: files and streams have one name, and what is missing in a file   *)
(* is missing because of a task that is still copying.                      *)
THEOREM DownloadSafety == Spec => []IInv
<1>1. ASSUME Init PROVE IInv
  <2>1. TypeOK
    <3>1. <<>> \in Seq(Uris \cup {Hole}) /\ 0 \in 0 .. Size /\ 0 \in 0 .. MaxRuns
      BY EmptySeq, DownloadAssumption
    <3> QED
      BY <1>1, <3>1 DEF Init, TypeOK, Pcs
  <2>2. LinksInv /\ \A n \in Names : ContentInv(n)
    BY <1>1, NameFacts DEF Init, LinksInv, ContentInv
  <2>3. SharedInv
    BY <1>1 DEF Init, SharedInv, AlonePart, AbsentPart
  <2>4. SizeInv
    BY <1>1, EmptySeq, DownloadAssumption DEF Init, SizeInv
  <2> QED
    BY <2>1, <2>2, <2>3, <2>4 DEF IInv
<1> QED
  BY <1>1, SafetyStep, PTL DEF Spec

-----------------------------------------------------------------------------
(* What the tasks and the cache promise                                     *)

(* A file nobody copies into is whole, if no copy of it was broken off.     *)
LEMMA WholeAtRest ==
  ASSUME OneNameEach, IInv, NEW n \in Names, n \notin broken, file[n] # None,
         \A t \in Tasks : ~Writes(t, file[n]), NEW u \in Of(n)
  PROVE  data[file[n]] = Whole(u)
<1> DEFINE s == data[file[n]]
<1>1. s \in Seq(Uris \cup {Hole}) /\ Len(s) <= Size
  BY DEF IInv, TypeOK, SizeInv
<1>2. \A p \in 1 .. Size : p <= Len(s) /\ s[p] \in Of(n)
  BY DEF IInv, ContentInv
<1>3. \A v \in Of(n) : v = u
  BY DEF OneNameEach, Of
<1> HIDE DEF s
<1>4. Len(s) \in Nat /\ s = [i \in 1 .. Len(s) |-> s[i]]
  BY <1>1, LenProperties
<1>5. Len(s) = Size
  <2>1. CASE Size = 0
    BY <1>1, <1>4, <2>1
  <2>2. CASE Size > 0
    <3>1. Size \in 1 .. Size
      BY <2>2, DownloadAssumption
    <3> QED
      BY <1>1, <1>2, <1>4, <3>1, DownloadAssumption
  <2> QED
    BY <2>1, <2>2, DownloadAssumption
<1>6. \A p \in 1 .. Size : s[p] = u
  BY <1>2, <1>3
<1> QED
  BY <1>4, <1>5, <1>6 DEF Whole, s

(* No task writes the file of a name whose only task is not copying.        *)
LEMMA NobodyElseWrites ==
  ASSUME IInv, NEW t \in Tasks, Name(t) \notin shared, pc[t] \notin Copying \cup {"ready"},
         file[Name(t)] # None, NEW u \in Tasks
  PROVE  ~Writes(u, file[Name(t)])
<1> SUFFICES ASSUME Writes(u, file[Name(t)]) PROVE FALSE
  OBVIOUS
<1>1. Name(u) = Name(t) /\ pc[u] \in Copying
  BY NameFacts DEF IInv, LinksInv, Writes
<1> QED
  BY <1>1 DEF IInv, SharedInv, AlonePart, Copying

(* The files of the cache are whole when no task runs, unless an exception  *)
(* or a kill broke a copy off, and sound in between.                        *)
THEOREM FilesAreWholeHolds == ASSUME OneNameEach PROVE Spec => []FilesAreWhole
<1>1. ASSUME IInv PROVE FilesAreWhole
  <2>1. ASSUME \A t \in Tasks : pc[t] = "ready", NEW n \in Names \ broken, file[n] # None
        PROVE  \E u \in Uris : NameOf[u] = n /\ data[file[n]] = Whole(u)
    <3>1. PICK u \in Uris : NameOf[u] = n
      BY <1>1, <2>1 DEF IInv, ContentInv, Of
    <3>2. \A t \in Tasks : ~Writes(t, file[n])
      BY <2>1 DEF Writes, Copying
    <3> QED
      BY <1>1, <2>1, <3>1, <3>2, WholeAtRest DEF Of
  <2>2. ASSUME NEW n \in Names \ (broken \cap shared), file[n] # None, NEW i \in DOMAIN data[file[n]]
        PROVE  \/ data[file[n]][i] \in Of(n)
               \/ \E t \in Tasks : Writes(t, file[n]) /\ pos[t] < i
    <3>1. file[n] \in Inodes /\ i \in 1 .. Len(data[file[n]]) /\ Len(data[file[n]]) \in Nat
      BY <1>1, <2>2, LenProperties DEF IInv, TypeOK
    <3>2. i \in 1 .. Size
      BY <1>1, <3>1, DownloadAssumption DEF IInv, SizeInv
    <3> QED
      BY <1>1, <2>2, <3>1, <3>2 DEF IInv, ContentInv
  <2> QED
    BY <1>1, <2>1, <2>2 DEF FilesAreWhole, RestIsWhole, HolesAreFilled, IInv, Writes, Copying, Of
<1> QED
  BY <1>1, DownloadSafety, PTL

(* A task is moved on by its own steps and by the end of the process.       *)
LEMMA OwnSteps ==
  ASSUME TypeOK, [Next]_vars, NEW t \in Tasks, pc'[t] # pc[t]
  PROVE  Execute(t) \/ TaskStep(t) \/ Kill
<1> USE DEF TypeOK
<1>1. ASSUME NEW u \in Tasks, Execute(u) \/ TaskStep(u), u # t PROVE pc'[t] = pc[t]
  BY <1>1 DEF Execute, TaskStep, TestExists, OpenSource, OpenOutput, ReadBuffer, WriteBuffer, Delete,
              CloseStreams, CheckCanceled, Decode, GoTo, Fail, Leave
<1>2. ASSUME \/ \E u \in Tasks : Cancel(u)
             \/ \E n \in Names : Remove(n) \/ ClearNext(n)
             \/ Clear \/ UNCHANGED vars
      PROVE  pc' = pc
  BY <1>2 DEF Cancel, Remove, ClearNext, Clear, vars
<1> QED
  BY <1>1, <1>2 DEF Next

(* Success is reported, and a bitmap decoded, from a whole file of the URI  *)
(* of the task, unless it was removed, broken off or shared.                *)
THEOREM ResultsAreWholeHolds == ASSUME OneNameEach PROVE Spec => ResultsAreWhole
<1>1. ASSUME IInv, NEW t \in Tasks, pc[t] \in {"exists", "close", "decode"}, file[Name(t)] # None,
             Name(t) \notin broken \cup shared
      PROVE  data[file[Name(t)]] = Whole(UriOf[t])
  <2>1. \A u \in Tasks : ~Writes(u, file[Name(t)])
    BY <1>1, NobodyElseWrites DEF Copying
  <2> QED
    BY <1>1, <2>1, NameFacts, WholeAtRest
<1>2. ASSUME IInv, [Next]_vars, NEW t \in Tasks, pc[t] \in {"exists", "close"}, pc'[t] # pc[t], success'[t]
      PROVE  file'[Name(t)] = None \/ HasWhole(t)' \/ Name(t) \in broken' \cup shared'
  <2>1. TestExists(t) \/ CloseStreams(t) \/ Kill
    BY <1>2, OwnSteps DEF IInv, Execute, TaskStep, OpenSource, OpenOutput, ReadBuffer, WriteBuffer, Delete,
                          CheckCanceled, Decode, GoTo, Fail, Leave
  <2>2. ~Kill
    BY <1>2 DEF Kill
  <2>3. UNCHANGED <<file, data, broken, shared>>
    BY <2>1, <2>2 DEF TestExists, CloseStreams, history
  <2> QED
    BY <1>1, <1>2, <2>3 DEF HasWhole, Name
<1>3. ASSUME IInv, [Next]_vars, NEW t \in Tasks, pc[t] = "decode"
      PROVE  bitmap'[t] \in {bitmap[t], None, Whole(UriOf[t])} \/ Name(t) \in broken' \cup shared'
  <2>1. CASE Decode(t)
    <3>1. UNCHANGED <<broken, shared>>
      BY <2>1 DEF Decode, history
    <3>2. bitmap'[t] \in {bitmap[t], None} \/ (file[Name(t)] # None /\ bitmap'[t] = data[file[Name(t)]])
      BY <1>3, <2>1 DEF Decode, IInv, TypeOK
    <3> QED
      BY <1>1, <1>3, <3>1, <3>2
  <2>2. CASE Kill
    BY <2>2 DEF Kill
  <2>3. ASSUME NEW u \in Tasks, Decode(u), u # t PROVE bitmap'[t] = bitmap[t]
    BY <1>3, <2>3 DEF Decode, IInv, TypeOK
  <2>4. CASE ~Kill /\ ~\E u \in Tasks : Decode(u)
    <3>1. bitmap' = bitmap
      BY <1>3, <2>4 DEF Next, TaskStep, Execute, TestExists, OpenSource, OpenOutput, ReadBuffer, WriteBuffer,
         Delete, CloseStreams, CheckCanceled, Cancel, Remove, ClearNext, Clear, vars
    <3> QED
      BY <3>1
  <2> QED
    BY <2>1, <2>2, <2>3, <2>4
<1>4. ASSUME IInv, [Next]_vars
      PROVE  /\ [\A t \in Tasks :
                   (pc[t] \in {"exists", "close"} /\ pc'[t] # pc[t] /\ success'[t])
                     => \/ file'[Name(t)] = None \/ HasWhole(t)'
                        \/ Name(t) \in broken' \cup shared']_vars
             /\ [\A t \in Tasks :
                   pc[t] = "decode" => \/ bitmap'[t] \in {bitmap[t], None, Whole(UriOf[t])}
                                       \/ Name(t) \in broken' \cup shared']_vars
  BY <1>2, <1>3, <1>4
<1> QED
  BY <1>4, DownloadSafety, PTL DEF Spec, ResultsAreWhole, SuccessIsWhole, BitmapIsWhole

(* A whole file stays whole until it is removed, and its URI is not fetched *)
(* again, unless two tasks work on its name at one time.                    *)
THEOREM WholeIsKeptHolds == ASSUME OneNameEach PROVE Spec => WholeIsKept
<1>1. ASSUME IInv, [Next]_vars, NEW t \in Tasks, HasWhole(t), Name(t) \notin shared'
      PROVE  file'[Name(t)] = None \/ HasWhole(t)'
  <2> DEFINE n == Name(t)
             i == file[Name(t)]
  <2>1. /\ TypeOK /\ LinksInv /\ AlonePart /\ AbsentPart /\ n \in Names /\ UriOf[t] \in Uris
        /\ i \in Inodes /\ i # None /\ data[i] = Whole(UriOf[t])
    BY <1>1, NameFacts DEF IInv, SharedInv, HasWhole, TypeOK
  <2>2. ASSUME file'[n] \in {i, None}, data'[i] = data[i] PROVE file'[n] = None \/ HasWhole(t)'
    BY <2>1, <2>2 DEF HasWhole, Name
  <2>3. ASSUME NEW u \in Tasks, OpenOutput(u) PROVE file'[n] \in {i, None} /\ data'[i] = data[i]
    <3>1. pc[u] = "output" /\ UNCHANGED shared
      BY <2>3 DEF history, OpenOutput, GoTo, Fail, Leave
    <3>2. Name(u) # n
      BY <1>1, <2>1, <3>1 DEF AbsentPart
    <3>3. CASE UNCHANGED <<file, data>>
      BY <3>3
    <3>4. CASE \E j \in IF file[Name(u)] # None THEN {file[Name(u)]} ELSE NewInode :
                 file' = [file EXCEPT ![Name(u)] = j] /\ data' = [data EXCEPT ![j] = <<>>]
      <4>1. PICK j \in IF file[Name(u)] # None THEN {file[Name(u)]} ELSE NewInode :
              file' = [file EXCEPT ![Name(u)] = j] /\ data' = [data EXCEPT ![j] = <<>>]
        BY <3>4
      <4>2. j # i
        BY <2>1, <3>2, <4>1, NameFacts DEF LinksInv, NewInode, Free
      <4> QED
        BY <2>1, <3>2, <4>1, <4>2, NameFacts DEF TypeOK
    <3> QED
      BY <2>3, <3>3, <3>4 DEF OpenOutput
  <2>4. ASSUME NEW u \in Tasks, WriteBuffer(u) PROVE file'[n] \in {i, None} /\ data'[i] = data[i]
    <3>1. UNCHANGED file /\ pc[u] = "write"
      BY <2>4 DEF WriteBuffer, GoTo, Fail, Leave
    <3>2. CASE data' = data
      BY <3>1, <3>2
    <3>3. CASE pos[u] < Size /\ data' = [data EXCEPT ![out[u]] = Put(@, pos[u], UriOf[u])]
      <4>1. CASE out[u] # i
        BY <2>1, <3>1, <3>3, <4>1 DEF TypeOK
      <4>2. CASE out[u] = i
        <5>1. Name(u) = n
          BY <2>1, <4>2 DEF LinksInv
        <5>2. UriOf[u] = UriOf[t]
          BY <5>1, NameFacts DEF OneNameEach, Name
        <5>3. pos[u] \in Nat /\ Size \in Nat
          BY <2>1, DownloadAssumption DEF TypeOK
        <5>4. Put(Whole(UriOf[t]), pos[u], UriOf[t]) = Whole(UriOf[t])
          <6>1. Whole(UriOf[t]) = [p \in 1 .. Size |-> UriOf[t]] /\ Len(Whole(UriOf[t])) = Size
            <7>1. Whole(UriOf[t]) \in Seq(Uris)
              BY <2>1, <5>3, IsASeq DEF Whole
            <7>2. DOMAIN Whole(UriOf[t]) = 1 .. Size
              BY DEF Whole
            <7> QED
              BY <5>3, <7>1, <7>2, LenProperties DEF Whole
          <6> QED
            BY <3>3, <5>3, <6>1 DEF Put
        <5> QED
          BY <2>1, <3>1, <3>3, <4>2, <5>2, <5>4 DEF TypeOK
      <4> QED
        BY <4>1, <4>2
    <3> QED
      BY <2>4, <3>2, <3>3 DEF WriteBuffer
  <2>5. ASSUME NEW u \in Tasks,
               \/ Execute(u) \/ TestExists(u) \/ OpenSource(u) \/ ReadBuffer(u) \/ Delete(u)
               \/ CloseStreams(u) \/ CheckCanceled(u) \/ Decode(u) \/ Cancel(u)
        PROVE  file'[n] \in {i, None} /\ data'[i] = data[i]
    BY <2>1, <2>5 DEF Execute, TestExists, OpenSource, ReadBuffer, Delete, CloseStreams, CheckCanceled, Decode,
                      Cancel, TypeOK
  <2>6. ASSUME (\E m \in Names : Remove(m) \/ ClearNext(m)) \/ Clear \/ Kill \/ UNCHANGED vars
        PROVE  file'[n] \in {i, None} /\ data'[i] = data[i]
    BY <2>1, <2>6 DEF Remove, ClearNext, Clear, Kill, vars, TypeOK
  <2> QED
    BY <1>1, <2>2, <2>3, <2>4, <2>5, <2>6 DEF Next, TaskStep
<1>2. ASSUME IInv, [Next]_vars, NEW t \in Tasks, HasWhole(t), NEW u \in Tasks, Name(u) = Name(t),
             pc[u] = "exists", pc'[u] = "source"
      PROVE  FALSE
  <2>1. TestExists(u)
    BY <1>2, OwnSteps DEF IInv, Execute, TaskStep, OpenSource, OpenOutput, ReadBuffer, WriteBuffer, Delete,
                          CloseStreams, CheckCanceled, Decode, Kill, GoTo, Fail, Leave
  <2> QED
    BY <1>2, <2>1 DEF TestExists, HasWhole, GoTo, AfterDownload, IInv, TypeOK
<1>3. ASSUME IInv, [Next]_vars
      PROVE  [\A t \in Tasks : HasWhole(t) /\ Name(t) \notin shared' =>
                /\ file'[Name(t)] = None \/ HasWhole(t)'
                /\ \A u \in Tasks : Name(u) = Name(t) => ~(pc[u] = "exists" /\ pc'[u] = "source")]_vars
  BY <1>1, <1>2, <1>3
<1> QED
  BY <1>3, DownloadSafety, PTL DEF Spec, WholeIsKept
=============================================================================

--------------------------- MODULE NativeDataProofs ---------------------------
(***************************************************************************)
(* Callers that await the tasks of a stream before they close it never see *)
(* another file's data, for any number of streams, files, descriptors and  *)
(* operations, whatever the ring's calls come to.                          *)
(*                                                                         *)
(* A task uses the number it captured, and later the description that the  *)
(* number denoted when the ring took its entries.  As its stream is open   *)
(* while it is pending, the exact descriptor table makes both its own      *)
(* stream's; an entry that outlives an interrupted call keeps its          *)
(* description, which stays on its file for good.                          *)
(***************************************************************************)
EXTENDS NativeFileProofs

CellsIn(c) == {c[i] : i \in 1 .. Len(c)}

OwnCell(c, f) == c # Hole => c[1] \in 1 .. ops /\ FileOf(c[1]) = f

TaskInv(k) ==
    /\ k > ops => task[k].state = "none" /\ task[k].target = NoStream /\ task[k].got = <<>>
    /\ k <= ops => stream[task[k].stream].state # "none"
    /\ task[k].target \in {NoStream, task[k].stream}
    /\ Pending(k) => stream[task[k].stream].state = "open"
    /\ task[k].state = "queued" => task[k].fd = stream[task[k].stream].fd
    /\ \A c \in CellsIn(task[k].got) : OwnCell(c, FileOf(k))

FileInv(f) == \A c \in CellsIn(content[f]) : OwnCell(c, f)

CInv == (\A k \in Ids : TaskInv(k)) /\ (\A f \in Files : FileInv(f))

----------------------------------------------------------------------------
(* What the helpers write and read. *)

LEMMA WriteAtCells ==
    ASSUME NEW c \in Seq(CellType), NEW p \in Nat, NEW cell
    PROVE  CellsIn(WriteAt(c, p, cell)) \subseteq CellsIn(c) \cup {cell, Hole}
<1> DEFINE m == IF p < Len(c) THEN Len(c) ELSE p + 1
           w == WriteAt(c, p, cell)
<1>1. m \in Nat
    OBVIOUS
<1>2. /\ w = [i \in 1 .. m |-> IF i = p + 1 THEN cell ELSE IF i <= Len(c) THEN c[i] ELSE Hole]
    BY DEF WriteAt
<1> HIDE DEF w, m
<1>3. Len(w) = m
    BY <1>1, <1>2
<1>4. \A i \in 1 .. m : w[i] \in {cell, Hole} \/ (i \in 1 .. Len(c) /\ w[i] = c[i])
    BY <1>1, <1>2
<1>5. CellsIn(w) \subseteq CellsIn(c) \cup {cell, Hole}
    BY <1>3, <1>4 DEF CellsIn
<1> QED
    BY <1>5 DEF w

LEMMA ReadAtCells ==
    ASSUME NEW c \in Seq(CellType), NEW p \in Nat, NEW n \in Nat
    PROVE  CellsIn(ReadAt(c, p, n)) \subseteq CellsIn(c)
<1> DEFINE last == IF p + n < Len(c) THEN p + n ELSE Len(c)
           w == SubSeq(c, p + 1, last)
<1>1. last \in Nat /\ last <= Len(c) /\ Len(c) \in Nat
    OBVIOUS
<1>2. \A i \in 1 .. Len(w) : p + i \in 1 .. Len(c) /\ w[i] = c[p + i]
    <2> HIDE DEF last
    <2>1. Len(w) = IF p + 1 <= last THEN last - (p + 1) + 1 ELSE 0
        BY <1>1
    <2>2. \A i \in 1 .. Len(w) : w[i] = c[p + 1 + i - 1]
        BY <1>1
    <2> QED
        BY <1>1, <2>1, <2>2
<1> HIDE DEF w, last
<1>3. CellsIn(w) \subseteq CellsIn(c)
    BY <1>2 DEF CellsIn
<1> QED
    BY <1>3 DEF w, last, ReadAt

LEMMA ConcatCells ==
    ASSUME NEW c \in Seq(CellType), NEW d \in Seq(CellType)
    PROVE  CellsIn(c \o d) = CellsIn(c) \cup CellsIn(d)
<1>1. Len(c \o d) = Len(c) + Len(d) /\ Len(c) \in Nat /\ Len(d) \in Nat
    OBVIOUS
<1>2. \A i \in 1 .. Len(c) : (c \o d)[i] = c[i]
    OBVIOUS
<1>3. \A i \in 1 .. Len(d) : (c \o d)[Len(c) + i] = d[i]
    OBVIOUS
<1>4. \A i \in 1 .. Len(c) + Len(d) : i \in 1 .. Len(c) \/ \E j \in 1 .. Len(d) : i = Len(c) + j
    <2> SUFFICES ASSUME NEW i \in 1 .. Len(c) + Len(d), i \notin 1 .. Len(c)
                 PROVE  \E j \in 1 .. Len(d) : i = Len(c) + j
        OBVIOUS
    <2>1. i - Len(c) \in 1 .. Len(d) /\ i = Len(c) + (i - Len(c))
        BY <1>1
    <2> QED
        BY <2>1
<1>5. \A i \in 1 .. Len(d) : Len(c) + i \in 1 .. Len(c) + Len(d)
    BY <1>1
<1>6. \A i \in 1 .. Len(c) : i \in 1 .. Len(c) + Len(d)
    BY <1>1
<1> DEFINE w == c \o d
<1> HIDE DEF w
<1>7. Len(w) = Len(c) + Len(d) /\ (\A i \in 1 .. Len(c) : w[i] = c[i])
      /\ (\A i \in 1 .. Len(d) : w[Len(c) + i] = d[i])
    BY <1>1, <1>2, <1>3 DEF w
<1>8. CellsIn(w) \subseteq CellsIn(c) \cup CellsIn(d)
    <2> SUFFICES ASSUME NEW i \in 1 .. Len(w) PROVE w[i] \in CellsIn(c) \cup CellsIn(d)
        BY DEF CellsIn
    <2>1. i \in 1 .. Len(c) + Len(d)
        BY <1>7
    <2>2. CASE i \in 1 .. Len(c)
        BY <1>7, <2>2 DEF CellsIn
    <2>3. CASE \E j \in 1 .. Len(d) : i = Len(c) + j
        BY <1>7, <2>3 DEF CellsIn
    <2> QED
        BY <1>4, <2>1, <2>2, <2>3
<1>9. CellsIn(c) \subseteq CellsIn(w)
    BY <1>6, <1>7 DEF CellsIn
<1>10. CellsIn(d) \subseteq CellsIn(w)
    <2> SUFFICES ASSUME NEW i \in 1 .. Len(d) PROVE d[i] \in CellsIn(w)
        BY DEF CellsIn
    <2> QED
        BY <1>5, <1>7 DEF CellsIn
<1> QED
    BY <1>8, <1>9, <1>10 DEF w

LEMMA CellsOfOp ==
    ASSUME NEW k \in Nat, NEW n \in Nat
    PROVE  \A c \in CellsIn(Cells(k, n)) : c[1] = k
<1>1. Len(Cells(k, n)) = n /\ \A i \in 1 .. n : Cells(k, n)[i] = <<k, i>>
    BY DEF Cells
<1> SUFFICES ASSUME NEW c \in CellsIn(Cells(k, n)) PROVE c[1] = k
    OBVIOUS
<1>2. PICK i \in 1 .. n : c = Cells(k, n)[i]
    BY <1>1 DEF CellsIn
<1>3. c = <<k, i>>
    BY <1>1, <1>2
<1> QED
    BY <1>3

LEMMA EmptyCells == CellsIn(<<>>) = {}
BY DEF CellsIn

----------------------------------------------------------------------------
(* What no step undoes. *)

\* An opened stream keeps its file and its number, and a task its stream.
Steady ==
    /\ \A s \in Streams : stream[s].state # "none" =>
           /\ stream'[s].state # "none"
           /\ stream'[s].file = stream[s].file /\ stream'[s].fd = stream[s].fd
    /\ ops <= ops'
    /\ \A k \in 1 .. ops : task'[k].stream = task[k].stream

LEMMA OwnKept ==
    ASSUME TypeOK, TypeOK', CInv, Steady, NEW c, NEW f, OwnCell(c, f)
    PROVE  OwnCell(c, f)'
<1> SUFFICES ASSUME c # Hole PROVE c[1] \in 1 .. ops' /\ FileOf(c[1])' = f
    BY DEF OwnCell, Hole
<1>1. c[1] \in 1 .. ops /\ FileOf(c[1]) = f
    BY DEF OwnCell
<1>2. ops \in Nat /\ ops' \in Nat /\ ops <= ops' /\ ops <= MaxOps /\ MaxOps \in Nat
    BY BoundsAssumption DEF TypeOK, Steady
<1>3. c[1] \in Ids
    BY <1>1, <1>2 DEF Ids
<1>4. task'[c[1]].stream = task[c[1]].stream
    BY <1>1 DEF Steady
<1>5. task[c[1]].stream \in Streams /\ stream[task[c[1]].stream].state # "none"
    BY <1>1, <1>2, <1>3 DEF CInv, TaskInv, TypeOK, TaskType
<1>6. FileOf(c[1])' = FileOf(c[1])
    BY <1>4, <1>5 DEF Steady, FileOf
<1> QED
    BY <1>1, <1>2, <1>6

LEMMA FilesKept ==
    ASSUME TypeOK, TypeOK', CInv, Steady, NEW f \in Files,
           \A c \in CellsIn(content'[f]) : c \in CellsIn(content[f]) \/ OwnCell(c, f)'
    PROVE  FileInv(f)'
<1> SUFFICES ASSUME NEW c \in CellsIn(content'[f]) PROVE OwnCell(c, f)'
    BY DEF FileInv, CellsIn
<1>1. CASE c \in CellsIn(content[f])
    BY <1>1, OwnKept DEF CInv, FileInv
<1> QED
    BY <1>1

LEMMA SameFile ==
    ASSUME TypeOK, CInv, Steady, NEW k \in Ids, k <= ops
    PROVE  /\ FileOf(k)' = FileOf(k) /\ task'[k].stream = task[k].stream
           /\ task[k].stream \in Streams /\ FileOf(k) \in Files
           /\ stream'[task[k].stream].fd = stream[task[k].stream].fd
           /\ stream'[task[k].stream].state # "none"
<1>1. k \in 1 .. ops
    BY BoundsAssumption DEF Ids, TypeOK
<1>2. task'[k].stream = task[k].stream
    BY <1>1 DEF Steady
<1>3. task[k].stream \in Streams /\ stream[task[k].stream].state # "none"
    BY DEF CInv, TaskInv, TypeOK, TaskType
<1> QED
    BY <1>2, <1>3 DEF Steady, FileOf, TypeOK, StreamType

\* A task that a step leaves alone.
LEMMA TaskKept ==
    ASSUME TypeOK, TypeOK', CInv, Steady, NEW k \in Ids, task'[k] = task[k],
           k <= ops' => k <= ops,
           Pending(k) => stream'[task[k].stream].state = "open"
    PROVE  TaskInv(k)'
<1>1. Pending(k)' = Pending(k)
    BY DEF Pending
<1>2. ops \in Nat /\ ops' \in Nat /\ k \in Nat /\ ops <= ops'
    BY BoundsAssumption DEF TypeOK, Ids, Steady
<1>3. CASE k <= ops
    <2>1. /\ FileOf(k)' = FileOf(k) /\ stream'[task[k].stream].state # "none"
          /\ stream'[task[k].stream].fd = stream[task[k].stream].fd
        BY <1>3, SameFile
    <2>2. \A c \in CellsIn(task[k].got) : OwnCell(c, FileOf(k))'
        BY <2>1, OwnKept DEF CInv, TaskInv
    <2> QED
        BY <1>1, <1>2, <1>3, <2>1, <2>2 DEF CInv, TaskInv, CellsIn
<1>4. CASE k > ops
    <2>1. task[k].state = "none" /\ task[k].target = NoStream /\ task[k].got = <<>>
        BY <1>4 DEF CInv, TaskInv
    <2>2. ~(k <= ops')
        BY <1>2, <1>4
    <2> QED
        BY <1>1, <1>2, <2>1, <2>2, EmptyCells DEF TaskInv, Pending, CellsIn
<1> QED
    BY <1>2, <1>3, <1>4

\* A task that takes a step, or for which the kernel does.
LEMMA TaskMoved ==
    ASSUME TypeOK, TypeOK', CInv, Steady, NEW k \in Ids, k <= ops, ops' = ops,
           stream'[task[k].stream].state = stream[task[k].stream].state,
           task'[k].target \in {NoStream, task[k].stream},
           Pending(k)' => Pending(k),
           task'[k].state = "queued" => task[k].state = "queued" /\ task'[k].fd = task[k].fd,
           \A c \in CellsIn(task'[k].got) :
               c \in CellsIn(task[k].got) \/ c \in CellsIn(content[FileOf(k)])
    PROVE  TaskInv(k)'
<1>1. /\ FileOf(k)' = FileOf(k) /\ task'[k].stream = task[k].stream /\ FileOf(k) \in Files
      /\ stream'[task[k].stream].fd = stream[task[k].stream].fd
      /\ stream'[task[k].stream].state # "none"
    BY SameFile
<1>2. \A c \in CellsIn(task'[k].got) : OwnCell(c, FileOf(k))'
    BY <1>1, OwnKept DEF CInv, TaskInv, FileInv
<1>3. ops \in Nat /\ k \in Nat
    BY BoundsAssumption DEF TypeOK, Ids
<1> QED
    BY <1>1, <1>2, <1>3 DEF CInv, TaskInv, CellsIn

----------------------------------------------------------------------------
(* A caller's step. *)

LEMMA StartedOwn ==
    ASSUME TypeOK, TypeOK', CInv, NEW s \in Streams, stream[s].state = "open",
           NEW r \in TaskType, ops < MaxOps, Started(r), fd_table' = fd_table,
           r.stream = s, r.target = NoStream, r.state # "none",
           r.state = "queued" => r.fd = stream[s].fd,
           CellsIn(r.got) \subseteq CellsIn(content[stream[s].file]),
           \A u \in Streams : /\ stream'[u].state = stream[u].state
                              /\ stream'[u].file = stream[u].file
                              /\ stream'[u].fd = stream[u].fd,
           \A f \in Files : \A c \in CellsIn(content'[f]) :
               \/ c \in CellsIn(content[f])
               \/ c = Hole
               \/ c[1] = ops + 1 /\ f = stream[s].file
    PROVE  CInv'
<1>1. PICK k \in Ids : k = ops + 1
    BY BoundsAssumption DEF TypeOK, Ids
<1>2. ops \in Nat /\ ops' = k /\ k \in Nat
    BY <1>1 DEF TypeOK, Started
<1>3. task'[k] = r /\ \A j \in Ids : j # k => task'[j] = task[j]
    BY <1>1 DEF TypeOK, Started
<1>4. \A j \in Ids : j <= k /\ j # k => j <= ops
    BY <1>1, <1>2 DEF Ids
<1>5. Steady
    <2>1. ops <= ops' /\ \A j \in 1 .. ops : j \in Ids /\ j # k
        BY <1>1, <1>2, BoundsAssumption DEF Ids
    <2>2. \A j \in 1 .. ops : task'[j] = task[j]
        BY <1>3, <2>1
    <2> QED
        BY <2>1, <2>2 DEF Steady
<1>6. FileOf(k)' = stream[s].file
    BY <1>3 DEF FileOf
<1>7. ASSUME NEW f \in Files PROVE FileInv(f)'
    <2>1. \A c \in CellsIn(content'[f]) : c \in CellsIn(content[f]) \/ OwnCell(c, f)'
        <3> SUFFICES ASSUME NEW c \in CellsIn(content'[f]), c # Hole,
                            c[1] = k, f = stream[s].file
                     PROVE  c[1] \in 1 .. ops' /\ FileOf(c[1])' = f
            BY <1>1 DEF OwnCell, Hole
        <3> QED
            BY <1>2, <1>6 DEF Ids
    <2> QED
        BY <1>5, <2>1, FilesKept
<1>8. ASSUME NEW j \in Ids, j # k PROVE TaskInv(j)'
    <2>1. j <= ops' => j <= ops
        BY <1>2, <1>4, <1>8
    <2>2. task[j].stream \in Streams /\ (Pending(j) => stream[task[j].stream].state = "open")
        BY DEF CInv, TaskInv, TypeOK, TaskType
    <2>3. Pending(j) => stream'[task[j].stream].state = "open"
        BY <2>2
    <2> QED
        BY <1>3, <1>5, <1>8, <2>1, <2>3, TaskKept
<1>9. TaskInv(k)'
    <2>1. stream[s].file \in Files
        BY DEF TypeOK, StreamType
    <2>2. \A c \in CellsIn(r.got) : OwnCell(c, stream[s].file)'
        <3>1. ASSUME NEW c, OwnCell(c, stream[s].file) PROVE OwnCell(c, stream[s].file)'
            <4>1. stream'[s].file = stream[s].file
                OBVIOUS
            <4>2. PICK g : g = stream[s].file
                OBVIOUS
            <4>3. OwnCell(c, g)'
                BY <1>5, <3>1, <4>2, OwnKept
            <4> QED
                BY <4>1, <4>2, <4>3 DEF OwnCell
        <3> QED
            BY <2>1, <3>1 DEF CInv, FileInv
    <2>3. stream'[s].state = "open" /\ stream'[s].fd = stream[s].fd
          /\ stream'[s].file = stream[s].file
        OBVIOUS
    <2>4. ~(k > ops')
        BY <1>2
    <2>5. \A c \in CellsIn(r.got) : OwnCell(c, FileOf(k))'
        BY <1>6, <2>2, <2>3 DEF OwnCell
    <2> QED
        BY <1>3, <2>3, <2>4, <2>5 DEF TaskInv, CellsIn
<1> QED
    BY <1>7, <1>8, <1>9 DEF CInv

LEMMA EndedFields ==
    ASSUME NEW s \in Streams, NEW kind \in {"read", "write"}, NEW got \in Seq(CellType)
    PROVE  LET r == Ended(s, kind, 1, got)
           IN  r.stream = s /\ r.target = NoStream /\ r.state = "ok" /\ r.got = got
BY DEF Ended, NoTask

LEMMA SpawnOwn ==
    ASSUME TypeOK, TypeOK', CInv, NEW s \in Streams,
           NEW kind \in {"read", "write", "aread", "pread"}, NEW n \in Nat, Spawn(s, kind, n)
    PROVE  CInv'
<1> DEFINE r == [NoTask EXCEPT !.state = "queued", !.kind = kind, !.stream = s, !.n = n,
                               !.fd = stream[s].fd, !.todo = 1 .. n]
<1>1. /\ r.stream = s /\ r.target = NoStream /\ r.state = "queued" /\ r.got = <<>>
      /\ r.fd = stream[s].fd
    BY DEF NoTask
<1>2. r \in TaskType
    <2>1. stream[s].fd \in Nat /\ 1 .. n \in SUBSET Nat
        BY DEF TypeOK, StreamType
    <2> QED
        BY <2>1, NoTaskIsTyped DEF TaskType
<1>3. Started(r)
    BY DEF Spawn
<1> HIDE DEF r
<1>4. CellsIn(r.got) \subseteq CellsIn(content[stream[s].file])
    BY <1>1, EmptyCells
<1> QED
    BY <1>1, <1>2, <1>3, <1>4, StartedOwn DEF Spawn, MayStart

LEMMA CallerOwn ==
    ASSUME IInv, TypeOK', CInv, AwaitBeforeClose, NEW s \in Streams, Caller(s)
    PROVE  CInv'
<1> USE DEF IInv
<1>1. ASSUME Steady, UNCHANGED <<task, ops>>,
             \A k \in Ids : Pending(k) => stream'[task[k].stream].state = "open",
             \A f \in Files : CellsIn(content'[f]) \subseteq CellsIn(content[f])
      PROVE  CInv'
    <2>1. \A f \in Files : FileInv(f)'
        BY <1>1, FilesKept
    <2>2. \A k \in Ids : TaskInv(k)'
        BY <1>1, TaskKept
    <2> QED
        BY <2>1, <2>2 DEF CInv
<1>2. \A k \in Ids : task[k].stream \in Streams
    BY DEF TypeOK, TaskType
<1>3. \A k \in Ids : Pending(k) => stream[task[k].stream].state = "open"
    BY DEF CInv, TaskInv
<1>4. ASSUME NEW f \in Files, NEW m \in Modes, new(s, f, m) PROVE CInv'
    <2>1. /\ stream[s].state = "none" /\ UNCHANGED <<task, ops>>
          /\ \A u \in Streams : u # s => stream'[u] = stream[u]
        BY <1>4 DEF new, TypeOK
    <2>2. Steady
        <3>1. ops <= ops' /\ task' = task
            BY <2>1, BoundsAssumption DEF TypeOK
        <3> QED
            BY <2>1, <3>1 DEF Steady
    <2>3. \A g \in Files : content'[g] \in {content[g], <<>>}
        BY <1>4 DEF new, TypeOK
    <2>4. \A g \in Files : CellsIn(content'[g]) \subseteq CellsIn(content[g])
        BY <2>3, EmptyCells
    <2> QED
        BY <1>1, <1>2, <1>3, <2>1, <2>2, <2>4
<1>5. CASE close(s)
    <2>1. /\ UNCHANGED <<content, task, ops>> /\ stream[s].state = "open"
          /\ \A k \in Ids : Pending(k) => task[k].stream # s
          /\ stream' = [stream EXCEPT ![s].state = "closed"]
        BY <1>5 DEF close
    <2>2. Steady
        BY <2>1 DEF Steady, TypeOK, StreamType
    <2>3. \A k \in Ids : Pending(k) => stream'[task[k].stream].state = "open"
        BY <1>2, <1>3, <2>1 DEF TypeOK
    <2> QED
        BY <1>1, <2>1, <2>2, <2>3
<1>6. CASE seek(s)
    <2>1. /\ UNCHANGED <<content, task, ops>>
          /\ stream' = [stream EXCEPT ![s].pos = 0, ![s].seeked = TRUE]
        BY <1>6 DEF seek
    <2>2. \A u \in Streams : /\ stream'[u].state = stream[u].state
                             /\ stream'[u].file = stream[u].file
                             /\ stream'[u].fd = stream[u].fd
        BY <2>1 DEF TypeOK, StreamType
    <2>3. Steady
        BY <2>1, <2>2 DEF Steady, TypeOK
    <2> QED
        BY <1>1, <1>2, <1>3, <2>1, <2>2, <2>3
<1>7. CASE read(s)
    <2> DEFINE got == ReadAt(content[stream[s].file], stream[s].pos, 1)
               r == Ended(s, "read", 1, got)
    <2>1. content[stream[s].file] \in Seq(CellType) /\ stream[s].pos \in Nat
        BY DEF TypeOK, StreamType
    <2>2. got \in Seq(CellType) /\ CellsIn(got) \subseteq CellsIn(content[stream[s].file])
        BY <2>1, ReadAtType, ReadAtCells
    <2>3. /\ stream[s].state = "open" /\ ops < MaxOps /\ Started(r)
          /\ UNCHANGED <<content, fd_table>>
          /\ stream' = [stream EXCEPT ![s].pos = stream[s].pos + Len(got)]
        BY <1>7 DEF read, MayStart
    <2> HIDE DEF got
    <2>4. r \in TaskType /\ r.stream = s /\ r.target = NoStream /\ r.state = "ok" /\ r.got = got
        BY <2>2, EndedType, EndedFields
    <2>5. \A u \in Streams : /\ stream'[u].state = stream[u].state
                             /\ stream'[u].file = stream[u].file
                             /\ stream'[u].fd = stream[u].fd
        BY <2>3 DEF TypeOK, StreamType
    <2> HIDE DEF r
    <2> QED
        BY <2>2, <2>3, <2>4, <2>5, StartedOwn
<1>8. CASE write(s)
    <2> DEFINE r == Ended(s, "write", 1, <<>>)
               f == stream[s].file
               p == WritePos(s, stream[s].pos)
               cell == <<ops + 1, 1>>
    <2>1. f \in Files /\ content[f] \in Seq(CellType) /\ stream[s].pos \in Nat
        BY DEF TypeOK, StreamType
    <2>2. p \in Nat
        BY <2>1, WritePosType
    <2>3. /\ stream[s].state = "open" /\ ops < MaxOps /\ Started(r) /\ fd_table' = fd_table
          /\ content' = [content EXCEPT ![f] = WriteAt(content[f], p, cell)]
          /\ stream' = [stream EXCEPT ![s].pos = p + 1]
        BY <1>8 DEF write, MayStart
    <2>4. cell[1] = ops + 1
        OBVIOUS
    <2>5. <<>> \in Seq(CellType)
        OBVIOUS
    <2>6. r \in TaskType /\ r.stream = s /\ r.target = NoStream /\ r.state = "ok" /\ r.got = <<>>
        BY <2>5, EndedType, EndedFields
    <2> HIDE DEF p, cell, r
    <2>7. CellsIn(WriteAt(content[f], p, cell)) \subseteq CellsIn(content[f]) \cup {cell, Hole}
        BY <2>1, <2>2, WriteAtCells
    <2>8. \A g \in Files : \A c \in CellsIn(content'[g]) :
              c \in CellsIn(content[g]) \/ c = Hole \/ (c[1] = ops + 1 /\ g = f)
        BY <2>1, <2>3, <2>4, <2>7 DEF TypeOK
    <2>9. \A u \in Streams : /\ stream'[u].state = stream[u].state
                             /\ stream'[u].file = stream[u].file
                             /\ stream'[u].fd = stream[u].fd
        BY <2>3 DEF TypeOK, StreamType
    <2>10. CellsIn(r.got) \subseteq CellsIn(content[stream[s].file])
        BY <2>6, EmptyCells
    <2> QED
        BY <2>3, <2>6, <2>8, <2>9, <2>10, StartedOwn
<1>9. CASE aread(s) \/ awrite(s) \/ aread_batch(s) \/ awrite_batch(s)
    <2>1. PICK kind \in {"read", "write", "aread", "pread"}, n \in Nat : Spawn(s, kind, n)
        BY <1>9, BoundsAssumption DEF aread, awrite, aread_batch, awrite_batch
    <2> QED
        BY <2>1, SpawnOwn
<1>10. ASSUME NEW u \in Streams, asplice(s, u) PROVE CInv'
    <2> DEFINE r == [NoTask EXCEPT !.state = "queued", !.kind = "splice", !.stream = u, !.n = 1,
                                   !.fd = stream[u].fd, !.from = stream[s].file]
    <2>1. /\ r.stream = u /\ r.target = NoStream /\ r.state = "queued" /\ r.got = <<>>
          /\ r.fd = stream[u].fd
        BY DEF NoTask
    <2>2. r \in TaskType
        <3>1. stream[u].fd \in Nat /\ stream[s].file \in Files
            BY DEF TypeOK, StreamType
        <3> QED
            BY <3>1, NoTaskIsTyped DEF TaskType
    <2>3. Started(r) /\ UNCHANGED <<content, stream, fd_table>>
          /\ stream[u].state = "open" /\ ops < MaxOps
        BY <1>10 DEF asplice, MayStart
    <2> HIDE DEF r
    <2>4. CellsIn(r.got) \subseteq CellsIn(content[stream[u].file])
        BY <2>1, EmptyCells
    <2> QED
        BY <2>1, <2>2, <2>3, <2>4, StartedOwn
<1> QED
    BY <1>4, <1>5, <1>6, <1>7, <1>8, <1>9, <1>10 DEF Caller

----------------------------------------------------------------------------
(* A step of a task, and of the kernel on its behalf. *)

StreamsStay == \A u \in Streams :
    /\ stream'[u].state = stream[u].state
    /\ stream'[u].file = stream[u].file
    /\ stream'[u].fd = stream[u].fd

LEMMA OffsetMoves ==
    ASSUME TypeOK, NEW d \in Streams, NEW q, stream' = [stream EXCEPT ![d].pos = q]
    PROVE  StreamsStay
<1>1. \A u \in Streams : stream[u] \in StreamType
    BY DEF TypeOK
<1>2. \A u \in Streams : stream'[u] = IF u = d THEN [stream[d] EXCEPT !.pos = q] ELSE stream[u]
    BY DEF TypeOK
<1> QED
    BY <1>1, <1>2 DEF StreamsStay, StreamType

LEMMA MovedOwn ==
    ASSUME TypeOK, TypeOK', CInv, NEW k \in Ids, k <= ops, ops' = ops, NEW r,
           task' = [task EXCEPT ![k] = r], r.stream = task[k].stream,
           r.target \in {NoStream, task[k].stream},
           r.state \in {"queued", "ring", "fallback"} => Pending(k),
           r.state = "queued" => task[k].state = "queued" /\ r.fd = task[k].fd,
           \A c \in CellsIn(r.got) :
               c \in CellsIn(task[k].got) \/ c \in CellsIn(content[FileOf(k)]),
           StreamsStay,
           \A f \in Files : \A c \in CellsIn(content'[f]) :
               \/ c \in CellsIn(content[f])
               \/ c = Hole
               \/ c[1] = k /\ f = FileOf(k)
    PROVE  CInv'
<1>1. task'[k] = r /\ \A j \in Ids : j # k => task'[j] = task[j]
    BY DEF TypeOK
<1>2. ops \in Nat /\ k \in 1 .. ops /\ (\A j \in 1 .. ops : j \in Ids)
    BY BoundsAssumption DEF TypeOK, Ids
<1>3. Steady
    <2>1. \A j \in 1 .. ops : task'[j].stream = task[j].stream
        BY <1>1, <1>2
    <2> QED
        BY <1>2, <2>1 DEF Steady, StreamsStay
<1>4. FileOf(k)' = FileOf(k) /\ task[k].stream \in Streams
    BY <1>3, SameFile
<1>5. ASSUME NEW f \in Files PROVE FileInv(f)'
    <2>1. \A c \in CellsIn(content'[f]) : c \in CellsIn(content[f]) \/ OwnCell(c, f)'
        BY <1>2, <1>4 DEF OwnCell, Hole
    <2> QED
        BY <1>3, <2>1, FilesKept
<1>6. ASSUME NEW j \in Ids, j # k PROVE TaskInv(j)'
    <2>1. task[j].stream \in Streams /\ (Pending(j) => stream[task[j].stream].state = "open")
        BY DEF CInv, TaskInv, TypeOK, TaskType
    <2> QED
        BY <1>1, <1>3, <1>6, <2>1, TaskKept DEF StreamsStay
<1>7. TaskInv(k)'
    <2>1. stream'[task[k].stream].state = stream[task[k].stream].state
        BY <1>4 DEF StreamsStay
    <2>2. Pending(k)' => Pending(k)
        BY <1>1 DEF Pending
    <2> QED
        BY <1>1, <1>3, <2>1, <2>2, TaskMoved
<1> QED
    BY <1>5, <1>6, <1>7 DEF CInv

\* A task that is under way, or that the kernel still has entries of, was started.
LEMMA WasStarted ==
    ASSUME TypeOK, CInv, NEW k \in Ids, task[k].state # "none" \/ task[k].target # NoStream
    PROVE  k <= ops /\ FileOf(k) \in Files /\ task[k] \in TaskType
<1>1. ops \in Nat /\ k \in Nat
    BY BoundsAssumption DEF TypeOK, Ids
<1>2. task[k] \in TaskType /\ FileOf(k) \in Files
    BY DEF TypeOK, TaskType, FileOf, StreamType
<1> QED
    BY <1>1, <1>2 DEF CInv, TaskInv

\* The number a queued task captured denotes its own stream.
LEMMA OwnNumber ==
    ASSUME TypeOK, FdTableExact, CInv, NEW k \in Ids, task[k].state = "queued"
    PROVE  fd_table[task[k].fd] = task[k].stream /\ task[k].stream \in Streams
<1>1. Pending(k) /\ task[k].stream \in Streams
    BY DEF Pending, TypeOK, TaskType
<1>2. /\ stream[task[k].stream].state = "open"
      /\ task[k].fd = stream[task[k].stream].fd
    BY <1>1 DEF CInv, TaskInv
<1> QED
    BY <1>1, <1>2 DEF FdTableExact

LEMMA WorkerOwn ==
    ASSUME IInv, TypeOK', CInv, NEW k \in Ids, Worker(k) PROVE CInv'
<1> DEFINE t == task[k]
<1>1. TypeOK /\ FdTableExact /\ TaskLinks
    BY DEF IInv
<1>2. t.state \in {"queued", "ring", "fallback"}
    BY DEF Worker, RingStart, RingRefused, RingEnd, RingInterrupted, Fallback, Splice
<1>3. k <= ops /\ FileOf(k) \in Files /\ t \in TaskType /\ Pending(k)
    BY <1>1, <1>2, WasStarted DEF Pending
<1>4. t.target \in {NoStream, t.stream}
    BY DEF CInv, TaskInv
<1>5. ASSUME UNCHANGED <<content, stream, ops>>, NEW r, task' = [task EXCEPT ![k] = r],
             r.stream = t.stream, r.got = t.got, r.state # "queued",
             r.target \in {NoStream, t.stream}
      PROVE  CInv'
    BY <1>1, <1>3, <1>5, MovedOwn DEF StreamsStay
<1>6. CASE RingStart(k)
    <2> DEFINE d == fd_table[t.fd]
               here == d # NoStream /\ Allowed(d, t.kind)
               r == IF here THEN [[t EXCEPT !.state = "ring"] EXCEPT !.target = d]
                    ELSE [[t EXCEPT !.state = "fallback"] EXCEPT !.todo = {}]
    <2>1. task' = [task EXCEPT ![k] = r] /\ UNCHANGED <<content, stream, ops>>
        BY <1>6 DEF RingStart
    <2>2. d = t.stream
        BY <1>1, <1>6, OwnNumber DEF RingStart
    <2> HIDE DEF here, d
    <2>3. /\ r.stream = t.stream /\ r.got = t.got /\ r.state # "queued"
          /\ r.target \in {d, t.target}
        BY <1>3 DEF TaskType
    <2> HIDE DEF r, t
    <2> QED
        BY <1>4, <1>5, <2>1, <2>2, <2>3
<1>7. CASE RingRefused(k)
    <2> DEFINE r == [[t EXCEPT !.state = "fallback"] EXCEPT !.todo = {}]
    <2>1. task' = [task EXCEPT ![k] = r] /\ UNCHANGED <<content, stream, ops>>
        BY <1>7 DEF RingRefused
    <2>2. r.stream = t.stream /\ r.got = t.got /\ r.state # "queued" /\ r.target = t.target
        BY <1>3 DEF TaskType
    <2> HIDE DEF r, t
    <2> QED
        BY <1>4, <1>5, <2>1, <2>2
<1>8. CASE RingEnd(k)
    <2> DEFINE x == IF t.failed THEN "fallback" ELSE "ok"
               r == [t EXCEPT !.state = x]
    <2>1. task' = [task EXCEPT ![k] = r] /\ UNCHANGED <<content, stream, ops>>
        BY <1>8 DEF RingEnd
    <2>2. r.stream = t.stream /\ r.got = t.got /\ r.state # "queued" /\ r.target = t.target
        BY <1>3 DEF TaskType
    <2> HIDE DEF r, t
    <2> QED
        BY <1>4, <1>5, <2>1, <2>2
<1>9. CASE RingInterrupted(k)
    <2> DEFINE r == [[t EXCEPT !.state = "fallback"] EXCEPT !.failed = TRUE]
    <2>1. task' = [task EXCEPT ![k] = r] /\ UNCHANGED <<content, stream, ops>>
        BY <1>9 DEF RingInterrupted
    <2>2. r.stream = t.stream /\ r.got = t.got /\ r.state # "queued" /\ r.target = t.target
        BY <1>3 DEF TaskType
    <2> HIDE DEF r, t
    <2> QED
        BY <1>4, <1>5, <2>1, <2>2
<1>10. CASE Fallback(k)
    <2> DEFINE f == FileOf(k)
               wanted == IF t.kind = "aread" /\ t.n = ReadCap THEN Len(content[f]) ELSE t.n
               g == IF t.kind = "write" THEN <<>> ELSE ReadAt(content[f], 0, wanted)
               r == [[t EXCEPT !.state = "ok"] EXCEPT !.got = g]
    <2>1. content[f] \in Seq(CellType) /\ t.n \in Nat /\ k \in Nat
        BY <1>1, <1>3, BoundsAssumption DEF TypeOK, TaskType, Ids
    <2>2. /\ task' = [task EXCEPT ![k] = r] /\ UNCHANGED <<stream, ops>>
          /\ content' = IF t.kind = "write"
                        THEN [content EXCEPT ![f] = content[f] \o Cells(k, t.n)] ELSE content
        BY <1>10 DEF Fallback, FileOf
    <2>3. CellsIn(g) \subseteq CellsIn(content[f])
        <3>1. wanted \in Nat
            BY <2>1
        <3> HIDE DEF wanted
        <3>2. CellsIn(ReadAt(content[f], 0, wanted)) \subseteq CellsIn(content[f])
            BY <2>1, <3>1, ReadAtCells
        <3> QED
            BY <3>2, EmptyCells
    <2> HIDE DEF g
    <2>4. /\ r.stream = t.stream /\ r.got = g /\ r.state = "ok" /\ r.target = t.target
        BY <1>3 DEF TaskType
    <2>5. \A h \in Files : \A c \in CellsIn(content'[h]) :
              c \in CellsIn(content[h]) \/ (c[1] = k /\ h = FileOf(k))
        <3>1. CellsIn(content[f] \o Cells(k, t.n)) = CellsIn(content[f]) \cup CellsIn(Cells(k, t.n))
            BY <2>1, CellsType, ConcatCells
        <3>2. \A c \in CellsIn(Cells(k, t.n)) : c[1] = k
            BY <2>1, CellsOfOp
        <3> QED
            BY <1>1, <1>3, <2>2, <3>1, <3>2 DEF TypeOK
    <2> HIDE DEF r, t
    <2> QED
        BY <1>1, <1>3, <1>4, <2>2, <2>3, <2>4, <2>5, MovedOwn DEF StreamsStay, t
<1>11. CASE Splice(k)
    <2> DEFINE d == fd_table[t.fd]
               p == WritePos(d, stream[d].pos)
               cell == <<k, 1>>
    <2>1. PICK r \in { [[t EXCEPT !.state = "ok"] EXCEPT !.n = 0], [t EXCEPT !.state = "error"],
                       [t EXCEPT !.state = "ok"] } : task' = [task EXCEPT ![k] = r]
        BY <1>11 DEF Splice
    <2>2. /\ r.stream = t.stream /\ r.got = t.got /\ r.state \in {"ok", "error"}
          /\ r.target = t.target
        BY <1>3, <2>1 DEF TaskType
    <2>3. d = t.stream /\ d \in Streams /\ stream[d].file = FileOf(k) /\ ops' = ops
        BY <1>1, <1>11, OwnNumber DEF Splice, FileOf
    <2>4. \/ UNCHANGED <<content, stream>>
          \/ /\ content' = [content EXCEPT ![stream[d].file] =
                               WriteAt(content[stream[d].file], p, cell)]
             /\ stream' = [stream EXCEPT ![d].pos = p + 1]
        BY <1>11 DEF Splice
    <2>5. content[FileOf(k)] \in Seq(CellType) /\ p \in Nat
        <3>1. stream[d].pos \in Nat
            BY <1>1, <2>3 DEF TypeOK, StreamType
        <3> QED
            BY <1>1, <1>3, <2>3, <3>1, WritePosType DEF TypeOK
    <2>6. cell[1] = k
        OBVIOUS
    <2> HIDE DEF p, cell, d
    <2>7. CellsIn(WriteAt(content[FileOf(k)], p, cell))
              \subseteq CellsIn(content[FileOf(k)]) \cup {cell, Hole}
        BY <2>5, WriteAtCells
    <2>8. \A h \in Files : \A c \in CellsIn(content'[h]) :
              c \in CellsIn(content[h]) \/ c = Hole \/ (c[1] = k /\ h = FileOf(k))
        BY <1>1, <1>3, <2>3, <2>4, <2>6, <2>7 DEF TypeOK
    <2>9. StreamsStay
        BY <1>1, <2>3, <2>4, OffsetMoves DEF StreamsStay
    <2> HIDE DEF t
    <2> QED
        BY <1>1, <1>3, <1>4, <2>1, <2>2, <2>3, <2>8, <2>9, MovedOwn DEF t
<1> QED
    BY <1>6, <1>7, <1>8, <1>9, <1>10, <1>11 DEF Worker

LEMMA KernelOwn ==
    ASSUME IInv, TypeOK', CInv, NEW k \in Ids, Kernel(k) PROVE CInv'
<1> DEFINE t == task[k]
           f == FileOf(k)
<1>1. TypeOK /\ TaskLinks
    BY DEF IInv
<1>2. t.target # NoStream
    <2>1. ASSUME NEW i \in 1 .. MaxBatch, i <= Len(t.at) PROVE t.at # <<>>
        BY <2>1, BoundsAssumption
    <2> QED
        BY <1>1, <2>1 DEF TaskLinks, Kernel, Issue, PerformAread, Perform, PerformFails
<1>3. k <= ops /\ f \in Files /\ t \in TaskType
    BY <1>1, <1>2, WasStarted
<1>4. t.target = t.stream /\ t.stream \in Streams /\ stream[t.target].file = f
    BY <1>2, <1>3 DEF CInv, TaskInv, FileOf, TaskType
<1>5. content[f] \in Seq(CellType) /\ t.got \in Seq(CellType) /\ t.at \in Seq(Nat) /\ t.n \in Nat
    BY <1>1, <1>3 DEF TypeOK, TaskType
<1>6. ASSUME NEW r, task' = [task EXCEPT ![k] = r], ops' = ops, StreamsStay,
             r.stream = t.stream, r.state = t.state, r.fd = t.fd, r.target = t.target,
             CellsIn(r.got) \subseteq CellsIn(t.got) \cup CellsIn(content[f]),
             \A h \in Files : \A c \in CellsIn(content'[h]) :
                 c \in CellsIn(content[h]) \/ c = Hole \/ (c[1] = k /\ h = f)
      PROVE  CInv'
    <2>1. r.state \in {"queued", "ring", "fallback"} => Pending(k)
        BY <1>6 DEF Pending
    <2> HIDE DEF t
    <2> QED
        BY <1>1, <1>3, <1>4, <1>6, <2>1, MovedOwn DEF t
<1>7. CASE Issue(k)
    <2>1. PICK a : task' = [task EXCEPT ![k] = [t EXCEPT !.at = a]]
        BY <1>7 DEF Issue
    <2> DEFINE r == [t EXCEPT !.at = a]
    <2>2. /\ r.stream = t.stream /\ r.state = t.state /\ r.fd = t.fd /\ r.target = t.target
          /\ r.got = t.got
        BY <1>3 DEF TaskType
    <2>3. UNCHANGED <<content, stream, ops>>
        BY <1>7 DEF Issue
    <2> HIDE DEF r, t, f
    <2> QED
        BY <1>6, <2>1, <2>2, <2>3 DEF StreamsStay, r
<1>8. CASE PerformAread(k)
    <2> DEFINE g == ReadAt(content[f], 0, t.n)
               r == [[t EXCEPT !.todo = {}] EXCEPT !.got = g]
    <2>1. task' = [task EXCEPT ![k] = r] /\ UNCHANGED <<content, stream, ops>>
        BY <1>4, <1>8 DEF PerformAread
    <2>2. CellsIn(g) \subseteq CellsIn(content[f])
        BY <1>5, ReadAtCells
    <2> HIDE DEF g
    <2>3. /\ r.stream = t.stream /\ r.state = t.state /\ r.fd = t.fd /\ r.target = t.target
          /\ r.got = g
        BY <1>3 DEF TaskType
    <2> HIDE DEF r, t, f
    <2> QED
        BY <1>6, <2>1, <2>2, <2>3 DEF StreamsStay
<1>9. ASSUME NEW i \in 1 .. MaxBatch, PerformFails(k, i) PROVE CInv'
    <2> DEFINE r == [[t EXCEPT !.todo = t.todo \ {i}] EXCEPT !.failed = TRUE]
    <2>1. task' = [task EXCEPT ![k] = r] /\ UNCHANGED <<content, stream, ops>>
        BY <1>9 DEF PerformFails
    <2>2. /\ r.stream = t.stream /\ r.state = t.state /\ r.fd = t.fd /\ r.target = t.target
          /\ r.got = t.got
        BY <1>3 DEF TaskType
    <2> HIDE DEF r, t, f
    <2> QED
        BY <1>6, <2>1, <2>2 DEF StreamsStay
<1>10. ASSUME NEW i \in 1 .. MaxBatch, Perform(k, i) PROVE CInv'
    <2> DEFINE s == t.target
               rest == t.todo \ {i}
    <2>1. i <= Len(t.at) /\ ops' = ops
        BY <1>10 DEF Perform
    <2>2. t.at[i] \in Nat
        BY <1>5, <2>1
    <2>3. CASE t.kind = "write"
        <3> DEFINE p == WritePos(s, t.at[i])
                   cell == <<k, i>>
                   r == [t EXCEPT !.todo = rest]
        <3>1. /\ task' = [task EXCEPT ![k] = r]
              /\ content' = [content EXCEPT ![f] = WriteAt(content[f], p, cell)]
              /\ stream' = [stream EXCEPT ![s].pos = p + 1]
            BY <1>4, <1>10, <2>3 DEF Perform
        <3>2. p \in Nat /\ cell[1] = k
            BY <1>1, <1>4, <2>2, WritePosType
        <3>3. /\ r.stream = t.stream /\ r.state = t.state /\ r.fd = t.fd
              /\ r.target = t.target /\ r.got = t.got
            BY <1>3 DEF TaskType
        <3>4. StreamsStay
            BY <1>1, <1>4, <3>1, OffsetMoves
        <3> HIDE DEF p, cell, r, t, f
        <3>5. CellsIn(WriteAt(content[f], p, cell)) \subseteq CellsIn(content[f]) \cup {cell, Hole}
            BY <1>5, <3>2, WriteAtCells
        <3>6. \A h \in Files : \A c \in CellsIn(content'[h]) :
                  c \in CellsIn(content[h]) \/ c = Hole \/ (c[1] = k /\ h = f)
            BY <1>1, <1>3, <3>1, <3>2, <3>5 DEF TypeOK
        <3> QED
            BY <1>6, <2>1, <3>1, <3>3, <3>4, <3>6
    <2>4. CASE t.kind \in {"read", "pread"}
        <3> DEFINE g == t.got \o ReadAt(content[f], t.at[i], 1)
                   r == [[t EXCEPT !.todo = rest] EXCEPT !.got = g]
        <3>1. /\ task' = [task EXCEPT ![k] = r] /\ content' = content
              /\ \/ stream' = stream
                 \/ stream' = [stream EXCEPT ![s].pos =
                                  t.at[i] + Len(ReadAt(content[f], t.at[i], 1))]
            BY <1>4, <1>10, <2>4 DEF Perform
        <3>2. CellsIn(g) \subseteq CellsIn(t.got) \cup CellsIn(content[f])
            <4>1. ReadAt(content[f], t.at[i], 1) \in Seq(CellType)
                BY <1>5, <2>2, ReadAtType
            <4>2. CellsIn(ReadAt(content[f], t.at[i], 1)) \subseteq CellsIn(content[f])
                BY <1>5, <2>2, ReadAtCells
            <4> QED
                BY <1>5, <4>1, <4>2, ConcatCells
        <3> HIDE DEF g
        <3>3. /\ r.stream = t.stream /\ r.state = t.state /\ r.fd = t.fd
              /\ r.target = t.target /\ r.got = g
            BY <1>3 DEF TaskType
        <3>4. StreamsStay
            BY <1>1, <1>4, <3>1, OffsetMoves DEF StreamsStay
        <3> HIDE DEF r, t, f
        <3> QED
            BY <1>6, <2>1, <3>1, <3>2, <3>3, <3>4
    <2> QED
        BY <1>10, <2>3, <2>4 DEF Perform
<1> QED
    BY <1>7, <1>8, <1>9, <1>10 DEF Kernel

----------------------------------------------------------------------------
Contained == AwaitBeforeClose => CInv

\* With callers that await before closing, every task works on its own stream's file and
\* every cell is in the file of the stream that wrote it: inductive beside the types.
THEOREM ConfinedInvariance == Spec => [](IInv /\ Contained)
<1>1. Init => Contained
    <2> SUFFICES ASSUME Init PROVE CInv
        BY DEF Contained
    <2>1. \A k \in Ids : /\ task[k].state = "none" /\ task[k].target = NoStream
                         /\ task[k].got = <<>> /\ ~(k <= ops) /\ ~Pending(k)
        BY DEF Init, NoTask, Ids, Pending
    <2>2. \A k \in Ids : TaskInv(k)
        BY <2>1, EmptyCells DEF TaskInv
    <2>3. \A f \in Files : FileInv(f)
        BY EmptyCells DEF Init, FileInv
    <2> QED
        BY <2>2, <2>3 DEF CInv
<1>2. IInv /\ Contained /\ [Next]_vars => Contained'
    <2> SUFFICES ASSUME IInv, CInv, AwaitBeforeClose, [Next]_vars PROVE CInv'
        BY DEF Contained
    <2>1. TypeOK'
        BY NextKeepsInv DEF IInv
    <2>2. CASE UNCHANGED vars
        BY <2>2 DEF vars, CInv, TaskInv, FileInv, Pending, OwnCell, FileOf, CellsIn
    <2> QED
        BY <2>1, <2>2, CallerOwn, WorkerOwn, KernelOwn DEF Next
<1> QED
    BY <1>1, <1>2, InitInv, NextKeepsInv, PTL DEF Spec

\* Where callers await the tasks of a stream before they close it, what is in a file was
\* written through streams of that file, and a read returns what was in its own, although
\* numbers are reused and entries outlive interrupted calls.
THEOREM TasksStayConfined == Spec => [](AwaitBeforeClose => Confined)
<1>1. IInv /\ Contained => (AwaitBeforeClose => Confined)
    <2> SUFFICES ASSUME IInv, CInv PROVE Confined
        BY DEF Contained
    <2>1. ASSUME NEW f \in Files, NEW c \in CellsOf(f) PROVE FileOf(c[1]) = f
        BY <2>1 DEF CInv, FileInv, OwnCell, CellsOf, CellsIn
    <2>2. ASSUME NEW k \in Ids, NEW i \in 1 .. Len(task[k].got), task[k].got[i] # Hole
          PROVE  FileOf(task[k].got[i][1]) = FileOf(k)
        BY <2>2 DEF CInv, TaskInv, OwnCell, CellsIn
    <2> QED
        BY <2>1, <2>2 DEF Confined
<1> QED
    BY <1>1, ConfinedInvariance, PTL

----------------------------------------------------------------------------
(***************************************************************************)
(* What becomes of the cells that are written, for any number of streams,  *)
(* files and operations: none is in the files twice unless its ring call   *)
(* failed, and none is lost from a file that is only appended to.          *)
(*                                                                         *)
(* A cell is written when its entry leaves todo, or when its task falls    *)
(* back or splices; that a task does one of these, and once, is what the   *)
(* invariants say.                                                         *)
(***************************************************************************)

\* Where WriteAt puts its cell, and what it leaves.
LEMMA WriteAtPlaces ==
    ASSUME NEW c \in Seq(CellType), NEW p \in Nat, NEW cell, NEW w, w = WriteAt(c, p, cell)
    PROVE  /\ Len(w) \in Nat /\ p + 1 \in 1 .. Len(w) /\ w[p + 1] = cell
           /\ \A q \in 1 .. Len(w) : q # p + 1 =>
                  w[q] = Hole \/ (q \in 1 .. Len(c) /\ w[q] = c[q])
           /\ \A q \in 1 .. Len(c) : q \in 1 .. Len(w) /\ (q # p + 1 => w[q] = c[q])
<1> DEFINE m == IF p < Len(c) THEN Len(c) ELSE p + 1
<1>1. m \in Nat /\ m >= p + 1 /\ m >= Len(c) /\ Len(c) \in Nat
    OBVIOUS
<1>2. w = [i \in 1 .. m |-> IF i = p + 1 THEN cell ELSE IF i <= Len(c) THEN c[i] ELSE Hole]
    BY DEF WriteAt
<1> HIDE DEF m
<1>3. Len(w) = m
    BY <1>1, <1>2
<1>4. \A q \in 1 .. m : w[q] = IF q = p + 1 THEN cell ELSE IF q <= Len(c) THEN c[q] ELSE Hole
    BY <1>2
<1> QED
    BY <1>1, <1>3, <1>4

\* A sequence and what is appended to it.
LEMMA ConcatPlaces ==
    ASSUME NEW c \in Seq(CellType), NEW d \in Seq(CellType), NEW w, w = c \o d
    PROVE  /\ Len(w) = Len(c) + Len(d) /\ Len(c) \in Nat /\ Len(d) \in Nat
           /\ \A q \in 1 .. Len(c) : w[q] = c[q]
           /\ \A q \in Len(c) + 1 .. Len(c) + Len(d) : w[q] = d[q - Len(c)]
<1>1. Len(c \o d) = Len(c) + Len(d) /\ Len(c) \in Nat /\ Len(d) \in Nat
    OBVIOUS
<1>2. \A q \in 1 .. Len(c) : (c \o d)[q] = c[q]
    OBVIOUS
<1>3. \A q \in Len(c) + 1 .. Len(c) + Len(d) : (c \o d)[q] = d[q - Len(c)]
    OBVIOUS
<1> QED
    BY <1>1, <1>2, <1>3

----------------------------------------------------------------------------
(* No cell twice. *)

Settled == {"ring", "ok", "error"}

\* A cell in the files belongs to an operation that has written it.
WrittenBy(k, c) == task[k].failed \/ (task[k].state \in Settled /\ c[2] \notin task[k].todo)

Accounted == \A f \in Files : \A c \in CellsIn(content[f]) :
    c # Hole => c[1] \in 1 .. ops /\ WrittenBy(c[1], c)

\* Outside the ring a task has no entries left for the kernel.
Resting(k) ==
    /\ k > ops => task[k].state = "none"
    /\ task[k].state \in {"none", "queued"} => task[k].target = NoStream
    /\ ~task[k].failed /\ task[k].state \in {"fallback", "ok", "error"} => task[k].todo = {}
    /\ task[k].kind = "splice" => task[k].todo = {}

OnceInv == NoDuplicates /\ Accounted /\ \A k \in Ids : Resting(k)

\* An operation does not take back what it has written.
Advances(k) ==
    /\ task[k].failed => task'[k].failed
    /\ \/ task'[k].failed
       \/ task[k].state \in Settled => task'[k].state \in Settled
                                       /\ task'[k].todo \subseteq task[k].todo

\* The step puts w into the file f, in which k has written the positions P.
Places(f, k, w, P) ==
    /\ content' = [content EXCEPT ![f] = w]
    /\ P \subseteq 1 .. Len(w)
    /\ \A q \in 1 .. Len(w) \ P :
           w[q] = Hole \/ (q \in 1 .. Len(content[f]) /\ w[q] = content[f][q])
    /\ \A q, r \in P : w[q] = w[r] => q = r
    /\ \A q \in P :
           /\ w[q][1] = k /\ k \in 1 .. ops'
           /\ task'[k].failed \/ \A g \in Files : w[q] \notin CellsIn(content[g])
           /\ task'[k].failed \/ (task'[k].state \in Settled /\ w[q][2] \notin task'[k].todo)

LEMMA PlacedOnce ==
    ASSUME TypeOK, OnceInv, ops <= ops', ops' \in Nat, \A j \in 1 .. ops : Advances(j),
           NEW f \in Files, NEW k, NEW w, NEW P, Places(f, k, w, P)
    PROVE  NoDuplicates' /\ Accounted'
<1> DEFINE old(g, q) == q \in 1 .. Len(content[g]) /\ content'[g][q] = content[g][q]
           added(g, q) == g = f /\ q \in P
           done(c) == \/ task'[c[1]].failed
                      \/ task'[c[1]].state \in Settled /\ c[2] \notin task'[c[1]].todo
<1>1. /\ content'[f] = w
      /\ \A g \in Files : g # f => content'[g] = content[g]
    BY DEF Places, TypeOK
<1>2. \A g \in Files : \A q \in 1 .. Len(content'[g]) :
          content'[g][q] = Hole \/ old(g, q) \/ added(g, q)
    BY <1>1 DEF Places
<1>3. \A g \in Files : \A q : old(g, q) /\ content'[g][q] # Hole =>
          /\ content'[g][q][1] \in 1 .. ops
          /\ WrittenBy(content'[g][q][1], content'[g][q])
          /\ content'[g][q] \in CellsIn(content[g])
    BY DEF OnceInv, Accounted, CellsIn
<1>4. \A q \in P : /\ content'[f][q][1] = k
                   /\ task'[k].failed \/ \A g \in Files : content'[f][q] \notin CellsIn(content[g])
                   /\ \A r \in P : content'[f][q] = content'[f][r] => q = r
    BY <1>1 DEF Places
<1>5. NoDuplicates'
    <2> SUFFICES ASSUME NEW g \in Files, NEW h \in Files,
                        NEW p \in 1 .. Len(content'[g]), NEW q \in 1 .. Len(content'[h]),
                        content'[g][p] = content'[h][q], content'[g][p] # Hole,
                        ~task'[content'[g][p][1]].failed
                 PROVE  g = h /\ p = q
        BY DEF NoDuplicates, Hole
    <2>1. CASE old(g, p) /\ old(h, q)
        <3> DEFINE v == content'[g][p]
        <3>1. v[1] \in 1 .. ops
            BY <1>3, <2>1
        <3>2. Advances(v[1]) /\ ~task'[v[1]].failed
            BY <3>1
        <3>3. ~task[v[1]].failed
            BY <3>2, Zenon DEF Advances
        <3>4. content[g][p] = v /\ content[h][q] = v
              /\ p \in 1 .. Len(content[g]) /\ q \in 1 .. Len(content[h]) /\ v # Hole
            BY <2>1
        <3> HIDE DEF v
        <3> QED
            BY <3>3, <3>4 DEF OnceInv, NoDuplicates
    <2>2. CASE added(g, p) /\ added(h, q)
        BY <1>4, <2>2
    <2>3. CASE old(g, p) /\ added(h, q)
        BY <1>3, <1>4, <2>3
    <2>4. CASE added(g, p) /\ old(h, q)
        BY <1>3, <1>4, <2>4
    <2> QED
        BY <1>2, <2>1, <2>2, <2>3, <2>4
<1>6. Accounted'
    <2> SUFFICES ASSUME NEW g \in Files, NEW q \in 1 .. Len(content'[g]),
                        content'[g][q] # Hole
                 PROVE  content'[g][q][1] \in 1 .. ops' /\ done(content'[g][q])
        BY DEF Accounted, CellsIn, Hole, WrittenBy
    <2> DEFINE c == content'[g][q]
    <2>1. CASE old(g, q)
        <3>1. c[1] \in 1 .. ops /\ WrittenBy(c[1], c) /\ ops \in Nat
            BY <1>3, <2>1, BoundsAssumption DEF TypeOK
        <3>2. Advances(c[1])
            BY <3>1
        <3> HIDE DEF c
        <3>3. c[1] \in 1 .. ops'
            BY <3>1
        <3>4. done(c)
            BY <3>1, <3>2, Zenon DEF WrittenBy, Advances
        <3> QED
            BY <3>3, <3>4 DEF c
    <2>2. CASE added(g, q)
        <3>1. c = w[q] /\ q \in P
            BY <1>1, <2>2
        <3> HIDE DEF c
        <3>2. c[1] \in 1 .. ops' /\ done(c)
            BY <3>1 DEF Places
        <3> QED
            BY <3>2 DEF c
    <2> QED
        BY <1>2, <2>1, <2>2
<1> QED
    BY <1>5, <1>6

\* A cell that its operation has not written yet is in no file.
LEMMA NotYetWritten ==
    ASSUME OnceInv, NEW k \in Nat \ {0}, NEW i,
           \/ k \notin 1 .. ops
           \/ ~task[k].failed /\ (task[k].state \notin Settled \/ i \in task[k].todo)
    PROVE  \A g \in Files : <<k, i>> \notin CellsIn(content[g])
<1> SUFFICES ASSUME NEW g \in Files, NEW c \in CellsIn(content[g]), c = <<k, i>> PROVE FALSE
    OBVIOUS
<1>1. c[1] = k /\ c[2] = i /\ c # Hole
    BY DEF Hole
<1>2. c[1] \in 1 .. ops /\ WrittenBy(c[1], c)
    BY <1>1, Zenon DEF OnceInv, Accounted
<1> QED
    BY <1>1, <1>2 DEF WrittenBy

LEMMA NothingPlaced ==
    ASSUME TypeOK, content' = content, NEW f \in Files, NEW k
    PROVE  Places(f, k, content[f], {})
BY DEF TypeOK, Places

LEMMA OnePlaced ==
    ASSUME TypeOK, NEW f \in Files, NEW k \in 1 .. ops', NEW i, NEW p \in Nat,
           content' = [content EXCEPT ![f] = WriteAt(content[f], p, <<k, i>>)],
           \/ task'[k].failed
           \/ /\ \A g \in Files : <<k, i>> \notin CellsIn(content[g])
              /\ task'[k].state \in Settled /\ i \notin task'[k].todo
    PROVE  \E w, P : Places(f, k, w, P)
<1> DEFINE cell == <<k, i>>
           w == WriteAt(content[f], p, cell)
<1>1. content[f] \in Seq(CellType)
    BY DEF TypeOK
<1>2. cell[1] = k /\ cell[2] = i
    OBVIOUS
<1>3. content' = [content EXCEPT ![f] = w]
    OBVIOUS
<1>4. \/ task'[k].failed
      \/ /\ \A g \in Files : cell \notin CellsIn(content[g])
         /\ task'[k].state \in Settled /\ i \notin task'[k].todo
    OBVIOUS
<1>5. PICK v : v = w
    OBVIOUS
<1> HIDE DEF cell, w
<1>6. /\ p + 1 \in 1 .. Len(v) /\ v[p + 1] = cell
      /\ \A q \in 1 .. Len(v) : q # p + 1 =>
             v[q] = Hole \/ (q \in 1 .. Len(content[f]) /\ v[q] = content[f][q])
    BY <1>1, <1>5, WriteAtPlaces DEF w
<1>7. Places(f, k, v, {p + 1})
    BY <1>2, <1>3, <1>4, <1>5, <1>6 DEF Places
<1> QED
    BY <1>7

LEMMA AllPlaced ==
    ASSUME TypeOK, NEW f \in Files, NEW k \in 1 .. ops', NEW n \in Nat, k \in Nat,
           content' = [content EXCEPT ![f] = content[f] \o Cells(k, n)],
           \/ task'[k].failed
           \/ /\ \A i : \A g \in Files : <<k, i>> \notin CellsIn(content[g])
              /\ task'[k].state \in Settled /\ task'[k].todo = {}
    PROVE  \E w, P : Places(f, k, w, P)
<1> DEFINE d == Cells(k, n)
           c == content[f]
<1>1. c \in Seq(CellType) /\ d \in Seq(CellType)
    BY CellsType DEF TypeOK
<1>2. Len(d) = n /\ \A i \in 1 .. n : d[i] = <<k, i>>
    BY DEF Cells
<1>3. PICK v : v = c \o d
    OBVIOUS
<1>4. content' = [content EXCEPT ![f] = v]
    BY <1>3
<1> HIDE DEF c, d
<1>5. /\ Len(v) = Len(c) + n /\ Len(c) \in Nat
      /\ \A q \in 1 .. Len(c) : v[q] = c[q]
      /\ \A q \in Len(c) + 1 .. Len(c) + n : v[q] = d[q - Len(c)]
    <2>1. /\ Len(v) = Len(c) + Len(d) /\ Len(c) \in Nat
          /\ \A q \in 1 .. Len(c) : v[q] = c[q]
          /\ \A q \in Len(c) + 1 .. Len(c) + Len(d) : v[q] = d[q - Len(c)]
        BY <1>1, <1>3, ConcatPlaces
    <2>2. Len(d) = n
        BY <1>2
    <2> QED
        BY <2>1, <2>2
<1> DEFINE P == Len(c) + 1 .. Len(c) + n
<1>6. \A q \in P : v[q] = <<k, q - Len(c)>>
    <2> SUFFICES ASSUME NEW q \in P PROVE v[q] = <<k, q - Len(c)>>
        OBVIOUS
    <2>1. q - Len(c) \in 1 .. n
        BY <1>5
    <2> QED
        BY <1>2, <1>5, <2>1
<1>7. P \subseteq 1 .. Len(v) /\ \A q \in 1 .. Len(v) \ P : q \in 1 .. Len(c)
    BY <1>5
<1>8. \A q, r \in P : v[q] = v[r] => q = r
    <2> SUFFICES ASSUME NEW q \in P, NEW r \in P, v[q] = v[r] PROVE q = r
        OBVIOUS
    <2>1. q - Len(c) = r - Len(c)
        BY <1>6
    <2> QED
        BY <1>5, <2>1
<1>9. \A q \in P : /\ v[q][1] = k
                   /\ task'[k].failed \/ \A g \in Files : v[q] \notin CellsIn(content[g])
                   /\ task'[k].failed \/ (task'[k].state \in Settled /\ v[q][2] \notin task'[k].todo)
    <2> SUFFICES ASSUME NEW q \in P, ~task'[k].failed
                 PROVE  v[q][1] = k /\ (\A g \in Files : v[q] \notin CellsIn(content[g]))
                        /\ task'[k].state \in Settled /\ v[q][2] \notin task'[k].todo
        <3>1. \A q \in P : v[q][1] = k
            BY <1>6
        <3> QED
            BY <3>1
    <2>1. PICK j : v[q] = <<k, j>>
        BY <1>6
    <2>2. v[q][1] = k
        BY <2>1
    <2> QED
        BY <2>1, <2>2
<1> HIDE DEF P
<1>10. Places(f, k, v, P)
    BY <1>4, <1>5, <1>7, <1>8, <1>9 DEF Places, c
<1> QED
    BY <1>10

\* A step of one operation, old or new.
LEMMA MovedOnce ==
    ASSUME TypeOK, TypeOK', OnceInv, NEW k \in Ids, ops <= ops',
           \A j \in Ids : j # k => task'[j] = task[j],
           k <= ops => Advances(k), Resting(k)',
           NEW f \in Files, \E w, P : Places(f, k, w, P)
    PROVE  OnceInv'
<1>1. ops \in Nat /\ ops' \in Nat /\ \A j \in 1 .. ops : j \in Ids /\ j <= ops
    BY BoundsAssumption DEF TypeOK, Ids
<1>2. ASSUME NEW j \in 1 .. ops PROVE Advances(j)
    BY <1>1 DEF Advances
<1>3. NoDuplicates' /\ Accounted'
    BY <1>1, <1>2, PlacedOnce
<1>4. ASSUME NEW j \in Ids PROVE Resting(j)'
    <2>1. CASE j = k
        BY <2>1
    <2>2. CASE j # k
        <3>1. Resting(j) /\ task'[j] = task[j] /\ (j > ops' => j > ops)
            BY <1>1, <2>2 DEF OnceInv, Ids
        <3> QED
            BY <3>1 DEF Resting
    <2> QED
        BY <2>1, <2>2
<1> QED
    BY <1>3, <1>4 DEF OnceInv

\* An operation that starts, and may have written a cell at once.
LEMMA StartedOnce ==
    ASSUME TypeOK, TypeOK', OnceInv, ops < MaxOps, NEW r, Started(r),
           \/ r.state = "queued" /\ r.target = NoStream /\ (r.kind = "splice" => r.todo = {})
           \/ r.state = "ok" /\ r.todo = {},
           NEW f \in Files, \E w, P : Places(f, ops + 1, w, P)
    PROVE  OnceInv'
<1>1. PICK k \in Ids : k = ops + 1
    BY BoundsAssumption DEF TypeOK, Ids
<1>2. task'[k] = r /\ (\A j \in Ids : j # k => task'[j] = task[j]) /\ ops' = k
    BY <1>1 DEF TypeOK, Started
<1>3. ops \in Nat /\ ops <= ops' /\ ~(k <= ops) /\ ~(k > ops')
    BY <1>1, <1>2 DEF TypeOK
<1>4. Resting(k)'
    BY <1>2, <1>3 DEF Resting
<1> QED
    BY <1>1, <1>2, <1>3, <1>4, MovedOnce

LEMMA CallerOnce ==
    ASSUME TypeOK, TypeOK', OnceInv, NEW s \in Streams, Caller(s)
    PROVE  OnceInv'
<1>1. stream[s].file \in Files /\ ops \in Nat
    BY DEF TypeOK, StreamType
<1>2. ASSUME UNCHANGED <<task, ops>>,
             content' = content \/ \E f \in Files : content' = [content EXCEPT ![f] = <<>>]
      PROVE  OnceInv'
    <2>1. \E f \in Files : \E w : Places(f, 0, w, {})
        <3>1. CASE content' = content
            BY <1>1, <3>1, NothingPlaced
        <3>2. CASE \E f \in Files : content' = [content EXCEPT ![f] = <<>>]
            <4>1. PICK f \in Files : content' = [content EXCEPT ![f] = <<>>]
                BY <3>2
            <4>2. Places(f, 0, <<>>, {})
                BY <4>1 DEF Places
            <4> QED
                BY <4>2
        <3> QED
            BY <1>2, <3>1, <3>2
    <2>2. PICK f \in Files : \E w : Places(f, 0, w, {})
        BY <2>1
    <2>5. PICK w : Places(f, 0, w, {})
        BY <2>2
    <2>3. \A j \in 1 .. ops : Advances(j)
        BY <1>2 DEF Advances
    <2>4. NoDuplicates' /\ Accounted'
        BY <1>1, <1>2, <2>5, <2>3, PlacedOnce
    <2> QED
        BY <1>2, <2>4 DEF OnceInv, Resting
<1>3. ASSUME NEW f \in Files, NEW m \in Modes, new(s, f, m) PROVE OnceInv'
    BY <1>2, <1>3 DEF new
<1>4. CASE close(s) \/ seek(s)
    BY <1>2, <1>4 DEF close, seek
<1>5. ASSUME NEW r, Started(r), ops < MaxOps, content' = content,
             \/ r.state = "queued" /\ r.target = NoStream /\ (r.kind = "splice" => r.todo = {})
             \/ r.state = "ok" /\ r.todo = {}
      PROVE  OnceInv'
    BY <1>1, <1>5, NothingPlaced, StartedOnce
<1>6. CASE read(s)
    <2> DEFINE r == Ended(s, "read", 1, ReadAt(content[stream[s].file], stream[s].pos, 1))
    <2>1. Started(r) /\ ops < MaxOps /\ content' = content
        BY <1>6 DEF read, MayStart
    <2>2. r.state = "ok" /\ r.todo = {}
        BY DEF Ended, NoTask
    <2> HIDE DEF r
    <2> QED
        BY <1>5, <2>1, <2>2
<1>7. CASE write(s)
    <2> DEFINE r == Ended(s, "write", 1, <<>>)
               f == stream[s].file
               p == WritePos(s, stream[s].pos)
    <2>1. /\ Started(r) /\ ops < MaxOps
          /\ content' = [content EXCEPT ![f] = WriteAt(content[f], p, <<ops + 1, 1>>)]
        BY <1>7 DEF write, MayStart
    <2>2. r.state = "ok" /\ r.todo = {}
        BY DEF Ended, NoTask
    <2>3. p \in Nat
        BY WritePosType DEF TypeOK, StreamType
    <2>4. PICK k : k = ops + 1
        OBVIOUS
    <2> HIDE DEF r, p, f
    <2>5. k \in Ids /\ k \in Nat \ {0} /\ k \notin 1 .. ops /\ k \in 1 .. ops'
        BY <1>1, <2>1, <2>4, BoundsAssumption DEF Ids, Started
    <2>6. task'[k] = r
        BY <2>1, <2>4, <2>5 DEF Started, TypeOK
    <2>7. \A g \in Files : <<k, 1>> \notin CellsIn(content[g])
        BY <2>5, NotYetWritten
    <2>8. \E w, P : Places(f, k, w, P)
        BY <1>1, <2>1, <2>2, <2>3, <2>4, <2>5, <2>6, <2>7, OnePlaced DEF Settled, f
    <2> QED
        BY <1>1, <2>1, <2>2, <2>4, <2>8, StartedOnce DEF f
<1>8. CASE aread(s) \/ awrite(s) \/ aread_batch(s) \/ awrite_batch(s)
    <2>1. PICK kind, n : Spawn(s, kind, n) /\ kind # "splice"
        BY <1>8 DEF aread, awrite, aread_batch, awrite_batch
    <2> DEFINE r == [NoTask EXCEPT !.state = "queued", !.kind = kind, !.stream = s, !.n = n,
                                   !.fd = stream[s].fd, !.todo = 1 .. n]
    <2>2. Started(r) /\ ops < MaxOps /\ content' = content
        BY <2>1 DEF Spawn, MayStart
    <2>3. r.state = "queued" /\ r.target = NoStream /\ r.kind # "splice"
        BY <2>1 DEF NoTask
    <2> HIDE DEF r
    <2> QED
        BY <1>5, <2>2, <2>3
<1>9. ASSUME NEW u \in Streams, asplice(s, u) PROVE OnceInv'
    <2> DEFINE r == [NoTask EXCEPT !.state = "queued", !.kind = "splice", !.stream = u, !.n = 1,
                                   !.fd = stream[u].fd, !.from = stream[s].file]
    <2>1. Started(r) /\ ops < MaxOps /\ content' = content
        BY <1>9 DEF asplice, MayStart
    <2>2. r.state = "queued" /\ r.target = NoStream /\ r.todo = {}
        BY DEF NoTask
    <2> HIDE DEF r
    <2> QED
        BY <1>5, <2>1, <2>2
<1> QED
    BY <1>3, <1>4, <1>6, <1>7, <1>8, <1>9 DEF Caller

----------------------------------------------------------------------------
(* A step of a task, and of the kernel on its behalf. *)

\* The task a step leaves, r in place of t.
Follows(r, t) ==
    /\ t.failed => r.failed
    /\ \/ r.failed
       \/ t.state \in Settled => r.state \in Settled /\ r.todo \subseteq t.todo
    /\ r.state \in {"none", "queued"} => r.target = NoStream
    /\ ~r.failed /\ r.state \in {"fallback", "ok", "error"} => r.todo = {}
    /\ r.kind = "splice" => r.todo = {}

LEMMA StartedTask ==
    ASSUME TypeOK, OnceInv, NEW k \in Ids, task[k].state # "none"
    PROVE  k <= ops /\ k \in 1 .. ops /\ task[k] \in TaskType
<1>1. ops \in Nat /\ k \in Nat /\ 1 <= k /\ task[k] \in TaskType
    BY BoundsAssumption DEF TypeOK, Ids
<1>2. ~(k > ops)
    BY DEF OnceInv, Resting
<1> QED
    BY <1>1, <1>2

LEMMA MovedTo ==
    ASSUME TypeOK, TypeOK', OnceInv, NEW k \in Ids, k <= ops, ops' = ops,
           NEW r, task' = [task EXCEPT ![k] = r], Follows(r, task[k]),
           NEW f \in Files, content' = content \/ \E w, P : Places(f, k, w, P)
    PROVE  OnceInv'
<1>1. task'[k] = r /\ \A j \in Ids : j # k => task'[j] = task[j]
    BY DEF TypeOK
<1>2. ops \in Nat /\ ops <= ops' /\ k \in Nat /\ ~(k > ops')
    BY BoundsAssumption DEF TypeOK, Ids
<1>3. Advances(k)
    BY <1>1 DEF Advances, Follows
<1>4. Resting(k)'
    BY <1>1, <1>2 DEF Resting, Follows
<1>5. \E w, P : Places(f, k, w, P)
    BY NothingPlaced
<1> QED
    BY <1>1, <1>2, <1>3, <1>4, <1>5, MovedOnce

LEMMA WorkerOnce ==
    ASSUME IInv, TypeOK', OnceInv, NEW k \in Ids, Worker(k) PROVE OnceInv'
<1> DEFINE t == task[k]
<1>1. TypeOK
    BY DEF IInv
<1>2. t.state \in {"queued", "ring", "fallback"}
    BY DEF Worker, RingStart, RingRefused, RingEnd, RingInterrupted, Fallback, Splice
<1>3. k <= ops /\ t \in TaskType /\ k \in 1 .. ops /\ k \in Nat \ {0}
    BY <1>1, <1>2, StartedTask DEF Ids
<1>4. /\ t.state = "queued" => t.target = NoStream
      /\ ~t.failed /\ t.state = "fallback" => t.todo = {}
      /\ t.kind = "splice" => t.todo = {}
    BY DEF OnceInv, Resting
<1>5. \E f \in Files : TRUE
    BY StreamAssumption
<1>6. ASSUME UNCHANGED <<content, ops>>, NEW r, task' = [task EXCEPT ![k] = r], Follows(r, t)
      PROVE  OnceInv'
    BY <1>1, <1>3, <1>5, <1>6, MovedTo
<1>7. CASE RingStart(k)
    <2> DEFINE d == fd_table[t.fd]
               here == d # NoStream /\ Allowed(d, t.kind)
               r == IF here THEN [[t EXCEPT !.state = "ring"] EXCEPT !.target = d]
                    ELSE [[t EXCEPT !.state = "fallback"] EXCEPT !.todo = {}]
    <2>1. task' = [task EXCEPT ![k] = r] /\ UNCHANGED <<content, ops>> /\ t.state = "queued"
        BY <1>7 DEF RingStart
    <2> HIDE DEF here, d
    <2>2. /\ r.failed = t.failed /\ r.kind = t.kind
          /\ (r.state = "ring" /\ r.todo = t.todo) \/ (r.state = "fallback" /\ r.todo = {})
        BY <1>3 DEF TaskType
    <2> HIDE DEF r, t
    <2>3. Follows(r, t)
        BY <1>4, <2>1, <2>2 DEF Follows, Settled
    <2> QED
        BY <1>6, <2>1, <2>3
<1>8. CASE RingRefused(k)
    <2> DEFINE r == [[t EXCEPT !.state = "fallback"] EXCEPT !.todo = {}]
    <2>1. /\ task' = [task EXCEPT ![k] = r] /\ UNCHANGED <<content, ops>>
          /\ t.state = "queued"
        BY <1>8 DEF RingRefused
    <2>2. r.failed = t.failed /\ r.kind = t.kind /\ r.state = "fallback" /\ r.todo = {}
        BY <1>3 DEF TaskType
    <2> HIDE DEF r, t
    <2>3. Follows(r, t)
        BY <2>1, <2>2 DEF Follows, Settled
    <2> QED
        BY <1>6, <2>1, <2>3
<1>9. CASE RingEnd(k)
    <2> DEFINE x == IF t.failed THEN "fallback" ELSE "ok"
               r == [t EXCEPT !.state = x]
    <2>1. task' = [task EXCEPT ![k] = r] /\ UNCHANGED <<content, ops>> /\ t.todo = {}
        BY <1>9 DEF RingEnd
    <2>2. /\ r.failed = t.failed /\ r.kind = t.kind /\ r.todo = t.todo
          /\ (t.failed /\ r.state = "fallback") \/ (~t.failed /\ r.state = "ok")
        BY <1>3 DEF TaskType
    <2> HIDE DEF r, t
    <2>3. Follows(r, t)
        BY <2>1, <2>2 DEF Follows, Settled
    <2> QED
        BY <1>6, <2>1, <2>3
<1>10. CASE RingInterrupted(k)
    <2> DEFINE r == [[t EXCEPT !.state = "fallback"] EXCEPT !.failed = TRUE]
    <2>1. task' = [task EXCEPT ![k] = r] /\ UNCHANGED <<content, ops>>
        BY <1>10 DEF RingInterrupted
    <2>2. r.failed /\ r.kind = t.kind /\ r.todo = t.todo /\ r.state = "fallback"
        BY <1>3 DEF TaskType
    <2> HIDE DEF r, t
    <2>3. Follows(r, t)
        BY <1>4, <2>2 DEF Follows
    <2> QED
        BY <1>6, <2>1, <2>3
<1>11. CASE Fallback(k)
    <2> DEFINE f == FileOf(k)
    <2>1. PICK g : task' = [task EXCEPT ![k] = [[t EXCEPT !.state = "ok"] EXCEPT !.got = g]]
        BY <1>11 DEF Fallback
    <2> DEFINE r == [[t EXCEPT !.state = "ok"] EXCEPT !.got = g]
    <2>2. /\ ops' = ops /\ t.state = "fallback"
          /\ content' = IF t.kind = "write"
                        THEN [content EXCEPT ![f] = content[f] \o Cells(k, t.n)] ELSE content
        BY <1>11 DEF Fallback, FileOf
    <2>3. r.failed = t.failed /\ r.kind = t.kind /\ r.todo = t.todo /\ r.state = "ok"
        BY <1>3 DEF TaskType
    <2>4. task'[k] = r /\ task' = [task EXCEPT ![k] = r]
        BY <1>1, <2>1 DEF TypeOK
    <2>5. f \in Files /\ t.n \in Nat
        BY <1>1, <1>3 DEF FileOf, TypeOK, TaskType, StreamType
    <2> HIDE DEF r, f
    <2>6. Follows(r, t)
        BY <1>4, <2>2, <2>3 DEF Follows, Settled
    <2>7. ~task[k].failed => \A i : \A h \in Files : <<k, i>> \notin CellsIn(content[h])
        BY <1>3, <2>2, NotYetWritten DEF Settled
    <2>8. \/ task'[k].failed
          \/ /\ \A i : \A h \in Files : <<k, i>> \notin CellsIn(content[h])
             /\ task'[k].state \in Settled /\ task'[k].todo = {}
        BY <1>4, <2>2, <2>3, <2>4, <2>7 DEF Settled
    <2>9. content' = content \/ \E w, P : Places(f, k, w, P)
        BY <1>1, <1>3, <2>2, <2>5, <2>8, AllPlaced
    <2> QED
        BY <1>1, <1>3, <2>2, <2>4, <2>5, <2>6, <2>9, MovedTo
<1>12. CASE Splice(k)
    <2> DEFINE d == fd_table[t.fd]
               p == WritePos(d, stream[d].pos)
               f == stream[d].file
    <2>1. PICK r \in { [[t EXCEPT !.state = "ok"] EXCEPT !.n = 0], [t EXCEPT !.state = "error"],
                       [t EXCEPT !.state = "ok"] } : task' = [task EXCEPT ![k] = r]
        BY <1>12 DEF Splice
    <2>2. /\ r.failed = t.failed /\ r.kind = t.kind /\ r.todo = t.todo
          /\ r.state \in {"ok", "error"}
        BY <1>3, <2>1 DEF TaskType
    <2>3. t.state = "queued" /\ t.kind = "splice" /\ ops' = ops /\ t.todo = {}
        BY <1>4, <1>12 DEF Splice
    <2>4. \/ content' = content
          \/ /\ content' = [content EXCEPT ![f] = WriteAt(content[f], p, <<k, 1>>)]
             /\ d # NoStream
        BY <1>12 DEF Splice
    <2>5. task'[k] = r
        BY <1>1, <2>1 DEF TypeOK
    <2>6. Follows(r, t)
        BY <2>2, <2>3 DEF Follows, Settled
    <2>7. \/ task'[k].failed
          \/ /\ \A h \in Files : <<k, 1>> \notin CellsIn(content[h])
             /\ task'[k].state \in Settled /\ 1 \notin task'[k].todo
        BY <1>3, <2>2, <2>3, <2>5, NotYetWritten DEF Settled
    <2>8. t.fd \in Fds
        BY <2>3 DEF IInv, TaskLinks
    <2>9. d # NoStream => d \in Streams /\ f \in Files /\ p \in Nat
        BY <1>1, <2>8, WritePosType DEF TypeOK, StreamType
    <2> HIDE DEF d, p, f
    <2>10. content' = content \/ (f \in Files /\ \E w, P : Places(f, k, w, P))
        BY <1>1, <1>3, <2>3, <2>4, <2>7, <2>9, OnePlaced
    <2> QED
        BY <1>1, <1>3, <1>5, <2>1, <2>3, <2>6, <2>10, MovedTo
<1> QED
    BY <1>7, <1>8, <1>9, <1>10, <1>11, <1>12 DEF Worker

LEMMA KernelOnce ==
    ASSUME IInv, TypeOK', OnceInv, NEW k \in Ids, Kernel(k) PROVE OnceInv'
<1> DEFINE t == task[k]
           s == t.target
           f == stream[s].file
<1>1. TypeOK /\ TaskLinks
    BY DEF IInv
<1>2. s # NoStream
    <2>1. ASSUME NEW i \in 1 .. MaxBatch, i <= Len(t.at) PROVE t.at # <<>>
        BY <2>1, BoundsAssumption
    <2> QED
        BY <1>1, <2>1 DEF TaskLinks, Kernel, Issue, PerformAread, Perform, PerformFails
<1>3. /\ t.state \notin {"none", "queued"}
      /\ ~t.failed /\ t.state \in {"fallback", "ok", "error"} => t.todo = {}
      /\ t.kind = "splice" => t.todo = {}
    BY <1>2 DEF OnceInv, Resting
<1>4. k <= ops /\ t \in TaskType /\ k \in 1 .. ops /\ k \in Nat \ {0}
    BY <1>1, <1>3, StartedTask DEF Ids
<1>5. s \in Streams /\ f \in Files
    BY <1>1, <1>2, <1>4 DEF TaskType, TypeOK, StreamType
<1>6. ASSUME NEW r, task' = [task EXCEPT ![k] = r], ops' = ops,
             r.state = t.state, r.target = t.target, r.kind = t.kind,
             t.failed => r.failed, r.todo \subseteq t.todo,
             content' = content \/ \E w, P : Places(f, k, w, P)
      PROVE  OnceInv'
    <2> HIDE DEF t, f
    <2>1. Follows(r, t)
        BY <1>3, <1>6 DEF Follows
    <2> QED
        BY <1>1, <1>4, <1>5, <1>6, <2>1, MovedTo DEF t
<1>7. CASE Issue(k)
    <2>1. PICK a : task' = [task EXCEPT ![k] = [t EXCEPT !.at = a]]
        BY <1>7 DEF Issue
    <2> DEFINE r == [t EXCEPT !.at = a]
    <2>2. /\ r.state = t.state /\ r.target = t.target /\ r.kind = t.kind
          /\ r.failed = t.failed /\ r.todo = t.todo
        BY <1>4 DEF TaskType
    <2>3. UNCHANGED <<content, ops>>
        BY <1>7 DEF Issue
    <2> HIDE DEF r, t, f
    <2> QED
        BY <1>6, <2>1, <2>2, <2>3 DEF r
<1>8. CASE PerformAread(k)
    <2>1. PICK g : task' = [task EXCEPT ![k] = [[t EXCEPT !.todo = {}] EXCEPT !.got = g]]
        BY <1>8 DEF PerformAread
    <2> DEFINE r == [[t EXCEPT !.todo = {}] EXCEPT !.got = g]
    <2>2. /\ r.state = t.state /\ r.target = t.target /\ r.kind = t.kind
          /\ r.failed = t.failed /\ r.todo = {}
        BY <1>4 DEF TaskType
    <2>3. UNCHANGED <<content, ops>>
        BY <1>8 DEF PerformAread
    <2> HIDE DEF r, t, f
    <2> QED
        BY <1>6, <2>1, <2>2, <2>3 DEF r
<1>9. ASSUME NEW i \in 1 .. MaxBatch, PerformFails(k, i) PROVE OnceInv'
    <2> DEFINE r == [[t EXCEPT !.todo = t.todo \ {i}] EXCEPT !.failed = TRUE]
    <2>1. task' = [task EXCEPT ![k] = r] /\ UNCHANGED <<content, ops>>
        BY <1>9 DEF PerformFails
    <2>2. /\ r.state = t.state /\ r.target = t.target /\ r.kind = t.kind
          /\ r.failed /\ r.todo \subseteq t.todo
        BY <1>4 DEF TaskType
    <2> HIDE DEF r, t, f
    <2> QED
        BY <1>6, <2>1, <2>2
<1>10. ASSUME NEW i \in 1 .. MaxBatch, Perform(k, i) PROVE OnceInv'
    <2>1. i \in t.todo /\ i <= Len(t.at) /\ ops' = ops
        BY <1>10 DEF Perform
    <2> DEFINE left == [t EXCEPT !.todo = t.todo \ {i}]
    <2>2. PICK r : task' = [task EXCEPT ![k] = r]
                   /\ (r = left \/ \E g : r = [left EXCEPT !.got = g])
        <3>1. CASE task' = [task EXCEPT ![k] = left]
            BY <3>1
        <3>2. CASE \E g : task' = [task EXCEPT ![k] = [left EXCEPT !.got = g]]
            BY <3>2
        <3>3. \/ task' = [task EXCEPT ![k] = left]
              \/ \E g : task' = [task EXCEPT ![k] = [left EXCEPT !.got = g]]
            BY <1>10 DEF Perform
        <3> QED
            BY <3>1, <3>2, <3>3
    <2>3. /\ r.state = t.state /\ r.target = t.target /\ r.kind = t.kind
          /\ r.failed = t.failed /\ r.todo = t.todo \ {i}
        BY <1>4, <2>2 DEF TaskType
    <2>4. content' = content \/ \E w, P : Places(f, k, w, P)
        <3> DEFINE p == WritePos(s, t.at[i])
        <3>1. \/ content' = content
              \/ content' = [content EXCEPT ![f] = WriteAt(content[f], p, <<k, i>>)]
            BY <1>10 DEF Perform
        <3>2. t.at[i] \in Nat
            BY <1>4, <2>1 DEF TaskType
        <3>3. p \in Nat
            BY <1>1, <1>5, <3>2, WritePosType
        <3>4. task'[k] = r
            BY <1>1, <2>2 DEF TypeOK
        <3>5. t.state \in States
            BY <1>4 DEF TaskType, States
        <3>6. ~t.failed => t.state \in Settled
            BY <1>3, <2>1, <3>5 DEF Settled, States
        <3> HIDE DEF p, s, f, t
        <3>7. \/ task'[k].failed
              \/ /\ \A h \in Files : <<k, i>> \notin CellsIn(content[h])
                 /\ task'[k].state \in Settled /\ i \notin task'[k].todo
            BY <1>4, <2>1, <2>3, <3>4, <3>6, NotYetWritten DEF t
        <3> QED
            BY <1>1, <1>4, <1>5, <2>1, <3>1, <3>3, <3>7, OnePlaced
    <2> HIDE DEF t, f
    <2> QED
        BY <1>6, <2>1, <2>2, <2>3, <2>4
<1> QED
    BY <1>7, <1>8, <1>9, <1>10 DEF Kernel

----------------------------------------------------------------------------
\* Every cell in the files is there once and was written by an operation that has it
\* behind it: inductive beside the invariant of the descriptor table.
THEOREM OnceInvariance == Spec => [](IInv /\ OnceInv)
<1>1. Init => OnceInv
    <2> SUFFICES ASSUME Init PROVE OnceInv
        OBVIOUS
    <2>1. \A f \in Files : content[f] = <<>>
        BY DEF Init
    <2>2. NoDuplicates
        BY <2>1 DEF NoDuplicates
    <2>3. Accounted
        BY <2>1, EmptyCells DEF Accounted
    <2>4. \A k \in Ids : Resting(k)
        BY DEF Init, NoTask, Resting
    <2> QED
        BY <2>2, <2>3, <2>4 DEF OnceInv
<1>2. IInv /\ OnceInv /\ [Next]_vars => OnceInv'
    <2> SUFFICES ASSUME IInv, OnceInv, [Next]_vars PROVE OnceInv'
        OBVIOUS
    <2>1. TypeOK /\ TypeOK'
        BY NextKeepsInv DEF IInv
    <2>2. CASE UNCHANGED vars
        BY <2>2 DEF vars, OnceInv, NoDuplicates, Accounted, WrittenBy, CellsIn, Resting
    <2> QED
        BY <2>1, <2>2, CallerOnce, WorkerOnce, KernelOnce DEF Next
<1> QED
    BY <1>1, <1>2, InitInv, NextKeepsInv, PTL DEF Spec

\* A cell is in the files once, unless the ring call that wrote it failed: a task falls
\* back without a failed call only before the kernel has taken its entries.
THEOREM NoCellTwice == Spec => []NoDuplicates
<1>1. OnceInv => NoDuplicates
    BY DEF OnceInv
<1> QED
    BY <1>1, OnceInvariance, PTL

----------------------------------------------------------------------------
(* Nothing lost from a file that is only appended to. *)

AppendOnly(f) == \A s \in OpenedOn(f) : stream[s].opts.write => stream[s].opts.append

\* What a write has put into its file so far: every cell when it has ended, and while
\* its ring call has not failed those whose entries are done.
InFile(r, k, C) ==
    /\ r.state = "ok" /\ r.kind \in {"write", "splice"} => \A i \in 1 .. r.n : <<k, i>> \in C
    /\ r.state = "ring" /\ r.kind = "write" /\ ~r.failed =>
           \A i \in 1 .. r.n : i \notin r.todo => <<k, i>> \in C

Shape(r) ==
    /\ r.kind = "splice" => r.state \notin {"ring", "fallback"}
    /\ r.state = "queued" /\ r.kind = "write" => 1 .. r.n \subseteq r.todo
    /\ r.state = "queued" /\ r.kind = "splice" => r.n = 1
    /\ r.kind = "write" /\ r.target # NoStream => stream[r.target].opts.write

KeptInv(k) == k <= ops =>
    Shape(task[k]) /\ (AppendOnly(FileOf(k)) => InFile(task[k], k, CellsOf(FileOf(k))))

LInv == \A k \in Ids : KeptInv(k)

\* An opened stream keeps its options, and a file keeps what is in it while all its
\* writers append.
OptsStay == \A s \in Streams : stream[s].state # "none" => stream'[s].opts = stream[s].opts

Keeps(f) == AppendOnly(f)' => CellsOf(f) \subseteq CellsOf(f)'

LEMMA StillAppendOnly ==
    ASSUME Steady, OptsStay, NEW f, AppendOnly(f)'
    PROVE  AppendOnly(f)
BY DEF Steady, OptsStay, AppendOnly, OpenedOn

\* A task that the step leaves alone.
LEMMA KeptKept ==
    ASSUME TypeOK, CInv, LInv, Steady, OptsStay, \A f \in Files : Keeps(f),
           NEW k \in Ids, k <= ops, task'[k] = task[k]
    PROVE  KeptInv(k)'
<1>1. FileOf(k)' = FileOf(k) /\ FileOf(k) \in Files
    BY SameFile
<1>2. KeptInv(k) /\ task[k].target \in {NoStream, task[k].stream}
      /\ task[k].stream \in Streams /\ stream[task[k].stream].state # "none"
    BY DEF LInv, CInv, TaskInv, TypeOK, TaskType
<1>3. Shape(task[k])'
    BY <1>2 DEF KeptInv, Shape, OptsStay
<1>4. PICK f \in Files : f = FileOf(k)
    BY <1>1
<1>5. ASSUME AppendOnly(f)' PROVE InFile(task[k], k, CellsOf(f)')
    <2>1. AppendOnly(f) /\ CellsOf(f) \subseteq CellsOf(f)'
        BY <1>4, <1>5, StillAppendOnly DEF Keeps
    <2> QED
        BY <1>2, <1>4, <2>1 DEF KeptInv, InFile
<1>6. AppendOnly(FileOf(k))' = AppendOnly(f)' /\ CellsOf(FileOf(k))' = CellsOf(f)'
    BY <1>1, <1>4 DEF AppendOnly, OpenedOn, CellsOf
<1> QED
    BY <1>3, <1>5, <1>6 DEF KeptInv, InFile

\* A step of one task, old or new.
LEMMA KeptMoved ==
    ASSUME TypeOK, TypeOK', CInv, LInv, Steady, OptsStay, \A f \in Files : Keeps(f),
           NEW k \in Ids, NEW r, task'[k] = r, \A j \in Ids : j # k => task'[j] = task[j],
           ops' = ops \/ (k = ops + 1 /\ ops' = k), Shape(r)',
           NEW f \in Files, stream'[r.stream].file = f,
           AppendOnly(f) /\ CellsOf(f) \subseteq CellsOf(f)' => InFile(r, k, CellsOf(f)')
    PROVE  LInv'
<1>1. KeptInv(k)'
    <2>1. FileOf(k)' = f
        BY DEF FileOf
    <2>2. AppendOnly(f)' => InFile(r, k, CellsOf(f)')
        BY StillAppendOnly DEF Keeps
    <2>3. AppendOnly(FileOf(k))' = AppendOnly(f)' /\ CellsOf(FileOf(k))' = CellsOf(f)'
        BY <2>1 DEF AppendOnly, OpenedOn, CellsOf
    <2> QED
        BY <2>2, <2>3 DEF KeptInv, InFile, Shape
<1>2. ASSUME NEW j \in Ids, j # k PROVE KeptInv(j)'
    <2>1. ops \in Nat /\ k \in Nat /\ j \in Nat
        BY BoundsAssumption DEF TypeOK, Ids
    <2>2. j <= ops' => j <= ops
        BY <1>2, <2>1
    <2>3. CASE j <= ops
        BY <1>2, <2>3, KeptKept
    <2>4. CASE ~(j <= ops')
        BY <2>4 DEF KeptInv
    <2> QED
        BY <2>2, <2>3, <2>4
<1> QED
    BY <1>1, <1>2 DEF LInv

\* One cell written through a stream that appends is added to what the file has.
LEMMA WrittenKeeps ==
    ASSUME TypeOK, NEW s \in Streams, stream[s].state # "none", stream[s].opts.write,
           NEW f \in Files, f = stream[s].file, NEW p \in Nat, NEW k \in Ids, NEW i,
           content' = [content EXCEPT ![f] = WriteAt(content[f], WritePos(s, p), <<k, i>>)]
    PROVE  AppendOnly(f) => /\ \A g \in Files : CellsOf(g) \subseteq CellsOf(g)'
                            /\ <<k, i>> \in CellsOf(f)'
<1> SUFFICES ASSUME AppendOnly(f)
             PROVE  /\ \A g \in Files : CellsOf(g) \subseteq CellsOf(g)'
                    /\ <<k, i>> \in CellsOf(f)'
    OBVIOUS
<1> DEFINE cell == <<k, i>>
           w == WriteAt(content[f], Len(content[f]), cell)
<1>1. stream[s].opts.append
    BY DEF AppendOnly, OpenedOn
<1>2. content[f] \in Seq(CellType) /\ Len(content[f]) \in Nat
    BY DEF TypeOK
<1>3. content' = [content EXCEPT ![f] = w]
    BY <1>1 DEF WritePos
<1>4. cell # Hole
    BY BoundsAssumption DEF Hole, Ids
<1>5. PICK v : v = w
    OBVIOUS
<1>6. content'[f] = v /\ \A g \in Files : g # f => content'[g] = content[g]
    BY <1>3, <1>5 DEF TypeOK
<1> HIDE DEF cell
<1>7. /\ Len(content[f]) + 1 \in 1 .. Len(v) /\ v[Len(content[f]) + 1] = cell
      /\ \A q \in 1 .. Len(content[f]) :
             q \in 1 .. Len(v) /\ (q # Len(content[f]) + 1 => v[q] = content[f][q])
    BY <1>2, <1>5, WriteAtPlaces
<1> HIDE DEF w
<1>8. \A q \in 1 .. Len(content[f]) : q \in 1 .. Len(v) /\ v[q] = content[f][q]
    BY <1>2, <1>7
<1>9. cell \in CellsOf(f)'
    BY <1>4, <1>6, <1>7 DEF CellsOf, Hole
<1>10. CellsOf(f) \subseteq CellsOf(f)'
    BY <1>6, <1>8 DEF CellsOf, Hole
<1>11. \A g \in Files : CellsOf(g) \subseteq CellsOf(g)'
    BY <1>6, <1>10 DEF CellsOf, Hole
<1> QED
    BY <1>9, <1>11 DEF cell

\* Such a write loses nothing from any file, whatever its writers do.
LEMMA WriteKeeps ==
    ASSUME TypeOK, Steady, OptsStay,
           NEW s \in Streams, stream[s].state # "none", stream[s].opts.write,
           NEW f \in Files, f = stream[s].file, NEW p \in Nat, NEW k \in Ids, NEW i,
           content' = [content EXCEPT ![f] = WriteAt(content[f], WritePos(s, p), <<k, i>>)]
    PROVE  \A g \in Files : Keeps(g)
<1> SUFFICES ASSUME NEW g \in Files, AppendOnly(g)' PROVE CellsOf(g) \subseteq CellsOf(g)'
    BY DEF Keeps
<1>1. CASE g = f
    <2>1. AppendOnly(f)
        BY <1>1, StillAppendOnly
    <2> QED
        BY <2>1, WrittenKeeps
<1>2. CASE g # f
    BY <1>2 DEF CellsOf, TypeOK, Hole
<1> QED
    BY <1>1, <1>2

LEMMA AppendedKeeps ==
    ASSUME TypeOK, NEW f \in Files, NEW k \in Ids, NEW n \in Nat,
           content' = [content EXCEPT ![f] = content[f] \o Cells(k, n)]
    PROVE  /\ \A g \in Files : CellsOf(g) \subseteq CellsOf(g)'
           /\ \A i \in 1 .. n : <<k, i>> \in CellsOf(f)'
<1>1. k \in Nat \ {0}
    BY BoundsAssumption DEF Ids
<1>2. content[f] \in Seq(CellType) /\ Cells(k, n) \in Seq(CellType)
    BY <1>1, CellsType DEF TypeOK
<1>3. CellsIn(content[f] \o Cells(k, n)) = CellsIn(content[f]) \cup CellsIn(Cells(k, n))
    BY <1>2, ConcatCells
<1>4. \A i \in 1 .. n : <<k, i>> \in CellsIn(Cells(k, n)) /\ <<k, i>> # Hole
    <2>1. Len(Cells(k, n)) = n /\ \A i \in 1 .. n : Cells(k, n)[i] = <<k, i>>
        BY DEF Cells
    <2> QED
        BY <1>1, <2>1 DEF CellsIn, Hole
<1>5. PICK v : v = content[f] \o Cells(k, n)
    OBVIOUS
<1>6. content'[f] = v /\ \A g \in Files : g # f => content'[g] = content[g]
    BY <1>5 DEF TypeOK
<1>7. /\ \A g \in Files : CellsOf(g) = CellsIn(content[g]) \ {Hole}
      /\ \A g \in Files : CellsOf(g)' = CellsIn(content'[g]) \ {Hole}
    BY DEF CellsOf, CellsIn, Hole
<1> QED
    BY <1>3, <1>4, <1>5, <1>6, <1>7

\* Opening a file empties it only for a writer that does not append.
LEMMA TruncatingWrites ==
    ASSUME NEW m PROVE Options(m).truncate => Options(m).write /\ ~Options(m).append
BY DEF Options, configure_open_options, parse

LEMMA SameKeeps ==
    ASSUME content' = content PROVE \A f \in Files : Keeps(f)
BY DEF Keeps, CellsOf, Hole

LEMMA OffsetOpts ==
    ASSUME TypeOK, NEW d \in Streams, NEW q, stream' = [stream EXCEPT ![d].pos = q]
    PROVE  OptsStay
<1>1. \A u \in Streams : stream[u] \in StreamType
    BY DEF TypeOK
<1>2. \A u \in Streams : stream'[u] = IF u = d THEN [stream[d] EXCEPT !.pos = q] ELSE stream[u]
    BY DEF TypeOK
<1> QED
    BY <1>1, <1>2 DEF OptsStay, StreamType

LEMMA TaskSteady ==
    ASSUME TypeOK, NEW k \in Ids, ops' = ops, NEW r, task' = [task EXCEPT ![k] = r],
           r.stream = task[k].stream, StreamsStay
    PROVE  Steady
<1>1. task'[k] = r /\ \A j \in Ids : j # k => task'[j] = task[j]
    BY DEF TypeOK
<1>2. ops \in Nat /\ \A j \in 1 .. ops : j \in Ids
    BY BoundsAssumption DEF TypeOK, Ids
<1>3. \A j \in 1 .. ops : task'[j].stream = task[j].stream
    BY <1>1, <1>2
<1> QED
    BY <1>2, <1>3 DEF Steady, StreamsStay

LEMMA TaskStep ==
    ASSUME TypeOK, TypeOK', CInv, LInv, NEW k \in Ids, k <= ops, ops' = ops,
           NEW r, task' = [task EXCEPT ![k] = r], r.stream = task[k].stream,
           r.target \in {NoStream, task[k].stream}, StreamsStay, OptsStay,
           \A f \in Files : Keeps(f), Shape(r),
           NEW f \in Files, f = FileOf(k),
           AppendOnly(f) /\ CellsOf(f) \subseteq CellsOf(f)' => InFile(r, k, CellsOf(f)')
    PROVE  LInv'
<1>1. task'[k] = r /\ \A j \in Ids : j # k => task'[j] = task[j]
    BY DEF TypeOK
<1>2. task[k].stream \in Streams /\ stream[task[k].stream].state # "none"
    BY DEF CInv, TaskInv, TypeOK, TaskType
<1>3. Steady
    BY TaskSteady
<1>4. Shape(r)'
    BY <1>2 DEF Shape, OptsStay
<1>5. stream'[r.stream].file = f
    BY <1>2 DEF StreamsStay, FileOf
<1> QED
    BY <1>1, <1>3, <1>4, <1>5, KeptMoved

----------------------------------------------------------------------------
LEMMA WorkerKeepsCells ==
    ASSUME IInv, TypeOK', CInv, LInv, NEW k \in Ids, Worker(k) PROVE LInv'
<1> DEFINE t == task[k]
           f == FileOf(k)
<1>1. TypeOK /\ FdTableExact
    BY DEF IInv
<1>2. t.state \in {"queued", "ring", "fallback"}
    BY DEF Worker, RingStart, RingRefused, RingEnd, RingInterrupted, Fallback, Splice
<1>3. k <= ops /\ f \in Files /\ t \in TaskType
    BY <1>1, <1>2, WasStarted
<1>4. /\ t.target \in {NoStream, t.stream} /\ t.stream \in Streams
      /\ stream[t.stream].state # "none" /\ Shape(t)
      /\ AppendOnly(f) => InFile(t, k, CellsOf(f))
    BY <1>3 DEF CInv, TaskInv, LInv, KeptInv, TaskType
<1>5. ASSUME UNCHANGED <<content, stream, ops>>, NEW r, task' = [task EXCEPT ![k] = r],
             r.stream = t.stream, r.target \in {NoStream, t.stream}, Shape(r),
             AppendOnly(f) => InFile(r, k, CellsOf(f))
      PROVE  LInv'
    <2>1. CellsOf(f)' = CellsOf(f)
        BY <1>5 DEF CellsOf, Hole, FileOf
    <2> HIDE DEF t, f
    <2>2. StreamsStay /\ OptsStay
        BY <1>5 DEF StreamsStay, OptsStay
    <2>3. PICK h \in Files : h = f
        BY <1>3
    <2>4. CellsOf(h) \subseteq CellsOf(h)' => CellsOf(h)' = CellsOf(h)
        BY <1>5 DEF CellsOf, Hole
    <2>5. AppendOnly(h) /\ CellsOf(h) \subseteq CellsOf(h)' => InFile(r, k, CellsOf(h)')
        BY <1>5, <2>3, <2>4
    <2> QED
        BY <1>1, <1>3, <1>5, <2>2, <2>3, <2>5, SameKeeps, TaskStep DEF t, f
<1>6. CASE RingStart(k)
    <2> DEFINE d == fd_table[t.fd]
               here == d # NoStream /\ Allowed(d, t.kind)
               r == IF here THEN [[t EXCEPT !.state = "ring"] EXCEPT !.target = d]
                    ELSE [[t EXCEPT !.state = "fallback"] EXCEPT !.todo = {}]
    <2>1. /\ task' = [task EXCEPT ![k] = r] /\ UNCHANGED <<content, stream, ops>>
          /\ t.state = "queued" /\ t.kind # "splice"
        BY <1>6 DEF RingStart
    <2>2. d = t.stream
        BY <1>1, <1>6, OwnNumber DEF RingStart
    <2>3. here /\ t.kind = "write" => stream[d].opts.write
        BY DEF Allowed
    <2> HIDE DEF here, d
    <2>4. /\ r.stream = t.stream /\ r.kind = t.kind /\ r.n = t.n
          /\ \/ here /\ r.state = "ring" /\ r.target = d /\ r.todo = t.todo
             \/ r.state = "fallback" /\ r.target = t.target
        BY <1>3 DEF TaskType
    <2> HIDE DEF r, t, f
    <2>5. Shape(r)
        BY <1>4, <2>1, <2>3, <2>4 DEF Shape
    <2>6. InFile(r, k, CellsOf(f))
        BY <1>4, <2>1, <2>4 DEF Shape, InFile
    <2> QED
        BY <1>4, <1>5, <2>1, <2>2, <2>4, <2>5, <2>6
<1>7. CASE RingRefused(k)
    <2> DEFINE r == [[t EXCEPT !.state = "fallback"] EXCEPT !.todo = {}]
    <2>1. /\ task' = [task EXCEPT ![k] = r] /\ UNCHANGED <<content, stream, ops>>
          /\ t.kind # "splice"
        BY <1>7 DEF RingRefused
    <2>2. r.stream = t.stream /\ r.kind = t.kind /\ r.state = "fallback" /\ r.target = t.target
        BY <1>3 DEF TaskType
    <2> HIDE DEF r, t, f
    <2>3. Shape(r) /\ InFile(r, k, CellsOf(f))
        BY <1>4, <2>1, <2>2 DEF Shape, InFile
    <2> QED
        BY <1>4, <1>5, <2>1, <2>2, <2>3
<1>8. CASE RingEnd(k)
    <2> DEFINE x == IF t.failed THEN "fallback" ELSE "ok"
               r == [t EXCEPT !.state = x]
    <2>1. /\ task' = [task EXCEPT ![k] = r] /\ UNCHANGED <<content, stream, ops>>
          /\ t.state = "ring" /\ t.todo = {}
        BY <1>8 DEF RingEnd
    <2>2. /\ r.stream = t.stream /\ r.kind = t.kind /\ r.target = t.target /\ r.n = t.n
          /\ (t.failed /\ r.state = "fallback") \/ (~t.failed /\ r.state = "ok")
        BY <1>3 DEF TaskType
    <2> HIDE DEF r, t, f
    <2>3. Shape(r) /\ r.kind # "splice"
        BY <1>4, <2>1, <2>2 DEF Shape
    <2>4. AppendOnly(f) => InFile(r, k, CellsOf(f))
        BY <1>4, <2>1, <2>2, <2>3 DEF InFile
    <2> QED
        BY <1>4, <1>5, <2>1, <2>2, <2>3, <2>4
<1>9. CASE RingInterrupted(k)
    <2> DEFINE r == [[t EXCEPT !.state = "fallback"] EXCEPT !.failed = TRUE]
    <2>1. /\ task' = [task EXCEPT ![k] = r] /\ UNCHANGED <<content, stream, ops>>
          /\ t.state = "ring"
        BY <1>9 DEF RingInterrupted
    <2>2. r.stream = t.stream /\ r.kind = t.kind /\ r.state = "fallback" /\ r.target = t.target
        BY <1>3 DEF TaskType
    <2> HIDE DEF r, t, f
    <2>3. Shape(r) /\ InFile(r, k, CellsOf(f))
        BY <1>4, <2>1, <2>2 DEF Shape, InFile
    <2> QED
        BY <1>4, <1>5, <2>1, <2>2, <2>3
<1>10. CASE Fallback(k)
    <2>1. PICK g : task' = [task EXCEPT ![k] = [[t EXCEPT !.state = "ok"] EXCEPT !.got = g]]
        BY <1>10 DEF Fallback
    <2> DEFINE r == [[t EXCEPT !.state = "ok"] EXCEPT !.got = g]
    <2>2. /\ task' = [task EXCEPT ![k] = r] /\ ops' = ops /\ stream' = stream
          /\ t.state = "fallback"
          /\ content' = IF t.kind = "write"
                        THEN [content EXCEPT ![f] = content[f] \o Cells(k, t.n)] ELSE content
        BY <1>10, <2>1 DEF Fallback, FileOf
    <2>3. /\ r.stream = t.stream /\ r.kind = t.kind /\ r.state = "ok" /\ r.target = t.target
          /\ r.n = t.n /\ t.n \in Nat
        BY <1>3 DEF TaskType
    <2>4. PICK h \in Files : h = f
        BY <1>3
    <2> HIDE DEF r, t, f
    <2>5. Shape(r) /\ r.kind # "splice"
        BY <1>4, <2>2, <2>3 DEF Shape
    <2>6. StreamsStay /\ OptsStay
        BY <2>2 DEF StreamsStay, OptsStay
    <2>7. (\A j \in Files : Keeps(j)) /\ InFile(r, k, CellsOf(h)')
        <3>1. CASE t.kind = "write"
            <4>1. /\ \A j \in Files : CellsOf(j) \subseteq CellsOf(j)'
                  /\ \A i \in 1 .. t.n : <<k, i>> \in CellsOf(h)'
                BY <1>1, <2>2, <2>3, <2>4, <3>1, AppendedKeeps
            <4> QED
                BY <2>3, <4>1 DEF Keeps, InFile
        <3>2. CASE t.kind # "write"
            BY <2>2, <2>3, <2>5, <3>2, SameKeeps DEF InFile
        <3> QED
            BY <3>1, <3>2
    <2> QED
        BY <1>1, <1>3, <1>4, <2>2, <2>3, <2>4, <2>5, <2>6, <2>7, TaskStep DEF t, f
<1>11. CASE Splice(k)
    <2> DEFINE d == fd_table[t.fd]
               nothing == [[t EXCEPT !.state = "ok"] EXCEPT !.n = 0]
               refused == [t EXCEPT !.state = "error"]
               done == [t EXCEPT !.state = "ok"]
    <2>1. d = t.stream /\ d \in Streams /\ stream[d].file = f /\ ops' = ops
          /\ t.kind = "splice" /\ t.state = "queued"
        BY <1>1, <1>11, OwnNumber DEF Splice, FileOf
    <2>2. \/ task' = [task EXCEPT ![k] = nothing] /\ UNCHANGED <<content, stream>>
          \/ task' = [task EXCEPT ![k] = refused] /\ UNCHANGED <<content, stream>>
          \/ /\ task' = [task EXCEPT ![k] = done] /\ stream[d].opts.write
             /\ content' = [content EXCEPT ![f] =
                               WriteAt(content[f], WritePos(d, stream[d].pos), <<k, 1>>)]
             /\ \E q : stream' = [stream EXCEPT ![d].pos = q]
        BY <1>11, <2>1 DEF Splice, Allowed
    <2>3. /\ nothing.stream = t.stream /\ nothing.target = t.target /\ nothing.state = "ok"
          /\ nothing.kind = t.kind /\ nothing.n = 0
          /\ refused.stream = t.stream /\ refused.target = t.target
          /\ refused.state = "error" /\ refused.kind = t.kind
          /\ done.stream = t.stream /\ done.target = t.target /\ done.state = "ok"
          /\ done.kind = t.kind /\ done.n = t.n
        BY <1>3 DEF TaskType
    <2>4. PICK h \in Files : h = f
        BY <1>3
    <2> HIDE DEF nothing, refused, done, d, t, f
    <2>5. t.n = 1
        BY <1>4, <2>1 DEF Shape
    <2>6. CASE task' = [task EXCEPT ![k] = nothing] /\ UNCHANGED <<content, stream>>
        <3>1. Shape(nothing) /\ InFile(nothing, k, CellsOf(f))
            BY <2>1, <2>3 DEF Shape, InFile
        <3> QED
            BY <1>4, <1>5, <2>1, <2>3, <2>6, <3>1
    <2>7. CASE task' = [task EXCEPT ![k] = refused] /\ UNCHANGED <<content, stream>>
        <3>1. Shape(refused) /\ InFile(refused, k, CellsOf(f))
            BY <2>1, <2>3 DEF Shape, InFile
        <3> QED
            BY <1>4, <1>5, <2>1, <2>3, <2>7, <3>1
    <2>8. CASE /\ task' = [task EXCEPT ![k] = done] /\ stream[d].opts.write
               /\ content' = [content EXCEPT ![f] =
                                 WriteAt(content[f], WritePos(d, stream[d].pos), <<k, 1>>)]
               /\ \E q : stream' = [stream EXCEPT ![d].pos = q]
        <3>1. Shape(done)
            BY <2>1, <2>3 DEF Shape
        <3>2. StreamsStay /\ OptsStay
            BY <1>1, <2>1, <2>8, OffsetMoves, OffsetOpts
        <3>3. Steady
            BY <1>1, <2>1, <2>3, <2>8, <3>2, TaskSteady DEF t
        <3>4. stream[d].pos \in Nat /\ stream[d].state # "none"
            BY <1>1, <1>4, <2>1 DEF TypeOK, StreamType
        <3>5. \A g \in Files : Keeps(g)
            BY <1>1, <2>1, <2>4, <2>8, <3>2, <3>3, <3>4, WriteKeeps
        <3>6. AppendOnly(h) => <<k, 1>> \in CellsOf(h)'
            BY <1>1, <2>1, <2>4, <2>8, <3>4, WrittenKeeps
        <3>7. AppendOnly(h) => InFile(done, k, CellsOf(h)')
            BY <2>3, <2>5, <3>6 DEF InFile
        <3> QED
            BY <1>1, <1>3, <1>4, <2>1, <2>3, <2>4, <2>8, <3>1, <3>2, <3>5, <3>7, TaskStep
               DEF t, f
    <2> QED
        BY <2>2, <2>6, <2>7, <2>8
<1> QED
    BY <1>6, <1>7, <1>8, <1>9, <1>10, <1>11 DEF Worker

LEMMA KernelKeepsCells ==
    ASSUME IInv, TypeOK', CInv, OnceInv, LInv, NEW k \in Ids, Kernel(k) PROVE LInv'
<1> DEFINE t == task[k]
           s == t.target
           f == FileOf(k)
<1>1. TypeOK /\ TaskLinks
    BY DEF IInv
<1>2. s # NoStream
    <2>1. ASSUME NEW i \in 1 .. MaxBatch, i <= Len(t.at) PROVE t.at # <<>>
        BY <2>1, BoundsAssumption
    <2> QED
        BY <1>1, <2>1 DEF TaskLinks, Kernel, Issue, PerformAread, Perform, PerformFails
<1>3. k <= ops /\ f \in Files /\ t \in TaskType
    BY <1>1, <1>2, WasStarted
<1>4. /\ s = t.stream /\ s \in Streams /\ stream[s].file = f
      /\ stream[s].state # "none" /\ Shape(t)
      /\ AppendOnly(f) => InFile(t, k, CellsOf(f))
    BY <1>2, <1>3 DEF CInv, TaskInv, LInv, KeptInv, FileOf, TaskType
<1>5. PICK h \in Files : h = f
    BY <1>3
<1>6. ASSUME ops' = ops, NEW r, task' = [task EXCEPT ![k] = r],
             r.stream = t.stream, r.target = t.target, r.kind = t.kind, r.state = t.state,
             r.n = t.n, r.todo = t.todo \/ t.state # "queued",
             StreamsStay, OptsStay, \A g \in Files : Keeps(g),
             AppendOnly(h) /\ CellsOf(h) \subseteq CellsOf(h)' => InFile(r, k, CellsOf(h)')
      PROVE  LInv'
    <2> HIDE DEF t, f
    <2>1. Shape(r)
        BY <1>4, <1>6 DEF Shape
    <2> QED
        BY <1>1, <1>3, <1>4, <1>5, <1>6, <2>1, TaskStep DEF t, f
<1>7. ASSUME UNCHANGED <<content, stream, ops>>, NEW r, task' = [task EXCEPT ![k] = r],
             r.stream = t.stream, r.target = t.target, r.kind = t.kind, r.state = t.state,
             r.n = t.n, r.todo = t.todo \/ t.state # "queued",
             r.todo = t.todo \/ t.kind # "write" \/ r.failed, t.failed => r.failed
      PROVE  LInv'
    <2>1. StreamsStay /\ OptsStay
        BY <1>7 DEF StreamsStay, OptsStay
    <2> HIDE DEF t, f
    <2>2. AppendOnly(h) /\ CellsOf(h) \subseteq CellsOf(h)' => InFile(r, k, CellsOf(h)')
        BY <1>4, <1>5, <1>7, Zenon DEF InFile
    <2> QED
        BY <1>6, <1>7, <2>1, <2>2, SameKeeps
<1>8. t.state # "queued"
    BY <1>2 DEF OnceInv, Resting
<1>9. CASE Issue(k)
    <2>1. PICK a : task' = [task EXCEPT ![k] = [t EXCEPT !.at = a]]
        BY <1>9 DEF Issue
    <2> DEFINE r == [t EXCEPT !.at = a]
    <2>2. /\ r.stream = t.stream /\ r.target = t.target /\ r.kind = t.kind
          /\ r.state = t.state /\ r.n = t.n /\ r.todo = t.todo /\ r.failed = t.failed
        BY <1>3 DEF TaskType
    <2>3. UNCHANGED <<content, stream, ops>> /\ task' = [task EXCEPT ![k] = r]
        BY <1>9, <2>1 DEF Issue
    <2> HIDE DEF r, t, f
    <2> QED
        BY <1>7, <2>2, <2>3
<1>10. CASE PerformAread(k)
    <2>1. PICK g : task' = [task EXCEPT ![k] = [[t EXCEPT !.todo = {}] EXCEPT !.got = g]]
        BY <1>10 DEF PerformAread
    <2> DEFINE r == [[t EXCEPT !.todo = {}] EXCEPT !.got = g]
    <2>2. /\ r.stream = t.stream /\ r.target = t.target /\ r.kind = t.kind
          /\ r.state = t.state /\ r.n = t.n /\ r.failed = t.failed
        BY <1>3 DEF TaskType
    <2>3. /\ UNCHANGED <<content, stream, ops>> /\ task' = [task EXCEPT ![k] = r]
          /\ t.kind # "write"
        BY <1>10, <2>1 DEF PerformAread
    <2> HIDE DEF r, t, f
    <2> QED
        BY <1>7, <1>8, <2>2, <2>3
<1>11. ASSUME NEW i \in 1 .. MaxBatch, PerformFails(k, i) PROVE LInv'
    <2> DEFINE r == [[t EXCEPT !.todo = t.todo \ {i}] EXCEPT !.failed = TRUE]
    <2>1. task' = [task EXCEPT ![k] = r] /\ UNCHANGED <<content, stream, ops>>
        BY <1>11 DEF PerformFails
    <2>2. /\ r.stream = t.stream /\ r.target = t.target /\ r.kind = t.kind
          /\ r.state = t.state /\ r.n = t.n /\ r.failed
        BY <1>3 DEF TaskType
    <2> HIDE DEF r, t, f
    <2> QED
        BY <1>7, <1>8, <2>1, <2>2
<1>12. ASSUME NEW i \in 1 .. MaxBatch, Perform(k, i) PROVE LInv'
    <2>1. i <= Len(t.at) /\ ops' = ops
        BY <1>12 DEF Perform
    <2>2. t.at[i] \in Nat
        BY <1>3, <2>1 DEF TaskType
    <2> DEFINE left == [t EXCEPT !.todo = t.todo \ {i}]
    <2>3. CASE t.kind = "write"
        <3>1. /\ task' = [task EXCEPT ![k] = left]
              /\ content' = [content EXCEPT ![f] =
                                WriteAt(content[f], WritePos(s, t.at[i]), <<k, i>>)]
              /\ \E q : stream' = [stream EXCEPT ![s].pos = q]
            BY <1>4, <1>12, <2>3 DEF Perform
        <3>2. /\ left.stream = t.stream /\ left.target = t.target /\ left.kind = t.kind
              /\ left.state = t.state /\ left.n = t.n /\ left.failed = t.failed
              /\ left.todo = t.todo \ {i}
            BY <1>3 DEF TaskType
        <3> HIDE DEF left
        <3>3. stream[s].opts.write
            BY <1>2, <1>4, <2>3 DEF Shape
        <3>4. StreamsStay /\ OptsStay
            BY <1>1, <1>4, <3>1, OffsetMoves, OffsetOpts
        <3>5. Steady
            BY <1>1, <2>1, <3>1, <3>2, <3>4, TaskSteady
        <3>6. PICK p \in Nat : p = t.at[i]
            BY <2>2
        <3> HIDE DEF t, f, s
        <3>7. \A g \in Files : Keeps(g)
            BY <1>1, <1>4, <1>5, <3>1, <3>3, <3>4, <3>5, <3>6, WriteKeeps
        <3>8. AppendOnly(h) => <<k, i>> \in CellsOf(h)'
            BY <1>1, <1>4, <1>5, <3>1, <3>3, <3>6, WrittenKeeps
        <3>9. AppendOnly(h) /\ CellsOf(h) \subseteq CellsOf(h)' => InFile(left, k, CellsOf(h)')
            <4> SUFFICES ASSUME AppendOnly(h), CellsOf(h) \subseteq CellsOf(h)'
                         PROVE  InFile(left, k, CellsOf(h)')
                OBVIOUS
            <4> DEFINE C == CellsOf(h)
                       D == CellsOf(h)'
            <4>1. InFile(t, k, C) /\ C \subseteq D /\ <<k, i>> \in D
                BY <1>4, <1>5, <3>8
            <4> HIDE DEF C, D
            <4>2. InFile(left, k, D)
                BY <3>2, <4>1 DEF InFile
            <4> QED
                BY <4>2 DEF D
        <3> QED
            BY <1>6, <1>8, <2>1, <3>1, <3>2, <3>4, <3>7, <3>9
    <2>4. CASE t.kind # "write"
        <3>1. PICK r : task' = [task EXCEPT ![k] = r] /\ \E g : r = [left EXCEPT !.got = g]
            <4>1. \E g : task' = [task EXCEPT ![k] = [left EXCEPT !.got = g]]
                BY <1>12, <2>4 DEF Perform
            <4> QED
                BY <4>1
        <3>2. /\ r.stream = t.stream /\ r.target = t.target /\ r.kind = t.kind
              /\ r.state = t.state /\ r.n = t.n /\ r.failed = t.failed
            BY <1>3, <3>1 DEF TaskType
        <3>3. content' = content
              /\ (stream' = stream \/ \E q : stream' = [stream EXCEPT ![s].pos = q])
            BY <1>12, <2>4 DEF Perform
        <3>4. StreamsStay /\ OptsStay
            BY <1>1, <1>4, <3>3, OffsetMoves, OffsetOpts DEF StreamsStay, OptsStay
        <3> HIDE DEF t, f
        <3>5. CellsOf(h)' = CellsOf(h)
            BY <3>3 DEF CellsOf, Hole
        <3>6. AppendOnly(h) => InFile(r, k, CellsOf(h)')
            BY <1>4, <1>5, <2>4, <3>2, <3>5, Zenon DEF InFile
        <3> QED
            BY <1>6, <1>8, <2>1, <3>1, <3>2, <3>3, <3>4, <3>6, SameKeeps
    <2> QED
        BY <2>3, <2>4
<1> QED
    BY <1>9, <1>10, <1>11, <1>12 DEF Kernel

LEMMA StartedKeeps ==
    ASSUME TypeOK, TypeOK', CInv, LInv, NEW s \in Streams, stream[s].state = "open",
           ops < MaxOps, NEW r, Started(r), r.stream = s, r.target = NoStream,
           Shape(r), StreamsStay, OptsStay, \A f \in Files : Keeps(f),
           AppendOnly(stream[s].file) => InFile(r, ops + 1, CellsOf(stream[s].file)')
    PROVE  LInv'
<1>1. PICK k \in Ids : k = ops + 1
    BY BoundsAssumption DEF TypeOK, Ids
<1>2. ops \in Nat /\ ops' = k /\ task'[k] = r /\ \A j \in Ids : j # k => task'[j] = task[j]
    BY <1>1 DEF TypeOK, Started
<1>3. Steady
    <2>1. ops <= ops' /\ \A j \in 1 .. ops : j \in Ids /\ j # k
        BY <1>1, <1>2, BoundsAssumption DEF Ids
    <2> QED
        BY <1>2, <2>1 DEF Steady, StreamsStay
<1>4. PICK f \in Files : f = stream[s].file
    BY DEF TypeOK, StreamType
<1>5. Shape(r)' /\ stream'[r.stream].file = f
    BY <1>4 DEF Shape, StreamsStay
<1>6. CellsOf(stream[s].file)' = CellsOf(f)'
    BY <1>4 DEF CellsOf, Hole, StreamsStay
<1>7. AppendOnly(f) => InFile(r, k, CellsOf(f)')
    BY <1>1, <1>4, <1>6
<1> QED
    BY <1>1, <1>2, <1>3, <1>5, <1>7, KeptMoved

LEMMA CallerKeepsCells ==
    ASSUME IInv, TypeOK', CInv, LInv, AwaitBeforeClose, NEW s \in Streams, Caller(s)
    PROVE  LInv'
<1> USE DEF IInv
<1>1. ASSUME Steady, OptsStay, UNCHANGED <<task, ops>>, \A f \in Files : Keeps(f)
      PROVE  LInv'
    <2> SUFFICES ASSUME NEW k \in Ids, k <= ops PROVE KeptInv(k)'
        BY <1>1 DEF LInv, KeptInv
    <2> QED
        BY <1>1, KeptKept
<1>2. ASSUME NEW f \in Files, NEW m \in Modes, new(s, f, m) PROVE LInv'
    <2>1. /\ stream[s].state = "none" /\ UNCHANGED <<task, ops>>
          /\ \A u \in Streams : u # s => stream'[u] = stream[u]
          /\ stream'[s].state = "open" /\ stream'[s].file = f
          /\ stream'[s].opts = Options(m)
        BY <1>2 DEF new, TypeOK
    <2>2. Steady /\ OptsStay
        <3>1. ops <= ops' /\ task' = task
            BY <2>1, BoundsAssumption DEF TypeOK
        <3> QED
            BY <2>1, <3>1 DEF Steady, OptsStay
    <2>3. ASSUME NEW g \in Files, AppendOnly(g)' PROVE content'[g] = content[g]
        <3>1. CASE Options(m).truncate
            <4>1. Options(m).write /\ ~Options(m).append
                BY <3>1, TruncatingWrites
            <4>2. g # f
                BY <2>1, <2>3, <4>1 DEF AppendOnly, OpenedOn
            <4>3. content' = [content EXCEPT ![f] = <<>>]
                BY <1>2, <3>1 DEF new
            <4> QED
                BY <4>2, <4>3 DEF TypeOK
        <3>2. CASE ~Options(m).truncate
            BY <1>2, <3>2 DEF new
        <3> QED
            BY <3>1, <3>2
    <2>4. \A g \in Files : Keeps(g)
        BY <2>3 DEF Keeps, CellsOf, Hole
    <2> QED
        BY <1>1, <2>1, <2>2, <2>4
<1>3. CASE close(s)
    <2>1. /\ UNCHANGED <<content, task, ops>>
          /\ stream' = [stream EXCEPT ![s].state = "closed"]
        BY <1>3 DEF close
    <2>2. Steady /\ OptsStay
        BY <2>1 DEF Steady, OptsStay, TypeOK, StreamType
    <2> QED
        BY <1>1, <2>1, <2>2, SameKeeps
<1>4. CASE seek(s)
    <2>1. /\ UNCHANGED <<content, task, ops>>
          /\ stream' = [stream EXCEPT ![s].pos = 0, ![s].seeked = TRUE]
        BY <1>4 DEF seek
    <2>2. \A u \in Streams : /\ stream'[u].state = stream[u].state
                             /\ stream'[u].file = stream[u].file
                             /\ stream'[u].fd = stream[u].fd
                             /\ stream'[u].opts = stream[u].opts
        BY <2>1 DEF TypeOK, StreamType
    <2>3. Steady /\ OptsStay
        BY <2>1, <2>2 DEF Steady, OptsStay, TypeOK
    <2> QED
        BY <1>1, <2>1, <2>3, SameKeeps
<1>5. ASSUME NEW u \in Streams, NEW r, stream[u].state = "open", ops < MaxOps, Started(r),
             UNCHANGED content, StreamsStay, OptsStay,
             r.stream = u, r.target = NoStream, Shape(r), InFile(r, ops + 1, {})
      PROVE  LInv'
    <2>1. InFile(r, ops + 1, CellsOf(stream[u].file)')
        BY <1>5 DEF InFile
    <2> QED
        BY <1>5, <2>1, SameKeeps, StartedKeeps
<1>6. CASE read(s)
    <2> DEFINE got == ReadAt(content[stream[s].file], stream[s].pos, 1)
               r == Ended(s, "read", 1, got)
    <2>1. /\ stream[s].state = "open" /\ ops < MaxOps /\ Started(r) /\ UNCHANGED content
          /\ \E q : stream' = [stream EXCEPT ![s].pos = q]
        BY <1>6 DEF read, MayStart
    <2>2. /\ r.stream = s /\ r.target = NoStream /\ r.state = "ok" /\ r.kind = "read"
        BY DEF Ended, NoTask
    <2> HIDE DEF got, r
    <2>3. StreamsStay /\ OptsStay
        BY <2>1, OffsetMoves, OffsetOpts
    <2>4. Shape(r) /\ InFile(r, ops + 1, {})
        BY <2>2 DEF Shape, InFile
    <2> QED
        BY <1>5, <2>1, <2>2, <2>3, <2>4
<1>7. CASE write(s)
    <2> DEFINE r == Ended(s, "write", 1, <<>>)
    <2>1. /\ stream[s].state = "open" /\ stream[s].opts.write /\ ops < MaxOps /\ Started(r)
          /\ content' = [content EXCEPT ![stream[s].file] =
                WriteAt(content[stream[s].file], WritePos(s, stream[s].pos), <<ops + 1, 1>>)]
          /\ \E q : stream' = [stream EXCEPT ![s].pos = q]
        BY <1>7 DEF write, MayStart
    <2>2. /\ r.stream = s /\ r.target = NoStream /\ r.state = "ok" /\ r.kind = "write"
          /\ r.n = 1
        BY DEF Ended, NoTask
    <2> HIDE DEF r
    <2>3. StreamsStay /\ OptsStay
        BY <2>1, OffsetMoves, OffsetOpts
    <2>4. PICK k \in Ids : k = ops + 1
        BY <2>1, BoundsAssumption DEF TypeOK, Ids
    <2>5. PICK f \in Files : f = stream[s].file
        BY DEF TypeOK, StreamType
    <2>6. Steady
        <3>1. \A j \in Ids : j # k => task'[j] = task[j]
            BY <2>1, <2>4 DEF TypeOK, Started
        <3>2. ops <= ops' /\ \A j \in 1 .. ops : j \in Ids /\ j # k
            BY <2>1, <2>4, BoundsAssumption DEF TypeOK, Ids, Started
        <3> QED
            BY <2>3, <3>1, <3>2 DEF Steady, StreamsStay
    <2>7. stream[s].pos \in Nat /\ stream[s].state # "none"
        BY <2>1 DEF TypeOK, StreamType
    <2>8. \A g \in Files : Keeps(g)
        BY <2>1, <2>3, <2>4, <2>5, <2>6, <2>7, WriteKeeps
    <2>9. AppendOnly(f) => <<k, 1>> \in CellsOf(f)'
        BY <2>1, <2>4, <2>5, <2>7, WrittenKeeps
    <2>10. CellsOf(stream[s].file)' = CellsOf(f)'
        BY <2>3, <2>5 DEF CellsOf, Hole, StreamsStay
    <2>11. AppendOnly(stream[s].file) => InFile(r, ops + 1, CellsOf(stream[s].file)')
        BY <2>2, <2>4, <2>5, <2>9, <2>10 DEF InFile
    <2>12. Shape(r)
        BY <2>2 DEF Shape
    <2> QED
        BY <2>1, <2>2, <2>3, <2>8, <2>11, <2>12, StartedKeeps
<1>8. CASE aread(s) \/ awrite(s) \/ aread_batch(s) \/ awrite_batch(s)
    <2>1. PICK kind, n : Spawn(s, kind, n) /\ kind # "splice"
        BY <1>8 DEF aread, awrite, aread_batch, awrite_batch
    <2> DEFINE r == [NoTask EXCEPT !.state = "queued", !.kind = kind, !.stream = s, !.n = n,
                                   !.fd = stream[s].fd, !.todo = 1 .. n]
    <2>2. /\ stream[s].state = "open" /\ ops < MaxOps /\ Started(r)
          /\ UNCHANGED <<content, stream>>
        BY <2>1 DEF Spawn, MayStart
    <2>3. /\ r.stream = s /\ r.target = NoStream /\ r.state = "queued" /\ r.kind # "splice"
          /\ r.todo = 1 .. r.n
        BY <2>1 DEF NoTask
    <2> HIDE DEF r
    <2>4. Shape(r) /\ InFile(r, ops + 1, {}) /\ StreamsStay /\ OptsStay
        BY <2>2, <2>3 DEF Shape, InFile, StreamsStay, OptsStay
    <2> QED
        BY <1>5, <2>2, <2>3, <2>4
<1>9. ASSUME NEW u \in Streams, asplice(s, u) PROVE LInv'
    <2> DEFINE r == [NoTask EXCEPT !.state = "queued", !.kind = "splice", !.stream = u, !.n = 1,
                                   !.fd = stream[u].fd, !.from = stream[s].file]
    <2>1. /\ stream[u].state = "open" /\ ops < MaxOps /\ Started(r)
          /\ UNCHANGED <<content, stream>>
        BY <1>9 DEF asplice, MayStart
    <2>2. /\ r.stream = u /\ r.target = NoStream /\ r.state = "queued" /\ r.kind = "splice"
          /\ r.n = 1
        BY DEF NoTask
    <2> HIDE DEF r
    <2>3. Shape(r) /\ InFile(r, ops + 1, {}) /\ StreamsStay /\ OptsStay
        BY <2>1, <2>2 DEF Shape, InFile, StreamsStay, OptsStay
    <2> QED
        BY <1>5, <2>1, <2>2, <2>3
<1> QED
    BY <1>2, <1>3, <1>4, <1>6, <1>7, <1>8, <1>9 DEF Caller

----------------------------------------------------------------------------
Lossless == AwaitBeforeClose => LInv

\* While the streams of a file write in append mode only, no write that has ended is
\* lost, however many streams, tasks and splices write at the same time and whether a
\* task went through the ring, through the fallback, or through both because its ring
\* call failed.  Callers await the tasks of a stream before they close it: otherwise a
\* task may write to another file altogether.
THEOREM AppendersKeepEverything == Spec => [](AwaitBeforeClose => AppendersLoseNothing)
<1>1. Init => Lossless
    <2> SUFFICES ASSUME Init, NEW k \in Ids PROVE KeptInv(k)
        BY DEF Lossless, LInv
    <2>1. ~(k <= ops)
        BY DEF Init, Ids
    <2> QED
        BY <2>1 DEF KeptInv
<1>2. IInv /\ OnceInv /\ Contained /\ Lossless /\ [Next]_vars => Lossless'
    <2> SUFFICES ASSUME IInv, OnceInv, CInv, LInv, AwaitBeforeClose, [Next]_vars PROVE LInv'
        BY DEF Contained, Lossless
    <2>1. TypeOK'
        BY NextKeepsInv DEF IInv
    <2>2. CASE UNCHANGED vars
        <3>1. UNCHANGED <<content, stream, task, ops>> /\ ops \in Nat
            BY <2>2, BoundsAssumption DEF vars, IInv, TypeOK
        <3>2. Steady /\ OptsStay
            BY <3>1 DEF Steady, OptsStay
        <3>3. \A k \in Ids : k <= ops => KeptInv(k)'
            BY <3>1, <3>2, SameKeeps, KeptKept DEF IInv
        <3> QED
            BY <3>1, <3>3 DEF LInv, KeptInv
    <2> QED
        BY <2>1, <2>2, CallerKeepsCells, WorkerKeepsCells, KernelKeepsCells DEF Next
<1>3. IInv /\ Contained /\ Lossless => (AwaitBeforeClose => AppendersLoseNothing)
    <2> SUFFICES ASSUME IInv, CInv, LInv, NEW k \in Writes,
                        \A s \in OpenedOn(FileOf(k)) : stream[s].opts.write => stream[s].opts.append
                 PROVE  Kept(k)
        BY DEF Contained, Lossless, AppendersLoseNothing
    <2>1. k \in Ids /\ task[k].state = "ok" /\ task[k].kind \in {"write", "splice"}
        BY DEF Writes
    <2>2. k <= ops
        BY <2>1, WasStarted DEF IInv
    <2>3. InFile(task[k], k, CellsOf(FileOf(k)))
        BY <2>1, <2>2 DEF LInv, KeptInv, AppendOnly
    <2> QED
        BY <2>1, <2>3 DEF InFile, Kept
<1> QED
    BY <1>1, <1>2, <1>3, OnceInvariance, ConfinedInvariance, PTL DEF Spec

=============================================================================

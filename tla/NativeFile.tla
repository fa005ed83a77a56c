----------------------------- MODULE NativeFile ------------------------------
(***************************************************************************)
(* NativeFileIO on Linux, src/file_io.rs: streams, the process's file      *)
(* descriptors, and the tasks the asynchronous methods hand to tokio.      *)
(*                                                                         *)
(* An asynchronous method captures the raw descriptor of its stream and    *)
(* returns; the task it spawned uses that number later, through the ring,  *)
(* and when the ring call fails it reopens the stream's path and repeats   *)
(* the whole operation there.  A synchronous method works on the           *)
(* descriptor at once; it is recorded as a task that has already ended.    *)
(* The locks are those of SyncStream, the ring that of UringEngine: here a *)
(* ring call is what the kernel does to the file, and its outcome.         *)
(*                                                                         *)
(* A file is a sequence of cells; every write writes cells of its own,     *)
(* <<operation, index>>.                                                   *)
(***************************************************************************)
EXTENDS FileMode, Integers, Sequences

CONSTANTS
    Streams,           \* NativeFileIO objects
    Files,             \* paths, each an existing regular file
    Fds,               \* descriptor numbers
    Modes,             \* the modes streams are opened with
    MaxOps,            \* bound: operations of a behaviour
    MaxBatch,          \* bound: cells of a batch
    ReadCap,           \* cells a ring aread(-1) asks for (65536 bytes in the code)
    Seeking,           \* whether callers seek
    Faults,            \* which of "setup", "io", "intr" a ring call may show
    AwaitBeforeClose,  \* callers close a stream only when its tasks have ended
    AwaitEach          \* callers start an operation only when the last has ended

NoStream == "no stream"
Hole     == <<0, 0>>

ASSUME FdAssumption    == Fds \subseteq Nat
ASSUME BoundsAssumption == MaxOps \in Nat /\ MaxBatch \in Nat \ {0} /\ ReadCap \in Nat \ {0}
ASSUME ModeAssumption  == Modes \subseteq SUBSET Chars
ASSUME StreamAssumption == NoStream \notin Streams /\ Streams # {} /\ Files # {}
ASSUME CallerAssumption == {Seeking, AwaitBeforeClose, AwaitEach} \subseteq BOOLEAN

VARIABLES
    content,    \* the cells of each file
    stream,     \* each stream object with its open file description
    fd_table,   \* whose description a descriptor number denotes
    task,       \* the operations started so far
    ops         \* how many those are

vars == <<content, stream, fd_table, task, ops>>

Ids == 1 .. MaxOps

NotOpened == [state |-> "none", file |-> CHOOSE f \in Files : TRUE,
              opts |-> Options({}), fd |-> 0, pos |-> 0, seeked |-> FALSE]

NoTask == [state |-> "none", kind |-> "write", stream |-> CHOOSE s \in Streams : TRUE,
           n |-> 0, fd |-> 0, from |-> CHOOSE f \in Files : TRUE, target |-> NoStream,
           at |-> <<>>, todo |-> {}, failed |-> FALSE, got |-> <<>>]

Init ==
    /\ content = [f \in Files |-> <<>>]
    /\ stream = [s \in Streams |-> NotOpened]
    /\ fd_table = [d \in Fds |-> NoStream]
    /\ task = [k \in Ids |-> NoTask]
    /\ ops = 0

----------------------------------------------------------------------------
(* Files. *)

Cells(k, n) == [i \in 1 .. n |-> <<k, i>>]

\* Writing one cell at offset p; a gap behind the end is filled.
WriteAt(c, p, cell) ==
    [i \in 1 .. (IF p < Len(c) THEN Len(c) ELSE p + 1) |->
        IF i = p + 1 THEN cell ELSE IF i <= Len(c) THEN c[i] ELSE Hole]

\* Up to n cells from offset p.
ReadAt(c, p, n) == SubSeq(c, p + 1, IF p + n < Len(c) THEN p + n ELSE Len(c))

\* Where a write through a description goes: O_APPEND ignores the offset.
WritePos(s, p) == IF stream[s].opts.append THEN Len(content[stream[s].file]) ELSE p

----------------------------------------------------------------------------
(* Opening and closing. *)

Pending(k) == task[k].state \in {"queued", "ring", "fallback"}

\* The system hands out the lowest descriptor that is free, but the reopened paths of
\* fallbacks and splices take numbers for a while: any free one may be the next.
IsNextFd(d) == fd_table[d] = NoStream

new(s, f, m) ==
    /\ stream[s].state = "none"
    /\ \E d \in Fds :
          /\ IsNextFd(d)
          /\ fd_table' = [fd_table EXCEPT ![d] = s]
          /\ stream' = [stream EXCEPT ![s] =
                [state |-> "open", file |-> f, opts |-> Options(m), fd |-> d, pos |-> 0,
                 seeked |-> FALSE]]
    /\ content' = IF Options(m).truncate THEN [content EXCEPT ![f] = <<>>] ELSE content
    /\ UNCHANGED <<task, ops>>

\* Mutant: the Option is emptied but the File is kept alive.
CloseLeaks(s) ==
    /\ stream[s].state = "open"
    /\ AwaitBeforeClose => \A k \in Ids : Pending(k) => task[k].stream # s
    /\ stream' = [stream EXCEPT ![s].state = "closed"]
    /\ UNCHANGED <<content, fd_table, task, ops>>

\* close, aclose, __exit__; closing again changes nothing.
close(s) ==
    /\ stream[s].state = "open"
    /\ AwaitBeforeClose => \A k \in Ids : Pending(k) => task[k].stream # s
    /\ stream' = [stream EXCEPT ![s].state = "closed"]
    /\ fd_table' = [fd_table EXCEPT ![stream[s].fd] = NoStream]
    /\ UNCHANGED <<content, task, ops>>

----------------------------------------------------------------------------
(* Starting an operation: refused on a closed stream, before anything else. *)

MayStart(s) ==
    /\ stream[s].state = "open"
    /\ ops < MaxOps
    /\ AwaitEach => \A k \in Ids : ~Pending(k)

Started(r) ==
    /\ task' = [task EXCEPT ![ops + 1] = r]
    /\ ops' = ops + 1

Ended(s, kind, n, got) ==
    [NoTask EXCEPT !.state = "ok", !.kind = kind, !.stream = s, !.n = n, !.got = got]

\* read, readinto: a read of a description not opened for reading fails, and changes
\* nothing; likewise for write.
read(s) ==
    /\ MayStart(s) /\ stream[s].opts.read
    /\ LET got == ReadAt(content[stream[s].file], stream[s].pos, 1)
       IN  /\ Started(Ended(s, "read", 1, got))
           /\ stream' = [stream EXCEPT ![s].pos = @ + Len(got)]
    /\ UNCHANGED <<content, fd_table>>

write(s) ==
    /\ MayStart(s) /\ stream[s].opts.write
    /\ Started(Ended(s, "write", 1, <<>>))
    /\ content' = [content EXCEPT ![stream[s].file] =
                      WriteAt(@, WritePos(s, stream[s].pos), <<ops + 1, 1>>)]
    /\ stream' = [stream EXCEPT ![s].pos = WritePos(s, @) + 1]
    /\ UNCHANGED fd_table

seek(s) ==
    /\ Seeking
    /\ stream[s].state = "open"
    /\ stream' = [stream EXCEPT ![s].pos = 0, ![s].seeked = TRUE]
    /\ UNCHANGED <<content, fd_table, task, ops>>

\* The asynchronous methods look at neither readable nor writable.
Spawn(s, kind, n) ==
    /\ MayStart(s)
    /\ Started([NoTask EXCEPT !.state = "queued", !.kind = kind, !.stream = s, !.n = n,
                              !.fd = stream[s].fd, !.todo = 1 .. n])
    /\ UNCHANGED <<content, stream, fd_table>>

\* aread reads from the start of the file; n = ReadCap stands for a size of -1.
aread(s)        == \E n \in {1, ReadCap} : Spawn(s, "aread", n)
awrite(s)       == Spawn(s, "write", 1)
awrite_batch(s) == \E n \in 1 .. MaxBatch : Spawn(s, "write", n)

\* Of sizes, read at the current offset, or of offsets and sizes: kind "pread".
aread_batch(s)  == \E n \in 1 .. MaxBatch : Spawn(s, "read", n) \/ Spawn(s, "pread", n)

\* asplice looks at the stream's path only, which may be closed; the target is a number
\* that the caller got from fileno, of u.
asplice(s, u) ==
    /\ stream[s].state # "none"
    /\ MayStart(u)
    /\ Started([NoTask EXCEPT !.state = "queued", !.kind = "splice", !.stream = u, !.n = 1,
                              !.fd = stream[u].fd, !.from = stream[s].file])
    /\ UNCHANGED <<content, stream, fd_table>>

----------------------------------------------------------------------------
(* The ring call of a task. *)

Allowed(s, kind) == IF kind = "write" THEN stream[s].opts.write ELSE stream[s].opts.read

\* The kernel looks the number up when it takes the entries: EBADF if it denotes
\* nothing, or something not opened for this.
RingStart(k) ==
    /\ task[k].state = "queued" /\ task[k].kind # "splice"
    /\ LET d == fd_table[task[k].fd]
       IN  task' = [task EXCEPT ![k] =
               IF d # NoStream /\ Allowed(d, task[k].kind)
               THEN [@ EXCEPT !.state = "ring", !.target = d]
               ELSE [@ EXCEPT !.state = "fallback", !.todo = {}]]
    /\ UNCHANGED <<content, stream, fd_table, ops>>

\* No ring for this worker.
RingRefused(k) ==
    /\ "setup" \in Faults
    /\ task[k].state = "queued" /\ task[k].kind # "splice"
    /\ task' = [task EXCEPT ![k].state = "fallback", ![k].todo = {}]
    /\ UNCHANGED <<content, stream, fd_table, ops>>

\* The kernel issues the next entry of the call.  The offset u64::MAX is the current one,
\* which io_uring reads here and writes back when the entry ends; that of a "pread" was
\* given, here one cell after the other.
Issue(k) ==
    /\ task[k].target # NoStream
    /\ task[k].kind # "aread"
    /\ Len(task[k].at) < task[k].n
    /\ task' = [task EXCEPT ![k].at =
                  Append(@, IF task[k].kind = "pread" THEN Len(task[k].at)
                            ELSE stream[task[k].target].pos)]
    /\ UNCHANGED <<content, stream, fd_table, ops>>

\* An issued entry takes effect.
Perform(k, i) ==
    LET s == task[k].target
        f == stream[s].file
    IN  /\ i \in task[k].todo /\ i <= Len(task[k].at)
        /\ \/ /\ task[k].kind = "write"
              /\ content' = [content EXCEPT ![f] =
                                WriteAt(@, WritePos(s, task[k].at[i]), <<k, i>>)]
              /\ stream' = [stream EXCEPT ![s].pos = WritePos(s, task[k].at[i]) + 1]
              /\ task' = [task EXCEPT ![k].todo = @ \ {i}]
           \/ /\ task[k].kind = "read"
              /\ LET got == ReadAt(content[f], task[k].at[i], 1)
                 IN  /\ stream' = [stream EXCEPT ![s].pos = task[k].at[i] + Len(got)]
                     /\ task' = [task EXCEPT ![k].todo = @ \ {i}, ![k].got = @ \o got]
              /\ UNCHANGED content
           \/ /\ task[k].kind = "pread"
              /\ task' = [task EXCEPT ![k].todo = @ \ {i},
                                      ![k].got = @ \o ReadAt(content[f], task[k].at[i], 1)]
              /\ UNCHANGED <<content, stream>>
        /\ UNCHANGED <<fd_table, ops>>

\* An aread names offset 0, and leaves the description's offset alone.
PerformAread(k) ==
    /\ task[k].kind = "aread" /\ task[k].target # NoStream /\ task[k].todo # {}
    /\ task' = [task EXCEPT ![k].todo = {},
                            ![k].got = ReadAt(content[stream[task[k].target].file], 0, task[k].n)]
    /\ UNCHANGED <<content, stream, fd_table, ops>>

\* An entry ends with an error and no effect (ENOSPC, EIO).
PerformFails(k, i) ==
    /\ "io" \in Faults
    /\ i \in task[k].todo /\ i <= Len(task[k].at)
    /\ task' = [task EXCEPT ![k].todo = @ \ {i}, ![k].failed = TRUE]
    /\ UNCHANGED <<content, stream, fd_table, ops>>

\* Mutant: `?` instead of `if let Ok`, an error of the ring is raised.
RingEndRaises(k) ==
    /\ task[k].state = "ring" /\ task[k].todo = {}
    /\ task' = [task EXCEPT ![k].state = IF task[k].failed THEN "raised" ELSE "ok"]
    /\ UNCHANGED <<content, stream, fd_table, ops>>

\* Mutant: the `return` after an Ok of the ring is missing.
RingEndFallsThrough(k) ==
    /\ task[k].state = "ring" /\ task[k].todo = {}
    /\ task' = [task EXCEPT ![k].state = "fallback"]
    /\ UNCHANGED <<content, stream, fd_table, ops>>

\* The ring call returns when every entry has completed: Ok, or Err if one failed.
RingEnd(k) ==
    /\ task[k].state = "ring" /\ task[k].todo = {}
    /\ task' = [task EXCEPT ![k].state = IF task[k].failed THEN "fallback" ELSE "ok"]
    /\ UNCHANGED <<content, stream, fd_table, ops>>

\* The wait is interrupted: the ring call returns Err with entries under way.
RingInterrupted(k) ==
    /\ "intr" \in Faults
    /\ task[k].state = "ring" /\ task[k].todo # {}
    /\ task' = [task EXCEPT ![k].state = "fallback", ![k].failed = TRUE]
    /\ UNCHANGED <<content, stream, fd_table, ops>>

----------------------------------------------------------------------------
(* spawn_blocking: the path is opened anew and the whole operation repeated. *)

\* Mutant: the fallback writes through the first stream's path.
FallbackElsewhere(k) ==
    /\ task[k].state = "fallback"
    /\ LET f == CHOOSE f \in Files : TRUE
       IN  /\ content' = IF task[k].kind = "write"
                         THEN [content EXCEPT ![f] = @ \o Cells(k, task[k].n)]
                         ELSE content
           /\ task' = [task EXCEPT ![k].state = "ok",
                          ![k].got = IF task[k].kind = "write" THEN <<>>
                                     ELSE ReadAt(content[f], 0, task[k].n)]
    /\ UNCHANGED <<stream, fd_table, ops>>

\* Mutant: the fallback opens the path for writing, not for appending.
FallbackFromStart(k) ==
    /\ task[k].state = "fallback"
    /\ LET f == stream[task[k].stream].file
       IN  /\ content' = IF task[k].kind = "write"
                         THEN [content EXCEPT ![f] =
                                  Cells(k, task[k].n) \o SubSeq(@, task[k].n + 1, Len(@))]
                         ELSE content
           /\ task' = [task EXCEPT ![k].state = "ok",
                          ![k].got = IF task[k].kind = "write" THEN <<>>
                                     ELSE ReadAt(content[f], 0, task[k].n)]
    /\ UNCHANGED <<stream, fd_table, ops>>

\* A read reads from the start, up to the end when its size is -1; a write appends.
Fallback(k) ==
    /\ task[k].state = "fallback"
    /\ LET f == stream[task[k].stream].file
           wanted == IF task[k].kind = "aread" /\ task[k].n = ReadCap
                     THEN Len(content[f]) ELSE task[k].n
       IN  /\ content' = IF task[k].kind = "write"
                         THEN [content EXCEPT ![f] = @ \o Cells(k, task[k].n)]
                         ELSE content
           /\ task' = [task EXCEPT ![k].state = "ok",
                          ![k].got = IF task[k].kind = "write" THEN <<>>
                                     ELSE ReadAt(content[f], 0, wanted)]
    /\ UNCHANGED <<stream, fd_table, ops>>

\* A splice's source is the reopened path.  The kernel's splice refuses two files, and so
\* the closure reads from the one and writes to whatever the number denotes by then.
Splice(k) ==
    LET d  == fd_table[task[k].fd]
        p  == WritePos(d, stream[d].pos)
        ok == d # NoStream /\ Allowed(d, "write")
    IN  /\ task[k].state = "queued" /\ task[k].kind = "splice"
        /\ \/ /\ content[task[k].from] = <<>>
              /\ task' = [task EXCEPT ![k].state = "ok", ![k].n = 0]
              /\ UNCHANGED <<content, stream>>
           \/ /\ content[task[k].from] # <<>> /\ ~ok
              /\ task' = [task EXCEPT ![k].state = "error"]
              /\ UNCHANGED <<content, stream>>
           \/ /\ content[task[k].from] # <<>> /\ ok
              /\ task' = [task EXCEPT ![k].state = "ok"]
              /\ content' = [content EXCEPT ![stream[d].file] = WriteAt(@, p, <<k, 1>>)]
              /\ stream' = [stream EXCEPT ![d].pos = p + 1]
        /\ UNCHANGED <<fd_table, ops>>

----------------------------------------------------------------------------
Caller(s) ==
    \/ \E f \in Files, m \in Modes : new(s, f, m)
    \/ close(s) \/ read(s) \/ write(s) \/ seek(s)
    \/ aread(s) \/ awrite(s) \/ aread_batch(s) \/ awrite_batch(s)
    \/ \E u \in Streams : asplice(s, u)

Worker(k) ==
    \/ RingStart(k) \/ RingRefused(k) \/ RingEnd(k) \/ RingInterrupted(k)
    \/ Fallback(k) \/ Splice(k)

Kernel(k) ==
    \/ Issue(k) \/ PerformAread(k)
    \/ \E i \in 1 .. MaxBatch : Perform(k, i) \/ PerformFails(k, i)

Next == (\E s \in Streams : Caller(s)) \/ (\E k \in Ids : Worker(k) \/ Kernel(k))

Spec == Init /\ [][Next]_vars

----------------------------------------------------------------------------
(* Properties. *)

CellType == Nat \X Nat

OptsType == [read : BOOLEAN, write : BOOLEAN, create : BOOLEAN, truncate : BOOLEAN,
             append : BOOLEAN]

StreamType == [state : {"none", "open", "closed"}, file : Files, opts : OptsType,
               fd : Nat, pos : Nat, seeked : BOOLEAN]

TaskType == [state : {"none", "queued", "ring", "fallback", "ok", "error"},
             kind : {"read", "write", "aread", "pread", "splice"}, stream : Streams,
             n : Nat, fd : Nat, from : Files, target : Streams \cup {NoStream}, at : Seq(Nat),
             todo : SUBSET Nat, failed : BOOLEAN, got : Seq(CellType)]

\* The state is well formed.
TypeOK ==
    /\ content \in [Files -> Seq(CellType)]
    /\ stream \in [Streams -> StreamType]
    /\ fd_table \in [Fds -> Streams \cup {NoStream}]
    /\ task \in [Ids -> TaskType]
    /\ ops \in 0 .. MaxOps

\* The descriptor table and the streams agree: a descriptor denotes the one open stream
\* that owns it, so that a descriptor of a closed stream is free for the next open.
FdTableExact ==
    /\ \A s \in Streams : stream[s].state = "open" =>
           stream[s].fd \in Fds /\ fd_table[stream[s].fd] = s
    /\ \A d \in Fds : fd_table[d] # NoStream =>
           stream[fd_table[d]].state = "open" /\ stream[fd_table[d]].fd = d

FileOf(k) == stream[task[k].stream].file

CellsOf(f) == {content[f][p] : p \in 1 .. Len(content[f])} \ {Hole}

\* The cells on a file were written through streams of that file, and a read returns
\* cells of its own stream's file, although a task uses a descriptor number that it
\* captured earlier.  It needs callers that await a stream's tasks before closing it.
Confined ==
    /\ \A f \in Files : \A c \in CellsOf(f) : FileOf(c[1]) = f
    /\ \A k \in Ids : \A i \in 1 .. Len(task[k].got) :
           task[k].got[i] # Hole => FileOf(task[k].got[i][1]) = FileOf(k)

\* A cell is in the files once, unless the ring call that wrote it failed after it had
\* started: a task that falls back because it has no ring, or because its descriptor
\* allows no write, has not written through the ring before.
NoDuplicates == \A f, g \in Files :
    \A p \in 1 .. Len(content[f]), q \in 1 .. Len(content[g]) :
        /\ content[f][p] = content[g][q] /\ content[f][p] # Hole
        /\ ~task[content[f][p][1]].failed
        => f = g /\ p = q

Kept(k) == {<<k, i>> : i \in 1 .. task[k].n} \subseteq CellsOf(FileOf(k))

Writes == {k \in Ids : task[k].state = "ok" /\ task[k].kind \in {"write", "splice"}}

OpenedOn(f) == {s \in Streams : stream[s].state # "none" /\ stream[s].file = f}

\* While the streams of a file write in append mode only, no write that has ended is
\* lost, whatever runs at the same time and whether it went through the ring, through
\* the fallback or through a system call.
AppendersLoseNothing == \A k \in Writes :
    (\A s \in OpenedOn(FileOf(k)) : stream[s].opts.write => stream[s].opts.append)
        => Kept(k)

\* Synchronous and asynchronous writes of one stream, started one after the other, are
\* all in the file, in the order they were started: both advance one offset.
SequentialWritesKept == \A f \in Files :
    (\A k \in Ids : ~Pending(k)) /\ (\A s \in OpenedOn(f) : ~stream[s].seeked)
      /\ Cardinality(OpenedOn(f)) = 1 =>
        /\ \A k \in Writes : FileOf(k) = f => Kept(k)
        /\ \A p, q \in 1 .. Len(content[f]) : p < q =>
               content[f][p][1] < content[f][q][1]
               \/ (content[f][p][1] = content[f][q][1] /\ content[f][p][2] < content[f][q][2])

\* A stream whose writable() is False does not write.
ReadOnlyStreamsNeverWrite == \A f \in Files : \A c \in CellsOf(f) :
    stream[task[c[1]].stream].opts.write

\* Successive reads of a stream that name no offset, synchronous or not, go on where the
\* last one ended.
ReadsAdvance == \A j, k \in Ids :
    /\ j < k /\ task[j].stream = task[k].stream
    /\ task[j].state = "ok" /\ task[k].state = "ok"
    /\ ~stream[task[j].stream].seeked
    /\ "pread" \notin {task[j].kind, task[k].kind}
    => \A a \in 1 .. Len(task[j].got), b \in 1 .. Len(task[k].got) :
           task[j].got[a] = task[k].got[b] => task[j].got[a] = Hole

=============================================================================

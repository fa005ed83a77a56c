---------------------------- MODULE StreamStack -----------------------------
(***************************************************************************)
(* Bytes on their way through a reading and a writing stream of the        *)
(* library: buffered.py, socket.py, memory.py, print.py, FallbackFileIO of *)
(* file.py and the methods of AsyncIOBase in base.py.                      *)
(*                                                                         *)
(* The program has one event loop, and its coroutines make one call each.  *)
(* The synchronous calls keep the loop's thread until they return; they go *)
(* through the buffer of the outer stream, a buffered or text stream of    *)
(* CPython's.  The asynchronous ones go around it, to the raw stream, on a *)
(* thread of the executor's pool, on the ring, or in the loop itself.      *)
(* Under the raw stream of the fallback engine there is one more buffer,   *)
(* CPython's.                                                              *)
(*                                                                         *)
(* A cell stands for some bytes.  The program writes two at a time, and    *)
(* the peer of a socket, or a file, has the cells that are read.           *)
(***************************************************************************)
EXTENDS Integers, Sequences, FiniteSets

CONSTANTS
    Stacks,       \* the pairs of streams
    MaxCalls,     \* how many calls the program makes; bound of the model
    Names,        \* the methods it calls
    Workers,      \* the threads of the pool
    BufferSize,   \* of the outer buffer, in cells
    Sent          \* what the peer sends, or the file has: a sequence of cells

Kinds == {"socket", "fallback", "native", "memory", "text", "plain"}

ASSUME StackAssumption == Stacks \subseteq
    [r : {"socket", "fallback", "memory"}, w : Kinds, buffered : BOOLEAN]
ASSUME SizeAssumption == Workers \in Nat \ {0} /\ BufferSize \in Nat \ {0, 1} /\ MaxCalls \in Nat
ASSUME NameAssumption == Names \subseteq
    {"awrite", "awrite_batch", "aread", "aread_all", "asplice", "aflush", "aclose", "aprint", "aprint_now",
     "write", "flush", "close", "close_other", "read"}

\* Cells are numbers; the program writes positive ones, each once.
ASSUME SentAssumption ==
    /\ Sent \in Seq({c \in Int : c < 0})
    /\ \A i, j \in DOMAIN Sent : Sent[i] = Sent[j] => i = j

VARIABLES
    stack,     \* the pair of streams; two sockets are one socket
    io,        \* the layers: see Layers
    co,        \* the coroutines
    queue,     \* those that wait for a thread of the pool
    count,     \* how many have started
    seen       \* history: see History

vars == <<stack, io, co, queue, count, seen>>

\* In the order in which they start.
Coroutines == 1 .. MaxCalls

\* The writer's buffers and what is below them, and whether its peer's window is full; what
\* the other peer has still to send, what can be read, and what was read ahead; which of
\* the two streams is open.
Layers(left, src) ==
    [outer |-> <<>>, inner |-> <<>>, sink |-> <<>>, full |-> FALSE,
     left |-> left, src |-> src, eof |-> left = <<>>, ahead |-> <<>>, r |-> TRUE, w |-> TRUE]

\* What was accepted and taken, in this order; what a flush has promised; what was accepted
\* while a close had flushed already; whether an asynchronous call went around a filled
\* buffer; whether closing the reader, or close with an error, has taken the writer away.
History == [accepted |-> <<>>, taken |-> <<>>, flushed |-> {}, late |-> {},
            around |-> [r |-> FALSE, w |-> FALSE], cut |-> FALSE]

NotStarted == [name |-> "none", at |-> "idle", jobs |-> <<>>, cells |-> <<>>, n |-> 0]

Init ==
    /\ stack \in Stacks
    /\ io = IF stack.r = "socket" THEN Layers(Sent, <<>>) ELSE Layers(<<>>, Sent)
    /\ co = [t \in Coroutines |-> NotStarted]
    /\ queue = <<>>
    /\ count = 0
    /\ seen = History

----------------------------------------------------------------------------
(* The layers.  Each operation yields the set of its outcomes; none while  *)
(* it waits.                                                               *)

Done(d, n)  == [io |-> d, n |-> n, error |-> "none"]
Raise(d, e) == [io |-> d, n |-> 0, error |-> e]

Elements(s) == {s[i] : i \in DOMAIN s}
Take(s, k)  == SubSeq(s, 1, IF k < Len(s) THEN k ELSE Len(s))
Drop(s, k)  == SubSeq(s, k + 1, Len(s))

\* Cells go below the buffers, and may fill the window of the peer.
Send(d, cells, full) == [d EXCEPT !.sink = @ \o cells, !.full = full]

Closed(d) == Raise(d, IF stack.w = "socket" THEN "OSError" ELSE "ValueError")

\* A disk or a peer may fail; memory does not, nor does a buffer with room.
Fallible == stack.w \in {"socket", "native", "plain"}

\* Mutant: the descriptor is written to, not the stream that buffers it.
RawWriteToFd(d, cells) ==
    IF ~d.w THEN {Closed(d)} ELSE {Done([d EXCEPT !.sink = @ \o cells], Len(cells))}

\* Mutant: AsyncSocketIO.write returns the size of its argument.
RawWriteAssumed(d, cells) ==
    IF ~d.w THEN {Closed(d)}
    ELSE {Done([d EXCEPT !.sink = @ \o Take(cells, k)], Len(cells))
            : k \in IF stack.w = "socket" THEN 1..Len(cells) ELSE {Len(cells)}}

\* raw.write, and raw.awrite: FallbackFileIO's own stream is a buffered one.  A socket sends
\* some of it, when its peer has room, and may then have filled it; it was open when this
\* began: see Begun.
RawWrite(d, cells) ==
    CASE stack.w = "socket" -> IF d.full THEN {} ELSE {Raise(d, "OSError")} \cup
             {Done(Send(d, Take(cells, k), f), k) : k \in 1..Len(cells), f \in BOOLEAN}
      [] stack.w = "fallback" ->
             {IF d.w THEN Done([d EXCEPT !.inner = @ \o cells], Len(cells)) ELSE Closed(d)}
      [] OTHER ->
             {IF d.w THEN Done(Send(d, cells, d.full), Len(cells)) ELSE Closed(d)}
             \cup IF d.w /\ Fallible THEN {Raise(d, "OSError")} ELSE {}

Move(d, k) ==
    IF stack.w = "fallback"
    THEN [d EXCEPT !.inner = @ \o Take(d.outer, k), !.outer = Drop(d.outer, k)]
    ELSE [d EXCEPT !.sink = @ \o Take(d.outer, k), !.outer = Drop(d.outer, k)]

\* The peer's window is full, and something is to be sent.
Stuck(d) == stack.w = "socket" /\ d.w /\ d.full /\ d.outer # <<>>

\* Whether the peer's window is full after the sends of d.outer.
Filled(d) == IF stack.w = "socket" /\ d.outer # <<>> THEN BOOLEAN ELSE {d.full}

\* CPython's BufferedWriter writes until its buffer is empty or the raw stream raises.
Drain(d) ==
    IF ~d.w THEN {Closed(d)} ELSE IF Stuck(d) THEN {}
    ELSE {Done([Move(d, Len(d.outer)) EXCEPT !.full = f], 0) : f \in Filled(d)}
         \cup {Raise(Move(d, k), "OSError") : k \in IF Fallible THEN 0..Len(d.outer) - 1 ELSE {}}

\* Mutant: FallbackFileIO does not pass flush on.
FlushNotPassedOn(d) ==
    IF stack.buffered THEN Drain(d)
    ELSE IF ~d.w THEN {Closed(d)} ELSE {Done(d, 0)}

\* The flush of the outer stream does not flush the raw one.
flush(d) ==
    IF stack.buffered THEN Drain(d)
    ELSE IF ~d.w THEN {Closed(d)}
    ELSE {Done([d EXCEPT !.sink = @ \o d.inner, !.inner = <<>>], 0)}
         \cup IF d.inner # <<>> THEN {Raise(d, "OSError")} ELSE {}

write(d, cells) ==
    IF ~stack.buffered THEN RawWrite(d, cells)
    ELSE IF ~d.w THEN {Closed(d)}
    ELSE IF Len(d.outer) + Len(cells) <= BufferSize
    THEN {Done([d EXCEPT !.outer = @ \o cells], Len(cells))}
    ELSE {IF x.error # "none" THEN x
          ELSE Done([x.io EXCEPT !.outer = @ \o cells], Len(cells)) : x \in Drain(d)}

OneSocket == stack.r = "socket" /\ stack.w = "socket"

\* AsyncSocketIO.close closes the socket itself.
Shut(d)        == [d EXCEPT !.w = FALSE, !.r = @ /\ ~OneSocket]
CloseReader(d) == [d EXCEPT !.r = FALSE, !.w = @ /\ ~OneSocket]

\* Mutant: the raw stream is closed with the outer buffer full.
CloseRawOnly(d) == {Done(d, 0)}

\* What a close has to do before the raw stream is shut: flush the outer buffer and, inside
\* FallbackFileIO, the inner one.  Either buffer's lock is free between flush and shut.
CloseOuter(d) == IF stack.buffered THEN Drain(d) ELSE {Done(d, 0)}
CloseInner(d) ==
    {Done([d EXCEPT !.sink = @ \o d.inner, !.inner = <<>>], 0)}
    \cup IF d.inner # <<>> THEN {Raise(d, "OSError")} ELSE {}

----------------------------------------------------------------------------
(* The coroutines: each method is a sequence of jobs.                      *)

OnPool(kind) == IF kind \in {"memory", "text"} THEN "loop" ELSE "pool"

Fresh == <<2 * count + 1, 2 * count + 2>>

Recv(n)    == [do |-> "take", n |-> n, on |-> OnPool(stack.r)]
Put(cells, as) == [do |-> "put", cells |-> cells, as |-> as,
                   on |-> IF stack.w = "native" THEN "ring" ELSE OnPool(stack.w)]
Sync(do, on)   == [do |-> do, on |-> on]
SyncWrite(cells, on) == [do |-> "write", cells |-> cells, on |-> on]
Rest(do, on, failed) == [do |-> do, on |-> on, failed |-> failed]    \* of a close

\* Mutant: without flush=True the line is left in the buffer.
PrintWithoutFlush(cells, flush_) ==
    IF stack.w = "plain" THEN <<SyncWrite(cells, "loop"), Sync("flush", "loop")>>
    ELSE IF flush_ THEN <<Put(cells, "bytes"), Sync("flush", OnPool(stack.w))>>
    ELSE <<Put(cells, "bytes")>>

\* aprint flushes either way, without flush=True on the loop's own thread.
aprint(cells, flush_) ==
    IF stack.w = "plain" THEN <<SyncWrite(cells, "loop"), Sync("flush", "loop")>>
    ELSE <<Put(cells, "bytes"), Sync("flush", IF flush_ THEN OnPool(stack.w) ELSE "loop")>>

Jobs(name, cells) ==
    CASE name = "awrite"       -> <<Put(cells, "bytes")>>
      [] name = "awrite_batch" -> <<Put(Take(cells, 1), "bytes"), Put(Drop(cells, 1), "bytes")>>
      [] name = "aread"        -> <<Recv(1)>>
      [] name = "aread_all"    -> <<Recv(-1)>>
      [] name = "asplice"      -> <<Recv(2)>>
      [] name = "aflush"       -> <<Sync("flush", OnPool(stack.w))>>
      [] name = "aclose"       -> <<Sync("close", OnPool(stack.w))>>
      [] name = "aprint"       -> aprint(cells, TRUE)
      [] name = "aprint_now"   -> aprint(cells, FALSE)
      [] name = "write"        -> <<SyncWrite(cells, "loop")>>
      [] OTHER                 -> <<Sync(name, "loop")>>

Prints   == {"aprint", "aprint_now"}
Writes   == {"awrite", "awrite_batch", "write"} \cup Prints
Reads    == {"aread", "aread_all", "asplice", "read"}

\* AsyncIOBase.asplice asks for the target's fileno, which memory does not have, nor a
\* closed file; a closed socket's is -1.
SpliceRefused ==
    stack.r # "memory" /\ (stack.w \in {"memory", "text"} \/ (~io.w /\ stack.w # "socket"))

Job(t) == Head(co[t].jobs)
Running(t, does) == co[t].at = "running" /\ Job(t).do \in does

LoopIsFree == \A t \in Coroutines : ~ (co[t].at = "running" /\ Job(t).on = "loop")

\* A job that goes to a socket looks whether it is open when it begins, and then waits.
RefusedAtOnce(job) ==
    \/ job.do \in {"take", "read"} /\ ~io.r
    \/ /\ job.do = "put" \/ (job.do = "write" /\ ~stack.buffered)
       /\ stack.w = "socket" /\ ~io.w

Begun(c) == [c EXCEPT !.at = IF RefusedAtOnce(Head(c.jobs)) THEN "raised" ELSE "running"]

\* A coroutine runs up to its next job, and leaves those of the pool to the executor.
Dispatched(c) == IF Head(c.jobs).on = "pool" THEN [c EXCEPT !.at = "queued"] ELSE Begun(c)
Queued(t) == IF co'[t].at = "queued" THEN Append(queue, t) ELSE queue

Called(name, cells) == [name |-> name, at |-> "raised", jobs |-> Jobs(name, cells), cells |-> cells, n |-> 0]

Start(t, name) ==
    /\ LoopIsFree /\ t = count + 1
    /\ name \in {"awrite", "awrite_batch", "aflush", "aclose"} => stack.w # "plain"
    /\ LET c == Called(name, IF name \in Writes THEN Fresh ELSE <<>>) IN
       co' = [co EXCEPT ![t] = IF name = "asplice" /\ SpliceRefused THEN c ELSE Dispatched(c)]
    /\ queue' = Queued(t)
    /\ count' = t
    /\ UNCHANGED <<stack, io, seen>>

Dispatch(t) ==
    /\ LoopIsFree /\ co[t].at = "ready"
    /\ co' = [co EXCEPT ![t] = Dispatched(@)]
    /\ queue' = Queued(t)
    /\ UNCHANGED <<stack, io, count, seen>>

Busy == {t \in Coroutines : co[t].at = "running" /\ Job(t).on = "pool"}

\* A thread of the pool takes the first of the queue.
Grab(t) ==
    /\ queue # <<>> /\ t = Head(queue) /\ Cardinality(Busy) < Workers
    /\ queue' = Tail(queue)
    /\ co' = [co EXCEPT ![t] = Begun(@)]
    /\ UNCHANGED <<stack, io, count, seen>>

\* Mutant: a method that has done its last job is resumed.
NextJobAlways(c) == [c EXCEPT !.jobs = Tail(@), !.at = "ready"]

NextJob(c) == IF Len(c.jobs) > 1 THEN [c EXCEPT !.jobs = Tail(@), !.at = "ready"]
              ELSE [c EXCEPT !.at = "done"]

\* The lock of the outer buffer, while another waits with it: for its socket's peer, or for
\* the inner stream to be closed.
Holds(t) ==
    /\ stack.buffered
    /\ \/ Running(t, {"write", "flush", "close"}) /\ Stuck(io)
       \/ Running(t, {"shut"}) /\ stack.w = "fallback"
HasLock(t) == \A u \in Coroutines \ {t} : ~Holds(u)

\* Mutant: the result is the size of what was to be written.
ResultOfChunk(c, n) == Len(c.cells)

\* What the method returns: what the target's awrite has returned.
Result(c, n) == c.n + n

\* Text is not bytes.
Written(job) ==
    IF job.do = "write" THEN write(io, job.cells)
    ELSE IF job.as = (IF stack.w = "text" THEN "str" ELSE "bytes") THEN RawWrite(io, job.cells)
    ELSE {Raise(io, "TypeError")}

\* aprint repeats what was refused as bytes; any other error is raised.
Retries(c, error) ==
    c.name \in Prints /\ Head(c.jobs).as = "bytes" /\ error \in {"TypeError", "ValueError"}

\* A close has flushed what is in the buffers.
HasFlushed == \E t \in Coroutines :
    Running(t, {"shut"}) \/ (Running(t, {"close_inner"}) /\ stack.buffered)

Accept(h, cells) ==
    [h EXCEPT !.accepted = @ \o cells, !.late = @ \cup IF HasFlushed THEN Elements(cells) ELSE {}]
Promise(h) == [h EXCEPT !.flushed = Elements(h.accepted)]

DoWrite(t) ==
    /\ Running(t, {"put"}) \/ (Running(t, {"write"}) /\ HasLock(t))
    /\ \E x \in Written(Job(t)) :
           /\ io' = x.io
           /\ seen' = [Accept(seen, Take(Job(t).cells, x.n)) EXCEPT
                  !.around.w = @ \/ (Job(t).do = "put" /\ x.n > 0 /\ io.outer # <<>>)]
           /\ co' = [co EXCEPT ![t] =
                  IF x.error = "none" THEN [NextJob(@) EXCEPT !.n = Result(co[t], x.n)]
                  ELSE IF Job(t).do = "put" /\ Retries(@, x.error)
                  THEN [@ EXCEPT !.jobs[1] = Put(Job(t).cells, "str"), !.at = "ready"]
                  ELSE [@ EXCEPT !.at = "raised"]]
    /\ UNCHANGED <<stack, queue, count>>

DoFlush(t) ==
    /\ Running(t, {"flush"}) /\ HasLock(t)
    /\ \E x \in flush(io) :
           /\ io' = x.io
           /\ seen' = IF x.error = "none" THEN Promise(seen) ELSE seen
           /\ co' = [co EXCEPT ![t] = IF x.error = "none" THEN NextJob(@) ELSE [@ EXCEPT !.at = "raised"]]
    /\ UNCHANGED <<stack, queue, count>>

\* A closed stream is not closed again.
DoClose(t) ==
    /\ Running(t, {"close"}) /\ HasLock(t)
    /\ \/ ~io.w /\ io' = io /\ co' = [co EXCEPT ![t].at = "done"]
       \/ /\ io.w
          /\ \E x \in CloseOuter(io) :
                 /\ io' = x.io
                 /\ co' = [co EXCEPT ![t].jobs =
                        <<Rest(IF stack.w = "fallback" THEN "close_inner" ELSE "shut", Job(t).on,
                               x.error # "none")>>]
    /\ UNCHANGED <<stack, queue, count, seen>>

DoCloseInner(t) ==
    /\ Running(t, {"close_inner"}) /\ HasLock(t)
    /\ \E x \in IF io.w THEN CloseInner(io) ELSE {Done(io, 0)} :
           /\ io' = x.io
           /\ co' = [co EXCEPT ![t].jobs =
                  <<Rest("shut", Job(t).on, Job(t).failed \/ x.error # "none")>>]
    /\ UNCHANGED <<stack, queue, count, seen>>

\* What is in the buffers is freed, and an error of a flush is raised.
DoShut(t) ==
    /\ Running(t, {"shut"})
    /\ io' = Shut(io)
    /\ seen' = [seen EXCEPT !.cut = @ \/ (io.w /\ Job(t).failed)]
    /\ co' = [co EXCEPT ![t].at = IF Job(t).failed THEN "raised" ELSE "done"]
    /\ UNCHANGED <<stack, queue, count>>

CloseOther(t) ==
    /\ Running(t, {"close_other"})
    /\ io' = CloseReader(io)
    /\ seen' = [seen EXCEPT !.cut = @ \/ (OneSocket /\ io.w)]
    /\ co' = [co EXCEPT ![t].at = "done"]
    /\ UNCHANGED <<stack, queue, count>>

\* What one recv, or read, gives: at most n cells of those that are there.
Chunk(n) == IF n = -1 THEN io.src ELSE Take(io.src, n)

\* What is done with the chunk: asplice writes it, if there is any.
Received(c) ==
    IF c.name # "asplice" \/ c.cells = <<>> THEN [c EXCEPT !.at = "done"]
    ELSE [c EXCEPT !.at = "ready",
                   !.jobs = <<IF stack.w = "plain" THEN SyncWrite(c.cells, "pool")
                              ELSE Put(c.cells, "bytes")>>]

\* Mutant: the chunks of read(-1) are not collected.
ReceivedLast(c, chunk, all) ==
    IF all /\ chunk # <<>> THEN [c EXCEPT !.cells = chunk]
    ELSE Received([c EXCEPT !.cells = @ \o chunk])

\* Mutant: an empty chunk does not end read(-1).
ReceivedForever(c, chunk, all) ==
    IF all THEN [c EXCEPT !.cells = @ \o chunk]
    ELSE Received([c EXCEPT !.cells = @ \o chunk])

\* read(-1) receives until a chunk is empty.
ReceivedChunk(c, chunk, all) ==
    IF all /\ chunk # <<>> THEN [c EXCEPT !.cells = @ \o chunk]
    ELSE Received([c EXCEPT !.cells = @ \o chunk])

CanTake == io.src # <<>> \/ io.eof

\* read(1) of the outer stream: what was read ahead, or else all that the raw stream
\* gives, of which the rest is kept.  It returns when there is something, or the end.
DoRead(t) ==
    /\ Running(t, {"read"}) /\ (io.ahead # <<>> \/ CanTake)
    /\ LET all   == IF io.ahead # <<>> THEN io.ahead ELSE io.src
           ahead == io.ahead # <<>> \/ (stack.buffered /\ stack.r # "memory")
       IN  /\ io' = IF ~ahead THEN [io EXCEPT !.src = Drop(@, 1)]
                    ELSE [io EXCEPT !.ahead = Drop(all, 1),
                                    !.src = IF io.ahead # <<>> THEN @ ELSE <<>>]
           /\ seen' = [seen EXCEPT !.taken = @ \o Take(all, 1)]
           /\ co' = [co EXCEPT ![t].at = "done", ![t].cells = Take(all, 1)]
    /\ UNCHANGED <<stack, queue, count>>

DoTake(t) ==
    /\ Running(t, {"take"}) /\ CanTake
    /\ LET chunk == Chunk(Job(t).n) IN
       /\ io' = [io EXCEPT !.src = Drop(@, Len(chunk))]
       /\ seen' = [seen EXCEPT !.taken = @ \o chunk,
                               !.around.r = @ \/ (chunk # <<>> /\ io.ahead # <<>>)]
       /\ co' = [co EXCEPT ![t] = ReceivedChunk(@, chunk, Job(t).n = -1)]
    /\ UNCHANGED <<stack, queue, count>>

\* The connection breaks, or the socket was closed between two calls of recv.  What was
\* collected so far is nobody's.
TakeFails(t) ==
    /\ Running(t, {"take"}) \/ (Running(t, {"read"}) /\ io.ahead = <<>>)
    /\ stack.r = "socket"
    /\ co' = [co EXCEPT ![t].at = "raised"]
    /\ UNCHANGED <<stack, io, queue, count, seen>>

PeerSends ==
    /\ io.left # <<>>
    /\ io' = [io EXCEPT !.left = Tail(@), !.src = Append(@, Head(io.left))]
    /\ UNCHANGED <<stack, co, queue, count, seen>>

PeerCloses ==
    /\ io.left = <<>> /\ ~io.eof
    /\ io' = [io EXCEPT !.eof = TRUE]
    /\ UNCHANGED <<stack, co, queue, count, seen>>

\* The peer of the writer has received something, or is gone.
PeerReceives ==
    /\ io.full
    /\ io' = [io EXCEPT !.full = FALSE]
    /\ UNCHANGED <<stack, co, queue, count, seen>>

Step(t) ==
    \/ Dispatch(t) \/ Grab(t)
    \/ DoWrite(t) \/ DoFlush(t) \/ DoClose(t) \/ DoCloseInner(t) \/ DoShut(t)
    \/ DoTake(t) \/ DoRead(t) \/ CloseOther(t)

Next ==
    \/ PeerSends \/ PeerCloses \/ PeerReceives
    \/ \E t \in Coroutines : (\E name \in Names : Start(t, name)) \/ Step(t) \/ TakeFails(t)

\* The loop and the threads of the pool run; the peers need not do anything.
Spec == Init /\ [][Next]_vars /\ \A t \in Coroutines : WF_vars(Step(t))

----------------------------------------------------------------------------
(* Properties. *)

Cells == 1..(2 * MaxCalls) \cup Elements(Sent)

\* The layers hold cells, and every coroutine is in a step of its method.
TypeOK ==
    /\ stack \in Stacks
    /\ \A l \in {"outer", "inner", "sink", "left", "src", "ahead"} : Elements(io[l]) \subseteq Cells
    /\ Len(io.outer) <= BufferSize
    /\ queue \in Seq(Coroutines)
    /\ \A t \in Coroutines :
           /\ co[t].at \in {"idle", "ready", "queued", "running", "done", "raised"}
           /\ co[t].at = "queued" <=> t \in Elements(queue)
           /\ co[t].at \in {"ready", "queued", "running"} => co[t].jobs # <<>>

Below == io.sink \o io.inner \o io.outer

\* Every cell that a call has accepted is in one layer, once: short sends, full buffers,
\* errors half-way, repeated prints and closing double nothing, and lose nothing but what a
\* closed stream has in its buffers: see NothingStranded.
KeptOnce ==
    /\ Len(Below) = Len(seen.accepted)
    /\ Elements(Below) = Elements(seen.accepted)
    /\ Cardinality(Elements(Below)) = Len(Below)

\* Cells are in the order in which they were accepted, across two buffers, unless an
\* asynchronous write went around a buffer that held older ones.
InOrder == ~seen.around.w => Below = seen.accepted

\* What a closed writer has in its buffers was accepted after a close had flushed them,
\* and before it shut the raw stream, by a call of another thread; anything else is out, or
\* close has raised, or the socket was closed through the reader.
NothingStranded == ~io.w /\ ~seen.cut =>
    Elements(io.outer) \cup Elements(io.inner) \subseteq seen.late

\* What was accepted before a flush is below all buffers once it returns, except in a
\* buffered stream of the fallback engine, whose raw stream has a buffer of its own.
FlushReaches == seen.flushed \subseteq Elements(io.sink) \/ (stack.w = "fallback" /\ stack.buffered)

\* A line that aprint has printed is whole, and below all buffers; except on a socket,
\* which may send the first part of it, and, as above, in a buffered fallback stream.
LinesPrinted == \A t \in Coroutines :
    co[t].name \in Prints /\ co[t].at = "done" /\ stack.w # "socket" =>
        /\ \E i \in DOMAIN Below : Take(Drop(Below, i - 1), 2) = co[t].cells
        /\ Elements(co[t].cells) \subseteq Elements(io.sink) \/ (stack.w = "fallback" /\ stack.buffered)

\* The cells that a coroutine has taken to read them.
Took(t) == IF co[t].name \in Reads THEN Elements(co[t].cells) ELSE {}

\* Every cell sent is taken by one read, once, or still to be read; in order, unless an
\* asynchronous read went around what had been read ahead.  A read that fails after it has
\* taken some is a splice, or one to the end of a socket, and has raised.
ReadsOnceInOrder ==
    /\ UNION {Took(t) : t \in Coroutines} = Elements(seen.taken)
    /\ \A t, u \in Coroutines : t # u => Took(t) \cap Took(u) = {}
    /\ Elements(seen.taken \o io.ahead \o io.src \o io.left) = Elements(Sent)
    /\ ~seen.around.r => seen.taken \o io.ahead \o io.src \o io.left = Sent
    /\ \A t \in Coroutines : co[t].at = "raised" /\ Took(t) # {} =>
           co[t].name = "asplice" \/ (co[t].name = "aread_all" /\ stack.r = "socket")

\* A splice that returns the size of its chunk has written all of it; otherwise it has
\* raised, or its result shows that the rest, which no later call will read, is lost.
SplicesTellLosses == \A t \in Coroutines :
    co[t].name = "asplice" /\ co[t].at = "done" =>
        Elements(co[t].cells) \cap Elements(seen.accepted) = Elements(Take(co[t].cells, co[t].n))

\* A coroutine that waits for a peer: to send, or to receive.
Waits(t) ==
    \/ Running(t, {"take"}) /\ ~CanTake
    \/ Running(t, {"read"}) /\ io.ahead = <<>> /\ ~CanTake
    \/ /\ stack.w = "socket"
       /\ \/ Running(t, {"put"}) /\ io.full
          \/ Running(t, {"write"}) /\ (write(io, Job(t).cells) = {} \/ ~HasLock(t))
          \/ Running(t, {"flush", "close"}) /\ Stuck(io)

PoolIsFull  == Cardinality({t \in Busy : Waits(t)}) = Workers
LoopIsHeld  == \E t \in Coroutines : Waits(t) /\ Job(t).on = "loop"

\* A coroutine ends, unless it waits for a peer, or others do so on all threads of the pool,
\* or in the loop's own.
CoroutinesEnd == \A t \in Coroutines :
    co[t].at \in {"ready", "queued", "running"} ~>
        co[t].at \in {"done", "raised"} \/ Waits(t) \/ PoolIsFull \/ LoopIsHeld

=============================================================================

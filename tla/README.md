# A verification model of py-native-io

py-native-io gives Python streams that can be used synchronously and asynchronously at
once: `f.read()` and `await f.aread()` on the same object.  On Linux the asynchronous
half goes through io_uring; where a ring is missing or a ring operation fails, the
library falls back to threads.  This directory holds TLA+ modules translated from that
code, the TLC configurations that check them on small instances, and proofs for TLAPS.

Paths below are those of the repository (`src/file_io.rs` is the Rust file of that name).

## 1. The system

| component | state | operations | talks to | modelled in |
|---|---|---|---|---|
| io_uring engine, `src/engines/linux.rs` | one process-wide id counter; per OS thread a ring and a map of drained completions | submit read / write / splice, batches of reads / writes, flush | the kernel; called by tokio workers | `UringEngine`, `RingService` |
| `NativeFileIO`, `src/file_io.rs` | `Mutex<Option<File>>`, path, mode; descriptor numbers captured by tasks | new, read, readinto, write, seek, close; aread, awrite, aread_batch, awrite_batch, asplice | the GIL, tokio, the engine, the file system | `SyncStream`, `NativeFile` |
| modes, `src/file_mode.rs`, `src/seek_whence.rs` | none | mode string to open options, whence to seek | `NativeFileIO::new`, `seek` | `FileMode` |
| engine selection, `src/engines/mod.rs`, `src/lib.rs`, `linux.rs` 80-112 | environment | is a ring supported | the stream factory, at import | `OpenStream` |
| Windows and macOS engines | none | read, write | `NativeFileIO` tasks | - |
| `AsyncIOBase` and metaclass, `py_native_io/base.py` | the class namespace | synthesised async methods; read and aread defined by each other | `asyncio.to_thread`, `asyncio.run` | `StreamClasses`, `StreamStack` |
| stream factory and `FallbackFileIO`, `py_native_io/file.py` | wrapped CPython stream | choose native or fallback | `patched_open` | `OpenStream`, `StreamStack` |
| buffered and text wrappers, `py_native_io/buffered.py` | CPython's buffers over a raw stream | sync methods use the buffer, async ones do not | the raw stream | `StreamStack` |
| memory streams, `py_native_io/memory.py` | `BytesIO`, `StringIO` | async methods run inline | - | `StreamStack` |
| socket streams, `py_native_io/socket.py` | a socket shared with its owner | read, write, close | the socket | `StreamStack` |
| patching and adapters, `py_native_io/patch.py` | `builtins`, `io`, `socket`, classes and instances patched | open, makefile, wrap / patch / ensure a stream | everything above | `OpenStream`, `StreamClasses` |
| `aprint`, `py_native_io/print.py` | lazily opened async stdout and stderr, which aprint itself does not use | print through awrite | a stream | `StreamStack`, `OpenStream` |

What is hard here: completions are matched to calls by id alone, and failed calls leave
completions behind; rings are bounded and the kernel may be slow, fail or be
interrupted; the synchronous methods juggle two locks, the mutex and the GIL; the
asynchronous ones use a descriptor number after the lock that protected it is gone; one
operation can take effect by three routes (ring, system call, fallback by path) that do
not share a file offset; asynchronous methods go around the buffers that synchronous ones
fill; two streams may own one socket; and classes are patched while other threads use
them.  `hazards` in `PROJECT.json` lists them at their lines.

## 2. The modules

### UringEngine (`src/engines/linux.rs`), RingService, MCUringEngine

State.  `next_user_data` is `NEXT_USER_DATA`; `ring_up`, `completed` are the thread's
`RingState`; `sq`, `inflight`, `cq`, `backlog` are the ring and the kernel behind it;
`pc`, `entered`, `call`, `pushed`, `got` are where the thread is in its call and what the
call has; `failed` is history (the calls that returned Err), used by properties only.

| code | action |
|---|---|
| `fetch_add` at the head of each submit function | `Begin`, by way of `submit_uring_read`, `_write`, `_splice`, `_read_batch`, `_write_batch` |
| `with_thread_ring_state` | `OpenRing`, `OpenRingFails` |
| push; push again after `submit_and_wait(1)` | `Push` (`pc` = "push", then "repush") |
| `submit_and_wait` in all three places | `EnterSubmit`, then `EnterWake` or `EnterInterrupted`; or `EnterShort` |
| `poll_completion_for_id` | `PollHit`, `PollDrain`, `Submit` |
| negative result, any `?` | `Abandon` inside `Take`, `Push`, `EnterShort`, `EnterInterrupted` |
| `flush_thread_ring` | `flush_thread_ring` |
| the kernel (external) | `Complete`, `FlushBacklog`, and the halves of `Enter*` |

A `submit_and_wait` is two steps, so that completions and other threads fall between
taking the queue and waking up.  No entry carries a link flag, hence queues are sets.
Payloads are left out: an entry is its id, and, for the properties, the call and the
position in the call it really belongs to.  The code sees only the id.

`RingService` is the same service without ids, queues or kernel: a call has operations,
each is reported on at most once, the call collects the reports in order and answers.
`ImplementsService` says that `UringEngine` implements it, by the refinement mapping at
the end of the module: an answer can only be made of results reported for that call's own
operations, in their order, and an Ok answer is complete.

### SyncStream (`src/file_io.rs`, the locking), MCSyncStream

One stream, the mutex `lock`, the `gil`, and the Option `file`.  A method is: `Call`
(GIL held), `Lock` (blocks on the mutex with the GIL held; then everything that happens
before `allow_threads`, or the whole method if it makes no system call), `AllowThreads`,
`Syscall`, `Regil`, `DropGuard`.  `TakeGil` and `SwitchGil` are the interpreter.  Tokio
workers are threads that take the GIL and call no method.

### FileMode (`src/file_mode.rs`)

The parser only uses `contains`, so a mode string is the set of its characters.
`parse` and `configure_open_options` are the two functions of the file; NativeFile and
OpenStream open their files through them.

### OpenStream (`py_native_io/patch.py` 25-217, `py_native_io/file.py`, `src/engines/mod.rs`, `src/engines/linux.rs` 79-112), MCOpenStream

From the import to an open stream.  `Import` runs `is_kernel_ring_supported` on the
`host` and fixes `engine`; it is also where `patch_python_io` puts the constructors below
in place of CPython's.

* `Open` is `patched_open`: the raw mode, the factory `create_default_file_io` (the native
  attempt, whose exceptions are swallowed, then `FallbackFileIO`), and the wrapper, whose
  constructor may refuse the raw stream.
* `OpenRaw` is `io.FileIO`, which becomes `DefaultFileIO` itself, without the factory and
  its special case for descriptors.  The lazily opened standard streams
  (`get_async_stdout`, `get_async_stderr` of `print.py`) are opens of this kind, of the
  descriptors 1 and 2.
* `Makefile` is `patched_socket_makefile`: an `AsyncSocketIO` and its own choice of
  wrapper, made by other characters of the mode than in `patched_open`.  Lines 166-191 of
  `patch.py` follow a `return` and cannot run.

A stream has `units`: whether its reads give bytes or text, or nothing at all.  The latter
is what `Wrap` makes of a text stream that is taken for a raw one: `readinto` is missing
and `write` refuses bytes, so that every later read and flush raises.

The outcome is kept in `last` with the files as they were before, so that it can be
compared with `InPython` and `MakefileInPython`, what CPython's own functions do.  Three
file names are enough: the one the caller means, the one that `str()` makes of a bytes
path, and the one that it makes of a descriptor.

### NativeFile (`src/file_io.rs`, the data), MCNativeFile

Streams with their open file description (`pos`, `opts`), the process's descriptor table,
files as sequences of cells, and the tasks that the asynchronous methods spawned.  A task
holds the descriptor number captured at the call.  `RingStart` looks that number up, which
is where a stale number would bite; `Issue` and `Perform` are the kernel executing an
entry; `RingEnd` and `RingInterrupted` are the two ways the ring call returns; `Fallback`
is the `spawn_blocking` closure, which reopens the path.  A task of kind "pread" is an
`aread_batch` with explicit offsets.  `asplice` is given a bare number as its target, uses
only the path of its own stream, which may be closed, and ends in `Splice`: the kernel's
splice refuses two files, so that the closure reads from the one and writes to whatever
the number denotes at that moment.  The system hands out the lowest number that is free,
but reopened paths occupy numbers for a while, so `new` may be given any free one.

Synchronous methods act at once and are recorded as ended tasks: the locking that makes
this right is SyncStream's, and the ring's outcomes are UringEngine's.

A write of one cell stands for a write of any length that the system does not split.
The kernel reads the file offset of an entry with offset `u64::MAX` when it issues the
entry (`Issue`) and sets it when the entry ends (`Perform`), since it may pass a buffered
write to a worker in between; the two steps are the reason that two entries can share an
offset.

### StreamClasses (`py_native_io/base.py`, `py_native_io/patch.py` 220-434), MCStreamClasses

Which code a method call reaches.  A world is a program's classes with their MROs and the
names their bodies define; `AsyncIOBaseMeta` and `AsyncIOBase` give the class
dictionaries, in which each name has a *way* of being defined: by hand, by an automatic
wrapper of the metaclass, by a thread, by a loop, one by one, or by a stub.  `Call` starts
a call in a loop or outside, on the stream or on the `AsyncStreamAdapter` around it;
`ToThread`, `BridgeToLoop`, `ForEach`, `Splice`, `Delegate` and `Refuse` follow it from
method to method, each looking the next name up in the classes as they are by then.

`patch_stream` runs step by step beside them: `Check` finds a method that is missing,
`Assign` puts it into the class, where an error is suppressed, and into the instance,
where it is raised; `CheckStub` and `AssignStub` do the same for the stubs.  Other threads
run between check and assignment.  Checks that find nothing missing are made together
with the next that does, as no step takes a method away.

### StreamStack (`buffered.py`, `socket.py`, `memory.py`, `print.py`, `file.py`, `base.py`), MCStreamStack

The bytes.  A stack is a reading and a writing stream of given kinds.  `io` holds the
layers: the buffer of CPython's outer stream (`outer`), the buffer inside
`FallbackFileIO` (`inner`), what has left the process (`sink`); and for reading what the
peer has still to send (`left`), what can be read (`src`) and what was read ahead
(`ahead`).  Each operation on the layers yields the set of its outcomes, which is how a
short send or a failing disk is chosen.

Every call of the program is a coroutine, a list of jobs (`Jobs`).  A job is dispatched
(`Dispatch`) to the thread pool, to the ring or to the loop itself, waits in `queue`, is
taken by a free thread (`Grab`) and runs as one of `DoWrite`, `DoFlush`, `DoClose`, `DoTake`
and `DoRead`.  The synchronous calls (`write`, `flush`, `close`, `read`, and `close_other`
of the reader) are jobs of the loop's own thread: until they return, no other coroutine
starts or goes on (`LoopIsFree`).  `asplice` makes the job that writes from the chunk it has
read (`Received`); `aprint` repeats as text what was refused as bytes (`Retries`).

Two things take a job more than a step.

* A send waits while the window of the socket's peer is full (`io.full`); any send may fill
  it, and only `PeerReceives` empties it.  What waits in the middle of a drain keeps the
  lock of the outer buffer (`Holds`), and synchronous calls of other threads wait for it.
* `close` flushes the outer buffer (`DoClose`), then the one inside `FallbackFileIO`
  (`DoCloseInner`), and then shuts the raw stream and frees what is in the buffers
  (`DoShut`).  CPython's lock of a buffer is free between its flush and the shut, and a
  call of another thread may put cells into it: `seen.late` records them.

A drain of a buffer is one step otherwise.  The lock is held throughout, and an
asynchronous write in the middle of it goes around a filled buffer, as one before it does:
the properties do not tell the two apart.

## 3. The runs

| run | question | bounds |
|---|---|---|
| `Uring_healthy` | Are results lost, swapped, doubled or freed too early when the kernel only delays, reorders and fails operations? Does every call return? | 2 threads, ring of 1, batches to 2, 4 ids |
| `Uring_faulty` | The same with signals, partial submissions, refused rings and a batch larger than the completion queue; is it still the service? | 1 thread, ring of 1, batches to 3, 4 ids |
| `Sync_guarded` | Do the mutex and the GIL protect the file, and does every call return unless two of them embrace? | 3 threads, any number of calls |
| `Sync_embrace` | Thread-safe synchronous calls? Violated | 2 callers |
| `Open_valid` | Do open, `io.FileIO` and makefile do what CPython's do, and nothing when they raise? Can a mode make the options illegal? Which kernels get native streams? | all 128 sets of mode characters, 3 kinds of path, buffered or not, 9 machines |
| `Native_data` | Does data reach, or come from, another stream's file through a reused descriptor? Is an appended cell ever lost or written twice? | 2 streams, 2 files, 2 descriptors, modes r, w and a, 2 operations of one cell, refused rings, errors and interruptions, callers that await before closing |
| `Native_aread` | Do reads go on from each other? Violated | 1 stream, 3 operations |
| `Native_fallback_offset` | Do sync and async writes follow each other? Violated | 1 stream, 3 operations |
| `Native_read_only` | Does a read-only stream never write? Violated | 1 stream, 2 operations |
| `Stack_bytes` | Are bytes lost, doubled, reordered or stranded between the layers? What do flush, aprint and asplice promise? Do coroutines end? | 8 stacks, 3 calls, a pool of 1, a buffer of 2 cells, 2 cells to read |
| `Classes_patched` | Do all forms of an operation reach the same class, do calls end, and what does patching break? | about 100 programs of up to 4 classes, 2 streams, one thread that calls and patches, one that patches |
| `Classes_refused` | Does a synchronous read inside a running loop raise? Violated | a class with a read of its own, one without, 2 streams, 1 thread |

With two workers `Native_data` (4.3 million states) and `Open_valid` (0.4 million) take
about two minutes, `Classes_patched` (0.35 million) and `Stack_bytes` (0.5 million) up to
three, most of it for liveness, and the others less.

Why the bounds are enough.  Rings interact through the id counter only, so two threads
show every interleaving of reservations.  A ring of 1 has a completion queue of 2: a
batch of 2 fills the submission queue, a batch of 3 also exceeds the completion queue, so
that the second push, the clamped wait and the backlog all occur, and 4 ids leave room
for a later call that meets what a failed batch of 3 left.  Ring sizes are reached
through `get_configured_ring_size`: the setting 3 is not a power of two and 0 is unset.
In `NativeFile` a descriptor mix-up takes two streams, two files and one reuse of a
number; loss and duplication take two concurrent operations.  Streams differ in nothing but
their names, so `Native_data` permutes them (what stands in the place of a stream that does
not exist yet is never read).  Its batches are of one cell, and so never half done when they
are repeated; `NoCellTwice`, `TasksStayConfined` and `AppendersKeepEverything` are proved for
every length.  Opens are independent of
each other but for the files they leave, and all file states are initial ones.  In
`StreamStack` a write is two cells, the least that a send, a drain or a batch can split,
and the buffer holds one write and not two, so that it overflows; disorder takes one call
that fills the buffer and one that goes around it, and a late write one more call, between
the steps of a close; a pool of one thread is full with one
reader.  In `StreamClasses` the forms of an operation meet in a class, its base and a
mixin between them; a fourth class is needed for a mixin whose own base comes after the
engine; a stub spoils a class through a relative that is patched first; and
the conditions of `patch_stream` race with those of a second thread.

Deadlock is checked in `Classes_patched`, where a thread can always start a new call.
Elsewhere a behaviour ends at a bound (ids, operations, writes, coroutines, one open per
outcome), or the system really can deadlock (`Sync_guarded`, `Sync_embrace`).

Fairness.  `UringEngine`: a thread inside a call keeps running (weak fairness of its own
steps), and an operation that the kernel took completes, with its completion moved out of
the backlog while the thread is inside the kernel.  The engine sets no timeout, so an
operation that never ends, a read of an idle pipe, is outside this.  `SyncStream`: a
thread that can run does, a running interpreter gives up the GIL at its switch interval,
and a thread waiting for the GIL gets it if it is freed again and again (CPython's forced
switching).  `StreamStack`: the loop and the threads of the pool run; a peer never has to
send, receive, close or fail.  `StreamClasses`: a call that can go on does.  Calls and
patches are never forced to happen.

### What the properties except, and why

The properties that hold name their exceptions, and these are the places where the library
does not do what its user may expect.

* `BuffersOutliveOps` needs a kernel without interruptions and batches that fit the
  completion queue (2048 entries by default).  Otherwise the code returns while the
  kernel still uses buffers that are freed on return: after EINTR at `linux.rs` 149, or
  when an early operation of an oversized batch failed at 245.
* `CallsReturn` excepts two threads that block each other on the mutex and the GIL.
* `Confined` needs callers that await a stream's tasks, and splices to it, before they
  close it.  With `AwaitBeforeClose = FALSE` TLC finds a task that writes to the file which
  got the number of the closed one.
* `NoDuplicates` excepts ring calls that failed after they started: the fallback repeats
  the whole operation, also entries that were already written (`file_io.rs` 395).
* `AppendersLoseNothing` is about files that all writers have open in append mode.
* `AsPythonElsewhere` and `RefusalsLeaveNoTrace`: mode `x` creates the file and then raises
  when buffered, as its wrapper is a reader, and unbuffered on a native engine opens an
  existing file; `r+` creates a missing file; writing to a bytes path `b"f"` creates a file
  named `b'f'`.  Where CPython's own open serves a mode with a `t`, that is on the fallback
  engine and for a descriptor, the stream is of no use: `patch.py` 51 leaves the `t` in the
  raw mode, `FallbackFileIO` (`file.py` 44-48) holds a text stream, and the buffered class
  around it finds no `readinto` and a `write` that refuses bytes.  `AsPythonElsewhere`
  states this one exactly.  "Can't have unbuffered text I/O" is raised after the file was
  opened.
* `DescriptorsNameNoFile`: `io.FileIO(1)` on a native engine opens the path `"1"`, and so do
  the lazily opened standard streams.  (`aprint` itself prints to `sys.stdout`.)
* `MakefilesAsPython` says for which modes the streams agree: not for buffered `rw`, which
  only writes here, nor for a mode with neither `r` nor `w`.
* `NativeIsSecure` needs a readable `/proc/sys/kernel/osrelease`: the check lets a kernel
  pass whose release it cannot read or parse.
* `InOrder` and `ReadsOnceInOrder` except asynchronous calls made while the outer buffer
  holds something: they go around it.  A read may also fail after it has taken something,
  and then nobody gets that: `ReadsOnceInOrder` says that this is only a splice whose write
  raises, or a read to the end of a socket, which has collected chunks (`socket.py` 18-25)
  when a later `recv` raises, and that either has raised.
* `FlushReaches` and `LinesPrinted` except buffered streams of the fallback engine, where
  flush and aflush empty the outer buffer into that of the raw stream and nobody flushes
  the latter.  `LinesPrinted` also excepts sockets, whose short sends aprint ignores.
* `NothingStranded` excepts a writer whose socket was closed through the other makefile
  stream: its `closed` is true, so that close returns without an error and without the
  buffered bytes.  Errors that close reports are excepted too.  And it excepts the late writes:
  with `aclose` on a thread of the pool (`base.py` 127), a synchronous write can be
  accepted after the flush and before the raw stream is shut; its bytes are freed, and
  neither call raises.  Anything else that a closed writer had is out.
* `KeptOnce` says where accepted bytes are, not that they arrive: those that a closed stream
  has left in its buffers count as kept there, and `NothingStranded` says which they are.
* `CoroutinesEnd` names the reasons to wait: a peer that sends nothing, or does not receive
  (`socket.py` 34 blocks), and the lock of a buffer behind such a send; a pool full of
  such waits; and a synchronous call that so waits in the loop's own thread.
* `StubsForMissing` and `BroughtMethodsKept` except streams of a class that inherits the
  patched one: the stub comes first in the MRO and hides what a later class brings.
* `PatchedConform` excepts classes that take no attributes; the stubs fail silently there.
* `FormsAgree` excepts the synchronous form of a class that has only the asynchronous one,
  mixins that the metaclass never saw, or that were patched and come first, and batches
  and splices written by hand.
* `CallsEnd` excepts classes that define neither form of an operation: read and aread
  then call each other without end.

`SequentialWritesKept` fails also for a batch on a stream that is not in append mode, in a
kernel that defers buffered writes: set `MaxBatch = 2`, `Faults = {}` in
`Native_fallback_offset.cfg` to see it.

## 4. Findings

* **Two threads, one stream: deadlock** (`Sync_embrace`).  `read` gives up the GIL with the
  mutex locked; a second thread takes the GIL and blocks on the mutex in any method,
  `closed` included; the first never gets the GIL back.  `PROJECT_GOALS.md` 23 promises
  thread-safe synchronous fallbacks.
* **aread does not advance** (`Native_aread`).  It reads at offset 0 every time.
* **A fallback leaves the offset behind** (`Native_fallback_offset`).  The next synchronous
  write overwrites what the awrite appended.
* **awrite on a read-only stream writes** (`Native_read_only`).  EBADF in the ring is taken
  for a missing ring, and the fallback opens the path for appending.
* **A synchronous read in a running loop blocks it** (`Classes_refused`).  `README.md` 35 and
  `PROJECT_GOALS.md` 23 say that it raises a `RuntimeError`.  Only the base's own `read`
  does (`base.py` 157); every stream class of the library brings a `read` of its own, which
  runs in the loop's thread.

## 5. The proofs

`tlapm` checks every proof of the eight proof modules, from nothing in about a quarter of
an hour.  All theorems hold for every value of the constants that meets the named
assumptions.

**The engine: two modules, one chain of invariants.**  Each part adds an invariant that is
inductive on top of the ones before it.

1. `UringEngineProofs`.  `TypeCorrect` is `Spec => []TypeOK`.  `OwnResults` is not
   inductive: what a call takes depends on what earlier calls left in the ring.  The
   strengthening is `IdsInOrder`: every entry of the current call carries the id
   `start + idx - 1` that the counter reserved for it, every entry of an earlier call a
   smaller id than `start`, and the counter is past both.  `IdsStayInOrder` and
   `ResultsAreOwn` follow.  `OneCopyAndQuiet` proves that every operation is in exactly one
   of the five places an entry can be, and that entries belong to failed calls or to the
   call under way; `OkCallsLeaveNothing` is the latter.  It needs the ids: two entries of
   one id would overwrite each other in the map.
2. `UringServiceProofs`.  `RoomInv` bounds the submission queue by the ring's size and empties
   it while the thread is in the kernel: `RepushFindsRoom`.  That is also what the refinement
   needs beside the engine's invariant, as a second push that failed would be a call that
   gives up on a machine without faults.  `Implementation` is
   `Spec => ImplementsService`: initial states map to initial states, and `EngineStep` maps
   every step to a step of `RingService` or to a stutter.
3. Also `UringServiceProofs`.  `WaitInv` says that an operation which was pushed and not taken is
   somewhere (`Present`), and that a call drains nothing of its own before it has pushed all.
   `NeverStuck` counts: a thread that waits for n completions has n operations outstanding.
   `BufInv`, the last part of the chain, says that the ring holds operations of the current
   call only, and that a batch that polls has nothing left but completions.
   `BuffersStayAlive` follows, under `Healthy` (no interruptions, batches that fit the
   completion queue), the precondition of the property itself.

**`SyncStreamProofs`.**  `LocksHeld` together with the types and `NoCallOnClosedFile` is
inductive (`Invariance`); `TypeCorrect`, `NoUseAfterClose` and `MutualExclusion` follow.

**`NativeFileProofs`.**  `TypeOK` is not inductive: when the kernel looks a number up
(`RingStart`), that the answer is a stream or nothing needs the number to be one of the
process's, and a task got it from a stream that was open when it started.  So `IInv` is
`TypeOK`, `FdTableExact` and `TaskLinks` (a queued task holds a number of `Fds`, a task
with issued entries has a target) together.  `TypeCorrect` and `DescriptorsAreExact`
follow.  Both need no assumption on the callers: they hold also when a stream is closed
under its tasks.

**`NativeDataProofs`, where data goes.**  `TasksStayConfined` is `[](AwaitBeforeClose => Confined)`.  Its
invariant `CInv` says of every task that its target is its own stream, that its stream is
open while it is pending and that it still owns the number the task captured; and that
every cell of a file, and every cell read, was written through a stream of that file.

**`NativeDataProofs`, what becomes of it.**  Two invariants about a written cell.

* `OnceInv` says when an operation has a cell behind it: its entry has left `todo`, or the
  operation has ended.  Every cell in the files is behind its operation (`Accounted`), so
  that a step which writes a cell that is not cannot write it twice; and a task that falls
  back unfailed has no entries left (`Resting`).  `NoCellTwice` follows, without any
  assumption on the callers.  All actions that write come down to one lemma, `PlacedOnce`:
  what a step adds to a file is new, and the rest stays where it was.
* `LInv` says of a file whose writers all append that a write which has ended has all its
  cells in it, and that a write in the ring has those whose entries are done (`InFile`).
  `AppendersKeepEverything` is `[](AwaitBeforeClose => AppendersLoseNothing)`.  It rests on
  `CInv`: the cells must be in the file of the task's own stream.

**`OpenStreamProofs`.**  The invariant says how the latest outcome came about (`Explained`)
and that a native engine was selected on a machine that passed the check.  From it follow
all six properties of the module, for every set of machines: `ModesAlwaysValid`,
`OnlySecureNative`, `RefusalsAreClean`, `OpensAsPython`, `DescriptorsAreNotNames` and
`MakefilesCompared`.  `OpensAsPython` is an equivalence: outside the other exceptions a
stream is CPython's exactly unless a text stream was wrapped as a raw one.

**`StreamStackProofs`.**  All eight safety properties of the bytes, for any sizes of buffer
and pool, any number of coroutines and anything that a peer sends.  Assumed are only that
the cells which the peer sends are distinct, and negative where the program's own are
positive (`SentAssumption`), that sizes and bounds are numbers (`SizeAssumption`), that the
coroutines run methods of the streams (`NameAssumption`), and that the pairs of streams are
pairs of the model's kinds (`StackAssumption`).

* `TypeInv` adds to `TypeOK` which jobs each method can have left (`Shape`): one,
  its last (`LastJob`), or two with `JobBefore` first.  Without it a job could be that of
  another method.
* `ReadInv` is `ReadsOnceInOrder` with the shares of the readers: what each call has
  taken to read it are disjoint parts of `taken` (`Shares`), and the taken,
  the read ahead, the arrived and the unsent are the peer's cells (`Streams`), in order
  until a read goes around what was read ahead.  `InHand` says which reads can have failed
  with something in hand.
* `WriteInv` is about the other direction.  What a coroutine has still to write is its own
  (`Owns`), and was not accepted before (`Pending`, `Unwritten`), which is what keeps
  `KeptOnce` when a line is printed again or a send was short; `Order` is `InOrder`
  together with whose cells the accepted ones are: the program's own, or taken from the
  peer by a splice.
* `FlushReaches` is inductive on top of it.  `NothingStranded` is not: that the shut of the
  raw stream strands nothing but late writes depends on what the close has flushed before.
  `CloseInv` adds this for every close under way (`ClosesWell`): after its flush, what is in
  the buffers it has emptied came late, unless a flush has failed.  `FlushedIsBelow`,
  `ClosingEmpties`, `AcceptedIsKept`, `AcceptedInOrder` and `SpliceResult` are the theorems.
* `LinesInv`, for `PrintedWhole`: a line in print is solid, that is, two cells that follow
  each other where no later step comes between them.

Sequences of any length are handled by lemmas about `Take`, `Drop` and concatenation at the
head of the module, which need no induction: the model has no recursion over them.

**`StreamClassesProofs`.**  All five safety properties of the classes, for every program, its
MROs of any length, and any number of threads that call and patch at once.  Assumed are
that an MRO is a sequence of classes that begins with the class itself, and that bodies
define names of the model (`WorldAssumption`, `CallAssumption`).

* `ClassInv` and `OwnInv` say what a dictionary can hold: what the metaclass made of the
  body, or, in a class that is not under `AsyncIOBase` and had nothing there, what a patch
  put, a stub only where the operation is missing (`Patch`); and that what a patched
  instance has its class has too, if it takes attributes (`Kept`).
* `FrameInv` says of each thread what it has behind it (`Sound`).  A call that has come to
  another name still serves the same operation; in a loop a synchronous name is the one
  that was asked for; and a call that has gone to a thread met the base's wrapper first
  (`Traced`).  A patch has provided all methods that it has passed (`Provided`,
  `Settled`), and nothing was brought where it is about to assign (`Unbrought`), even when
  others have assigned since its check.
* Each step either moves one frame (`Goes`) or puts one entry (`Puts`); `Grows` is what the
  dictionaries may do, and `GrowsSound` that no thread minds what the others put.
  `Invariance` follows, and from it `TypeCorrect`, `WorkOfTheForemost`,
  `StubsAnswer` and `PatchesComplete`; `BroughtStays` is the action property
  `BroughtMethodsKept`.

The proof found two programs that `FormsAgree` had overlooked: a splice written by hand
is its own class's; and a mixin that inherits a method from a base behind the engine
in the MRO hides the engine's asynchronous method once a stream of the mixin is patched
(`Overtaken`).  Both are now exceptions of the property and programs of `Classes_patched`.

Model-checked only: liveness (`CallReturns`, `CallsReturn`, `CoroutinesEnd`, `CallsEnd`),
which is out of the prover's reach, as anything with `ENABLED`.  Every invariant and every
action property of the passing runs is proved.  The five properties of the findings are
violated and so have nothing to prove.

## 6. What is not modelled

* Payloads, formatting, logging; `seek_whence.rs`, a table of three entries; packaging,
  examples and CI.
* Windows and macOS: `windows.rs` reads or writes through a raw handle without state,
  `macos.rs` is a stub, and the probes of these systems decide on their own.
* What belongs to CPython: the one buffer that `BufferedRandom` uses for both directions,
  the codec of the text wrapper, and the middle of a drain, during which the lock of the
  buffer is held (a drain is one step, and waits as a whole for a full window).
* An `opener` and unknown kinds of file, which `patched_open` hands to CPython's open; the
  `seek`, `tell` and predicates of the adapter and of `FallbackFileIO`, which forward.
* The `_ext_*` hooks of `AsyncIOBase`, which nothing in the repository sets.
* That ring calls block inside asynchronous tasks (`file_io.rs` 230): as many slow
  operations as tokio has workers keep every other task waiting.  It would take a model of
  the runtime's scheduler, of which the repository has only the default configuration.
* That `aprint` keeps its standard streams and opens them again once closed.

Composition.  `NativeFile` abstracts `UringEngine` to the outcomes of a ring call and
`SyncStream` to the atomicity of a synchronous method; `OpenStream` and `NativeFile` open
through `FileMode`; `StreamStack` takes a native stream as a raw stream whose writes are
whole or fail, and the methods it runs are those that `StreamClasses` finds for the
library's own classes.

What is left to prove: that `SyncStream`, method by method, implements the atomic methods
that `NativeFile` assumes, once an abstract specification of these is written down.

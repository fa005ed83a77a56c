----------------------------- MODULE SyncStream ------------------------------
(***************************************************************************)
(* One NativeFileIO object shared by Python threads, src/file_io.rs: its   *)
(* `file: Mutex<Option<File>>` and CPython's GIL.                          *)
(*                                                                         *)
(* A synchronous operation locks the mutex while it holds the GIL, gives   *)
(* the GIL up for the system call (py.allow_threads) with the mutex still  *)
(* locked, and takes the GIL back before the guard is dropped.  close,     *)
(* closed, fileno and the fd capture of the async methods lock the mutex   *)
(* and keep the GIL throughout.  Nobody gives the GIL up while blocked on  *)
(* the mutex: std's Mutex::lock knows nothing of Python.  The tokio        *)
(* workers take the GIL too, to build results, and never the mutex.        *)
(***************************************************************************)
EXTENDS Integers, FiniteSets

CONSTANTS
    Threads,   \* the threads that take the GIL: Python threads and tokio workers
    Callers    \* the Python threads among them, which call the stream's methods

Nobody == "nobody"

ASSUME CallerAssumption == Callers \subseteq Threads
ASSUME NobodyAssumption == Nobody \notin Threads

VARIABLES
    gil,      \* the thread that holds the GIL, or Nobody
    lock,     \* the thread that holds the mutex's guard, or Nobody
    file,     \* "open" (Some(File)) or "closed" (None)
    pc,       \* "python", "block", "checked", "syscall", "regil" or "release"
    op,       \* the operation a thread is in, or was in last
    result    \* its outcome

vars == <<gil, lock, file, pc, op, result>>

\* The operations that give the GIL up for a system call; tell is a seek by 0.
Blocking == {"read", "readinto", "write", "seek"}

\* Those that do not: "fileno" is also the first part of aread, awrite, aread_batch and
\* awrite_batch, which capture the descriptor, and "close" that of aclose and __exit__.
Short == {"fileno", "closed", "close"}
Ops   == Blocking \cup Short

Init ==
    /\ gil = Nobody
    /\ lock = Nobody
    /\ file = "open"
    /\ pc = [t \in Threads |-> "python"]
    /\ op = [t \in Threads |-> "closed"]
    /\ result = [t \in Threads |-> "none"]

----------------------------------------------------------------------------
(* The interpreter: a thread runs Python code while it holds the GIL and   *)
(* is asked to give it up at every switch interval.                        *)

TakeGil(t) ==
    /\ gil = Nobody /\ pc[t] = "python"
    /\ gil' = t
    /\ UNCHANGED <<lock, file, pc, op, result>>

SwitchGil(t) ==
    /\ gil = t /\ pc[t] = "python"
    /\ gil' = Nobody
    /\ UNCHANGED <<lock, file, pc, op, result>>

Call(t, o) ==
    /\ t \in Callers
    /\ gil = t /\ pc[t] = "python"
    /\ op' = [op EXCEPT ![t] = o]
    /\ pc' = [pc EXCEPT ![t] = "block"]
    /\ UNCHANGED <<gil, lock, file, result>>

----------------------------------------------------------------------------
(* The methods.  A return that drops the guard at once leaves lock free.   *)

Return(t, r) ==
    /\ result' = [result EXCEPT ![t] = r]
    /\ pc' = [pc EXCEPT ![t] = "python"]

\* *guard = None: the File is dropped, its descriptor closed.  Closing twice is fine.
Close(t) ==
    /\ op[t] = "close"
    /\ file' = "closed"
    /\ Return(t, "done")
    /\ UNCHANGED lock

\* Mutant: the guard is looked at instead of what it guards.
LookAtGuard(t) ==
    /\ op[t] = "closed"
    /\ Return(t, lock)
    /\ UNCHANGED <<lock, file>>

Look(t) ==
    /\ op[t] = "closed"
    /\ Return(t, file)
    /\ UNCHANGED <<lock, file>>

RefuseClosed(t) ==
    /\ op[t] \notin {"close", "closed"}
    /\ file = "closed"
    /\ Return(t, "I/O operation on closed file.")
    /\ UNCHANGED <<lock, file>>

CaptureFd(t) ==
    /\ op[t] = "fileno" /\ file = "open"
    /\ Return(t, "done")
    /\ UNCHANGED <<lock, file>>

\* readinto of something without a buffer; seek with an unknown whence.
RefuseArgument(t) ==
    /\ op[t] \in {"readinto", "seek"} /\ file = "open"
    /\ Return(t, "error")
    /\ UNCHANGED <<lock, file>>

KeepGuard(t) ==
    /\ op[t] \in Blocking /\ file = "open"
    /\ lock' = t
    /\ pc' = [pc EXCEPT ![t] = "checked"]
    /\ UNCHANGED <<file, result>>

\* self.file.lock(), the check of the Option, and what follows under the GIL.
Lock(t) ==
    /\ pc[t] = "block" /\ lock = Nobody
    /\ \/ Close(t) \/ Look(t) \/ RefuseClosed(t) \/ CaptureFd(t)
       \/ RefuseArgument(t) \/ KeepGuard(t)
    /\ UNCHANGED <<gil, op>>

\* Mutant: the guard is dropped with the GIL, before the system call.
DropBoth(t) ==
    /\ pc[t] = "checked"
    /\ gil' = Nobody /\ lock' = Nobody
    /\ pc' = [pc EXCEPT ![t] = "syscall"]
    /\ UNCHANGED <<file, op, result>>

\* py.allow_threads: the GIL is given up, the system call starts.
AllowThreads(t) ==
    /\ pc[t] = "checked"
    /\ gil' = Nobody
    /\ pc' = [pc EXCEPT ![t] = "syscall"]
    /\ UNCHANGED <<lock, file, op, result>>

Syscall(t) ==
    /\ pc[t] = "syscall"
    /\ \E r \in {"done", "error"} : result' = [result EXCEPT ![t] = r]
    /\ pc' = [pc EXCEPT ![t] = "regil"]
    /\ UNCHANGED <<gil, lock, file, op>>

\* The end of allow_threads: the thread waits for the GIL, its guard still held.
Regil(t) ==
    /\ pc[t] = "regil" /\ gil = Nobody
    /\ gil' = t
    /\ pc' = [pc EXCEPT ![t] = "release"]
    /\ UNCHANGED <<lock, file, op, result>>

\* Mutant: an error of the system call leaves the guard locked.
DropOnOk(t) ==
    /\ pc[t] = "release"
    /\ lock' = IF result[t] = "done" THEN Nobody ELSE lock
    /\ pc' = [pc EXCEPT ![t] = "python"]
    /\ UNCHANGED <<gil, file, op, result>>

\* The end of the method: the guard is dropped, whatever the outcome.
DropGuard(t) ==
    /\ pc[t] = "release"
    /\ lock' = Nobody
    /\ pc' = [pc EXCEPT ![t] = "python"]
    /\ UNCHANGED <<gil, file, op, result>>

Step(t) == Lock(t) \/ AllowThreads(t) \/ Syscall(t) \/ Regil(t) \/ DropGuard(t)

Next == \E t \in Threads :
    \/ TakeGil(t) \/ SwitchGil(t) \/ (\E o \in Ops : Call(t, o))
    \/ Step(t)

Spec == Init /\ [][Next]_vars

\* A thread that can run does, system calls end, a running interpreter gives the GIL up
\* at its switch interval, and the GIL's forced switching serves whoever asks for it.
Fairness == \A t \in Threads :
    WF_vars(Step(t)) /\ WF_vars(SwitchGil(t)) /\ SF_vars(Regil(t))

FairSpec == Spec /\ Fairness

----------------------------------------------------------------------------
(* Properties. *)

\* The state is well formed: one owner of each lock, one state of the Option.
TypeOK ==
    /\ gil \in Threads \cup {Nobody}
    /\ lock \in Threads \cup {Nobody}
    /\ file \in {"open", "closed"}
    /\ pc \in [Threads -> {"python", "block", "checked", "syscall", "regil", "release"}]
    /\ op \in [Threads -> Ops]
    /\ result \in [Threads -> {"none", "done", "error", "open", "closed",
                               "I/O operation on closed file."}]

\* A thread owns the mutex exactly from the closed check of a blocking operation to the
\* end of the method, and the GIL exactly where allow_threads has not given it up.
LocksHeld == \A t \in Threads :
    /\ pc[t] \in {"checked", "syscall", "regil", "release"} <=> lock = t
    /\ pc[t] \in {"block", "checked", "release"} => gil = t
    /\ pc[t] \in {"syscall", "regil"} => gil # t

\* The File is never closed under a system call, though the GIL is free during it and
\* another thread may call close(): the check and the call share one critical section.
NoCallOnClosedFile == \A t \in Threads : pc[t] \in {"checked", "syscall"} => file = "open"

\* The system calls of one stream exclude each other: reads and writes of two threads
\* never use the one file offset at the same time.
SyscallsExclude == \A t, u \in Threads :
    pc[t] = "syscall" /\ pc[u] = "syscall" => t = u

\* PROJECT_GOALS.md calls the synchronous operations thread-safe.  No two threads wait
\* for each other, one for the mutex holding the GIL, one for the GIL holding the mutex.
NoDeadlyEmbrace == \A t, u \in Threads :
    ~ (pc[t] = "block" /\ gil = t /\ pc[u] = "regil" /\ lock = u)

\* The embrace is the only way for a call not to return: where it never comes about, as
\* with one calling thread, every call returns, also after a failed system call.
CallsReturn == []NoDeadlyEmbrace => \A t \in Threads : pc[t] # "python" ~> pc[t] = "python"

=============================================================================

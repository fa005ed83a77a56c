-------------------------- MODULE SyncStreamProofs ---------------------------
(***************************************************************************)
(* Theorems about a stream shared by any number of Python threads.         *)
(***************************************************************************)
EXTENDS SyncStream, TLAPS

Inv == TypeOK /\ LocksHeld /\ NoCallOnClosedFile

LEMMA InitInv == Init => Inv
BY NobodyAssumption DEF Init, Inv, TypeOK, LocksHeld, NoCallOnClosedFile, Ops, Short, Nobody

LEMMA StepInv == Inv /\ [Next]_vars => Inv'
<1> SUFFICES ASSUME Inv, [Next]_vars PROVE Inv'
    OBVIOUS
<1> USE NobodyAssumption DEF Inv, TypeOK, LocksHeld, NoCallOnClosedFile
<1>1. CASE UNCHANGED vars
    BY <1>1 DEF vars
<1>2. ASSUME NEW t \in Threads, TakeGil(t) PROVE Inv'
    BY <1>2 DEF TakeGil
<1>3. ASSUME NEW t \in Threads, SwitchGil(t) PROVE Inv'
    BY <1>3 DEF SwitchGil
<1>4. ASSUME NEW t \in Threads, NEW o \in Ops, Call(t, o) PROVE Inv'
    BY <1>4 DEF Call
<1>5. ASSUME NEW t \in Threads, Lock(t) PROVE Inv'
    <2>1. pc[t] = "block" /\ lock = Nobody /\ gil = t /\ UNCHANGED <<gil, op>>
        BY <1>5 DEF Lock
    \* Nobody owns the mutex, so nobody is in the guarded section.
    <2>2. \A u \in Threads : pc[u] \in {"python", "block"}
        BY <2>1
    <2>3. CASE KeepGuard(t)
        BY <2>1, <2>2, <2>3 DEF KeepGuard
    <2>4. CASE /\ pc' = [pc EXCEPT ![t] = "python"]
               /\ lock' = lock /\ file' \in {"open", "closed"}
               /\ result' \in [Threads -> {"none", "done", "error", "open", "closed",
                                           "I/O operation on closed file."}]
        BY <2>1, <2>2, <2>4
    <2>5. CASE Close(t) \/ Look(t) \/ RefuseClosed(t) \/ CaptureFd(t) \/ RefuseArgument(t)
        BY <2>4, <2>5 DEF Close, Look, RefuseClosed, CaptureFd, RefuseArgument, Return
    <2> QED
        BY <1>5, <2>3, <2>5 DEF Lock
<1>6. ASSUME NEW t \in Threads, AllowThreads(t) PROVE Inv'
    BY <1>6 DEF AllowThreads
<1>7. ASSUME NEW t \in Threads, Syscall(t) PROVE Inv'
    BY <1>7 DEF Syscall
<1>8. ASSUME NEW t \in Threads, Regil(t) PROVE Inv'
    BY <1>8 DEF Regil
<1>9. ASSUME NEW t \in Threads, DropGuard(t) PROVE Inv'
    BY <1>9 DEF DropGuard
<1> QED
    BY <1>1, <1>2, <1>3, <1>4, <1>5, <1>6, <1>7, <1>8, <1>9 DEF Next, Step

\* Types, locks and the open file are inductive together.
THEOREM Invariance == Spec => []Inv
BY InitInv, StepInv, PTL DEF Spec

\* The state is well formed, for any number of threads.
THEOREM TypeCorrect == Spec => []TypeOK
<1>1. Inv => TypeOK
    BY DEF Inv
<1> QED
    BY <1>1, Invariance, PTL

\* The guard is held exactly over the guarded section, the GIL exactly outside of
\* allow_threads, for any number of threads.
THEOREM LocksAreHeld == Spec => []LocksHeld
<1>1. Inv => LocksHeld
    BY DEF Inv
<1> QED
    BY <1>1, Invariance, PTL

\* No system call runs on a descriptor that close() has given back.
THEOREM NoUseAfterClose == Spec => []NoCallOnClosedFile
<1>1. Inv => NoCallOnClosedFile
    BY DEF Inv
<1> QED
    BY <1>1, Invariance, PTL

\* The system calls of the synchronous operations are mutually exclusive.
THEOREM MutualExclusion == Spec => []SyscallsExclude
<1>1. Inv => SyscallsExclude
    BY DEF Inv, LocksHeld, SyscallsExclude
<1> QED
    BY <1>1, Invariance, PTL

=============================================================================

----------------------------- MODULE UringEngine -----------------------------
(***************************************************************************)
(* The io_uring engine, src/engines/linux.rs.  Every OS thread that calls  *)
(* it owns one ring, kept in THREAD_RING together with the map of          *)
(* completions already drained from it; ids come from one process-wide     *)
(* counter.  A call pushes its submission entries (SQEs), enters the       *)
(* kernel, and polls until the completion (CQE) of each of its ids is in   *)
(* the map, in the order of the ids.                                       *)
(*                                                                         *)
(* The kernel side of the ring is external: it takes entries when the      *)
(* thread enters it, completes them in any order and at any speed, and     *)
(* keeps what does not fit the completion queue in a backlog.              *)
(*                                                                         *)
(* No entry carries IOSQE_IO_LINK, so the order inside a queue has no      *)
(* effect and the queues are sets.                                         *)
(***************************************************************************)
EXTENDS Integers, Sequences, FiniteSets

CONSTANTS
    Threads,      \* OS threads that call the engine (tokio workers)
    Setting,      \* PY_NATIVE_IO_RING_SIZE as a number, 0 if unset or unparsable
    DefaultSize,  \* the ring size without a usable setting (1024 in the code)
    MaxBatch,     \* bound: operations of one batch call
    MaxIds,       \* bound: ids handed out in a behaviour
    Kinds,        \* the kinds of operation the callers use
    Faults        \* which of "setup", "intr", "short" the kernel may show

IsPowerOfTwo(k) == \E e \in 0 .. 30 : k = 2^e

ASSUME SizeAssumption ==
    /\ Setting \in Nat
    /\ DefaultSize \in Nat \ {0}
ASSUME BoundAssumption ==
    /\ MaxBatch \in Nat \ {0}
    /\ MaxIds \in Nat
ASSUME KindAssumption  == Kinds \subseteq {"read", "write", "splice"}
ASSUME FaultAssumption == Faults \subseteq {"setup", "intr", "short"}

get_configured_ring_size ==
    IF Setting > 0 /\ IsPowerOfTwo(Setting) THEN Setting ELSE DefaultSize

RingSize == get_configured_ring_size
CqSize   == 2 * RingSize        \* the kernel's default completion queue

VARIABLES
    next_user_data,  \* NEXT_USER_DATA
    ring_up,         \* THREAD_RING holds Some(RingState)
    sq,              \* entries pushed, not yet taken by the kernel
    inflight,        \* entries the kernel has taken and not completed
    cq, backlog,     \* completions posted; completions waiting for room
    completed,       \* RingState.completed
    pc,              \* where the thread is in its call
    entered,         \* "out", or inside io_uring_enter having taken "none"/"some"
    call,            \* the call: number, start_id, operations, kind, batch or not
    pushed,          \* operations of the call pushed so far
    got,             \* results the call has taken, in order
    failed           \* history: numbers of the calls that returned Err

callVars   == <<next_user_data, call>>
kernelVars == <<inflight, cq, backlog>>
vars == <<next_user_data, ring_up, sq, inflight, cq, backlog, completed,
          pc, entered, call, pushed, got, failed>>

NoCall == [serial |-> 0, start |-> 0, n |-> 0, kind |-> "read", batch |-> FALSE]

Init ==
    /\ next_user_data = 1
    /\ ring_up   = [t \in Threads |-> FALSE]
    /\ sq        = [t \in Threads |-> {}]
    /\ inflight  = [t \in Threads |-> {}]
    /\ cq        = [t \in Threads |-> {}]
    /\ backlog   = [t \in Threads |-> {}]
    /\ completed = [t \in Threads |-> {}]
    /\ pc        = [t \in Threads |-> "idle"]
    /\ entered   = [t \in Threads |-> "out"]
    /\ call      = [t \in Threads |-> NoCall]
    /\ pushed    = [t \in Threads |-> 0]
    /\ got       = [t \in Threads |-> <<>>]
    /\ failed    = [t \in Threads |-> {}]

----------------------------------------------------------------------------
(* Starting a call: fetch_add reserves the ids of all its operations. *)

\* Mutant: a batch reserves one id instead of one per operation.
BeginOneId(t, kind, n, batch) ==
    /\ pc[t] = "idle"
    /\ kind \in Kinds
    /\ next_user_data + n - 1 <= MaxIds
    /\ next_user_data' = next_user_data + 1
    /\ call' = [call EXCEPT ![t] = [serial |-> @.serial + 1, start |-> next_user_data,
                                    n |-> n, kind |-> kind, batch |-> batch]]
    /\ pushed' = [pushed EXCEPT ![t] = 0]
    /\ got' = [got EXCEPT ![t] = <<>>]
    /\ pc' = [pc EXCEPT ![t] = "push"]
    /\ UNCHANGED <<ring_up, sq, kernelVars, completed, entered, failed>>

Begin(t, kind, n, batch) ==
    /\ pc[t] = "idle"
    /\ kind \in Kinds
    /\ next_user_data + n - 1 <= MaxIds
    /\ next_user_data' = next_user_data + n
    /\ call' = [call EXCEPT ![t] = [serial |-> @.serial + 1, start |-> next_user_data,
                                    n |-> n, kind |-> kind, batch |-> batch]]
    /\ pushed' = [pushed EXCEPT ![t] = 0]
    /\ got' = [got EXCEPT ![t] = <<>>]
    /\ pc' = [pc EXCEPT ![t] = "push"]
    /\ UNCHANGED <<ring_up, sq, kernelVars, completed, entered, failed>>

submit_uring_read(t)   == Begin(t, "read", 1, FALSE)
submit_uring_write(t)  == Begin(t, "write", 1, FALSE)
submit_uring_splice(t) == Begin(t, "splice", 1, FALSE)

\* An empty batch returns before it takes an id.
submit_uring_read_batch(t)  == \E n \in 1 .. MaxBatch : Begin(t, "read", n, TRUE)
submit_uring_write_batch(t) == \E n \in 1 .. MaxBatch : Begin(t, "write", n, TRUE)

\* Mutant: unwrap() in the place of `?`, which panics and poisons the thread's mutex.
AbandonPanics(t) ==
    /\ pc' = [pc EXCEPT ![t] = "panicked"]
    /\ failed' = [failed EXCEPT ![t] = @ \cup {call[t].serial}]

\* `?` inside a call: it returns Err and leaves the ring as it is.
Abandon(t) ==
    /\ pc' = [pc EXCEPT ![t] = "idle"]
    /\ failed' = [failed EXCEPT ![t] = @ \cup {call[t].serial}]

----------------------------------------------------------------------------
(* with_thread_ring_state: the first use on a thread creates its ring. *)

OpenRing(t) ==
    /\ pc[t] = "push" /\ ~ring_up[t]
    /\ ring_up' = [ring_up EXCEPT ![t] = TRUE]
    /\ UNCHANGED <<callVars, sq, kernelVars, completed, pc, entered, pushed, got, failed>>

OpenRingFails(t) ==
    /\ "setup" \in Faults
    /\ pc[t] = "push" /\ ~ring_up[t]
    /\ Abandon(t)
    /\ UNCHANGED <<callVars, ring_up, sq, kernelVars, completed, entered, pushed, got>>

----------------------------------------------------------------------------
(* Pushing the entries of the call. *)

Sqe(t, i) == [ud   |-> call[t].start + i - 1, call |-> call[t].serial,
              idx  |-> i, kind |-> call[t].kind]

SqFull(t) == Cardinality(sq[t]) = RingSize

AfterPush(t) == IF pushed[t] + 1 < call[t].n THEN "push"
                ELSE IF call[t].batch THEN "flush" ELSE "poll"

\* Mutant: the second push follows the first without submit_and_wait between them.
PushTwice(t) ==
    /\ pc[t] \in {"push", "repush"} /\ ring_up[t]
    /\ IF ~SqFull(t)
       THEN /\ sq' = [sq EXCEPT ![t] = @ \cup {Sqe(t, pushed[t] + 1)}]
            /\ pushed' = [pushed EXCEPT ![t] = @ + 1]
            /\ pc' = [pc EXCEPT ![t] = AfterPush(t)]
            /\ UNCHANGED failed
       ELSE /\ IF pc[t] = "push"
               THEN pc' = [pc EXCEPT ![t] = "repush"] /\ UNCHANGED failed
               ELSE Abandon(t)
            /\ UNCHANGED <<sq, pushed>>
    /\ UNCHANGED <<callVars, ring_up, kernelVars, completed, entered, got>>

Push(t) ==
    /\ pc[t] \in {"push", "repush"} /\ ring_up[t]
    /\ IF ~SqFull(t)
       THEN /\ sq' = [sq EXCEPT ![t] = @ \cup {Sqe(t, pushed[t] + 1)}]
            /\ pushed' = [pushed EXCEPT ![t] = @ + 1]
            /\ pc' = [pc EXCEPT ![t] = AfterPush(t)]
            /\ UNCHANGED failed
       ELSE /\ IF pc[t] = "push"
               THEN pc' = [pc EXCEPT ![t] = "full"] /\ UNCHANGED failed
               ELSE Abandon(t)                     \* "SQ queue full"
            /\ UNCHANGED <<sq, pushed>>
    /\ UNCHANGED <<callVars, ring_up, kernelVars, completed, entered, got>>

----------------------------------------------------------------------------
(* submit_and_wait: entering the kernel, which takes the submission queue,  *)
(* then waits for Want(t) completions to be in the completion queue.        *)

Waits == {"full", "flush", "wait"}

\* Mutant: a batch waits for its first completion only.
WantOne(t) == 1

\* The kernel clamps the wait to the size of the completion queue.
Want(t) == IF pc[t] # "flush" THEN 1
           ELSE IF call[t].n < CqSize THEN call[t].n ELSE CqSize

Return(t) ==     \* submit_and_wait returned Ok
    /\ pc' = [pc EXCEPT ![t] = IF pc[t] = "full" THEN "repush" ELSE "poll"]
    /\ UNCHANGED failed

EnterSubmit(t) ==
    /\ pc[t] \in Waits /\ entered[t] = "out"
    /\ inflight' = [inflight EXCEPT ![t] = @ \cup sq[t]]
    /\ entered' = [entered EXCEPT ![t] = IF sq[t] = {} THEN "none" ELSE "some"]
    /\ sq' = [sq EXCEPT ![t] = {}]
    /\ UNCHANGED <<callVars, ring_up, cq, backlog, completed, pc, pushed, got, failed>>

\* The kernel took only part of the queue: it returns at once, without waiting,
\* and with an error (EAGAIN, EBUSY) when it took nothing.
EnterShort(t) ==
    /\ "short" \in Faults
    /\ pc[t] \in Waits /\ entered[t] = "out"
    /\ \E taken \in SUBSET sq[t] \ {sq[t]} :
          /\ inflight' = [inflight EXCEPT ![t] = @ \cup taken]
          /\ sq' = [sq EXCEPT ![t] = @ \ taken]
          /\ IF taken = {} THEN Abandon(t) ELSE Return(t)
    /\ UNCHANGED <<callVars, ring_up, cq, backlog, completed, entered, pushed, got>>

EnterWake(t) ==
    /\ entered[t] # "out" /\ Cardinality(cq[t]) >= Want(t)
    /\ entered' = [entered EXCEPT ![t] = "out"]
    /\ Return(t)
    /\ UNCHANGED <<callVars, ring_up, sq, kernelVars, completed, pushed, got>>

\* A signal ends the wait.  It is reported as EINTR only when this call submitted
\* nothing and no completion is posted.
EnterInterrupted(t) ==
    /\ "intr" \in Faults
    /\ entered[t] # "out" /\ Cardinality(cq[t]) < Want(t)
    /\ entered' = [entered EXCEPT ![t] = "out"]
    /\ IF entered[t] = "some" \/ cq[t] # {} THEN Return(t) ELSE Abandon(t)
    /\ UNCHANGED <<callVars, ring_up, sq, kernelVars, completed, pushed, got>>

----------------------------------------------------------------------------
(* poll_completion_for_id, for the next id the call has no result of. *)

MyId(t) == call[t].start + Len(got[t])

\* Mutant: the drain drops the completions of other ids.
DrainedOwn(t) == completed[t] \cup {c \in cq[t] : c.ud = MyId(t)}

\* HashMap::insert of every completion of the queue.
Drained(t) == {e \in completed[t] : \A c \in cq[t] : c.ud # e.ud} \cup cq[t]

\* Mutant: the map is read with get instead of remove.
TakeCopy(t, e, pool) ==
    /\ completed' = [completed EXCEPT ![t] = pool]
    /\ got' = [got EXCEPT ![t] = Append(@, e)]
    /\ IF e.res = "fail"
       THEN Abandon(t)
       ELSE /\ pc' = [pc EXCEPT ![t] = IF Len(got[t]) + 1 = call[t].n THEN "idle" ELSE "poll"]
            /\ UNCHANGED failed

\* Mutant: a batch goes on after a failed operation.
TakeAnyway(t, e, pool) ==
    /\ completed' = [completed EXCEPT ![t] = pool \ {e}]
    /\ got' = [got EXCEPT ![t] = Append(@, e)]
    /\ pc' = [pc EXCEPT ![t] = IF Len(got[t]) + 1 = call[t].n THEN "idle" ELSE "poll"]
    /\ UNCHANGED failed

Take(t, e, pool) ==
    /\ completed' = [completed EXCEPT ![t] = pool \ {e}]
    /\ got' = [got EXCEPT ![t] = Append(@, e)]
    /\ IF e.res = "fail"
       THEN Abandon(t)
       ELSE /\ pc' = [pc EXCEPT ![t] = IF Len(got[t]) + 1 = call[t].n THEN "idle" ELSE "poll"]
            /\ UNCHANGED failed

PollHit(t) ==
    /\ pc[t] = "poll"
    /\ \E e \in completed[t] : e.ud = MyId(t) /\ Take(t, e, completed[t])
    /\ UNCHANGED <<callVars, ring_up, sq, kernelVars, entered, pushed>>

PollDrain(t) ==
    /\ \/ pc[t] = "poll" /\ \A e \in completed[t] : e.ud # MyId(t)
       \/ pc[t] = "repoll"
    /\ cq' = [cq EXCEPT ![t] = {}]
    /\ \/ \E e \in Drained(t) : e.ud = MyId(t) /\ Take(t, e, Drained(t))
       \/ /\ \A e \in Drained(t) : e.ud # MyId(t)
          /\ completed' = [completed EXCEPT ![t] = Drained(t)]
          /\ pc' = [pc EXCEPT ![t] = IF pc[t] = "poll" THEN "submit" ELSE "wait"]
          /\ UNCHANGED <<got, failed>>
    /\ UNCHANGED <<callVars, ring_up, sq, inflight, backlog, entered, pushed>>

\* ring.submit(): the kernel takes the queue, or part of it, and nobody waits.
SubmitOnly(t) ==
    \E taken \in SUBSET sq[t] :
        /\ taken = sq[t] \/ "short" \in Faults
        /\ inflight' = [inflight EXCEPT ![t] = @ \cup taken]
        /\ sq' = [sq EXCEPT ![t] = @ \ taken]

\* What it reports is ignored: `let _ = ring.submit()`.
Submit(t) ==
    /\ pc[t] = "submit"
    /\ SubmitOnly(t)
    /\ pc' = [pc EXCEPT ![t] = "repoll"]
    /\ UNCHANGED <<callVars, ring_up, cq, backlog, completed, entered, pushed, got, failed>>

\* Exported by the engine; no other source file calls it.
flush_thread_ring(t) ==
    /\ pc[t] = "idle"
    /\ ring_up' = [ring_up EXCEPT ![t] = TRUE]
    /\ SubmitOnly(t)
    /\ UNCHANGED <<callVars, cq, backlog, completed, pc, entered, pushed, got, failed>>

----------------------------------------------------------------------------
(* The kernel. *)

Cqe(e, res) == [ud |-> e.ud, call |-> e.call, idx |-> e.idx, kind |-> e.kind, res |-> res]

Complete(t) ==
    /\ \E e \in inflight[t], res \in {"ok", "fail"} :
          /\ inflight' = [inflight EXCEPT ![t] = @ \ {e}]
          /\ IF Cardinality(cq[t]) < CqSize /\ backlog[t] = {}
             THEN cq' = [cq EXCEPT ![t] = @ \cup {Cqe(e, res)}] /\ UNCHANGED backlog
             ELSE backlog' = [backlog EXCEPT ![t] = @ \cup {Cqe(e, res)}] /\ UNCHANGED cq
    /\ UNCHANGED <<callVars, ring_up, sq, completed, pc, entered, pushed, got, failed>>

\* The backlog moves to the completion queue while the thread is in the kernel.
FlushBacklog(t) ==
    /\ entered[t] # "out" \/ pc[t] = "submit"
    /\ Cardinality(cq[t]) < CqSize
    /\ \E e \in backlog[t] :
          /\ backlog' = [backlog EXCEPT ![t] = @ \ {e}]
          /\ cq' = [cq EXCEPT ![t] = @ \cup {e}]
    /\ UNCHANGED <<callVars, ring_up, sq, inflight, completed, pc, entered, pushed, got, failed>>

----------------------------------------------------------------------------
Start(t) ==
    \/ submit_uring_read(t) \/ submit_uring_write(t) \/ submit_uring_splice(t)
    \/ submit_uring_read_batch(t) \/ submit_uring_write_batch(t)

Run(t) ==        \* the thread's own steps inside a call
    \/ OpenRing(t) \/ Push(t) \/ EnterSubmit(t) \/ EnterWake(t)
    \/ PollHit(t) \/ PollDrain(t) \/ Submit(t)

Fault(t) == OpenRingFails(t) \/ EnterShort(t) \/ EnterInterrupted(t)

Next == \E t \in Threads :
    \/ Start(t) \/ Run(t) \/ Fault(t) \/ flush_thread_ring(t)
    \/ Complete(t) \/ FlushBacklog(t)

Spec == Init /\ [][Next]_vars

\* A thread inside a call keeps running, and every operation the kernel took ends:
\* the engine sets no timeout, so a read of a pipe nobody writes is outside this.
Fairness == \A t \in Threads :
    WF_vars(Run(t)) /\ WF_vars(Complete(t)) /\ WF_vars(FlushBacklog(t))

FairSpec == Spec /\ Fairness

----------------------------------------------------------------------------
(* Properties. *)

SqeType == [ud : Nat, call : Nat, idx : Nat, kind : {"read", "write", "splice"}]
CqeType == [ud : Nat, call : Nat, idx : Nat, kind : {"read", "write", "splice"},
            res : {"ok", "fail"}]

\* The state is well formed: what each field of the engine and of the ring may hold.
TypeOK ==
    /\ next_user_data \in Nat \ {0}
    /\ ring_up \in [Threads -> BOOLEAN]
    /\ sq \in [Threads -> SUBSET SqeType]
    /\ inflight \in [Threads -> SUBSET SqeType]
    /\ cq \in [Threads -> SUBSET CqeType]
    /\ backlog \in [Threads -> SUBSET CqeType]
    /\ completed \in [Threads -> SUBSET CqeType]
    /\ pc \in [Threads -> {"idle", "push", "repush", "full", "flush",
                           "poll", "submit", "repoll", "wait"}]
    /\ entered \in [Threads -> {"out", "none", "some"}]
    /\ call \in [Threads -> [serial : Nat, start : Nat, n : Nat,
                             kind : {"read", "write", "splice"}, batch : BOOLEAN]]
    /\ pushed \in [Threads -> Nat]
    /\ got \in [Threads -> Seq(CqeType)]
    /\ failed \in [Threads -> SUBSET Nat]

\* Everything the thread's ring still holds.
Entries(t) == sq[t] \cup inflight[t] \cup cq[t] \cup backlog[t] \cup completed[t]

\* A call takes the results of its own operations, the i-th result being that of its
\* i-th operation, whatever earlier calls of the thread left in the ring or in the map
\* (poll_completion_for_id matches on the id alone).
ResultsOwn(t) == \A i \in 1 .. Len(got[t]) :
    got[t][i].call = call[t].serial /\ got[t][i].idx = i

OwnResults == \A t \in Threads : ResultsOwn(t)

\* Why OwnResults holds: the entries of the current call carry the ids that fetch_add
\* reserved for it, those of earlier calls carry smaller ones, and the counter is past
\* both.
EntryInOrder(t, e) ==
    /\ e.ud < next_user_data
    /\ e.call <= call[t].serial
    /\ e.call < call[t].serial => e.ud < call[t].start
    /\ e.call = call[t].serial =>
          /\ e.idx \in 1 .. pushed[t]
          /\ e.ud = call[t].start + e.idx - 1

CallInOrder(t) ==
    /\ call[t].start + call[t].n <= next_user_data
    /\ pushed[t] <= call[t].n
    /\ pc[t] \in {"push", "full", "repush"} => pushed[t] < call[t].n

IdsInOrder == \A t \in Threads :
    CallInOrder(t) /\ \A e \in Entries(t) : EntryInOrder(t, e)

\* Only a call that returned Err leaves anything behind: while no call of the thread
\* has failed, the ring and the map are empty between two calls, and every entry in
\* them belongs to the call under way.
Quiet(t) == \A e \in Entries(t) :
    e.call \in failed[t] \/ (e.call = call[t].serial /\ pc[t] # "idle")

QuietOnOk == \A t \in Threads : Quiet(t)

\* Every operation is in one place: pushed, in flight, completed or taken, and never
\* twice.  Two entries with one id would overwrite each other in the map.
Sqes(t) == sq[t] \cup inflight[t]
Cqes(t) == cq[t] \cup backlog[t] \cup completed[t]

Distinct(S)    == \A e, f \in S : e.ud = f.ud => e = f
Disjoint(S, T) == \A e \in S, f \in T : e.ud # f.ud

OneCopyOf(t) ==
    /\ Distinct(Sqes(t)) /\ Distinct(Cqes(t)) /\ Disjoint(Sqes(t), Cqes(t))
    /\ sq[t] \cap inflight[t] = {}
    /\ cq[t] \cap backlog[t] = {}
    /\ (cq[t] \cup backlog[t]) \cap completed[t] = {}

Untaken(t) == \A e \in Entries(t) : e.call = call[t].serial => e.idx > Len(got[t])

OneCopy == \A t \in Threads : OneCopyOf(t) /\ Untaken(t)

\* A thread that waits in the kernel has enough operations outstanding to be woken:
\* submit_and_wait never asks for more completions than there are operations left.
NoStuckWait == \A t \in Threads : entered[t] # "out" =>
    Cardinality(cq[t]) + Cardinality(backlog[t]) + Cardinality(inflight[t]) >= Want(t)

\* After the wait for a full submission queue there is room in it: the second push,
\* whose failure is the error "SQ queue full", always succeeds.
RepushHasRoom == \A t \in Threads : pc[t] = "repush" => ~SqFull(t)

\* The kernel holds pointers only into buffers that are alive: an outstanding read or
\* write belongs to the call under way, whose buffers are freed when it returns.  It
\* takes a kernel without interruptions, and batches that fit the completion queue: in
\* a larger one the wait is clamped, and a failed operation ends the call before the
\* last ones have completed.
BuffersOutliveOps ==
    Faults \subseteq {"setup"} /\ MaxBatch <= CqSize =>
        \A t \in Threads : \A e \in sq[t] \cup inflight[t] :
            e.kind # "splice" => e.call = call[t].serial /\ pc[t] # "idle"

\* Every call returns.
CallReturns == \A t \in Threads : pc[t] # "idle" ~> pc[t] = "idle"

----------------------------------------------------------------------------
(* The service the engine implements. *)

\* What the kernel has reported of the operations of the current call.
Reported(t) ==
    {e \in cq[t] \cup backlog[t] \cup completed[t] : e.call = call[t].serial}
    \cup {got[t][i] : i \in 1 .. Len(got[t])}

Service == INSTANCE RingService WITH
    busy     <- [t \in Threads |-> pc[t] # "idle"],
    count    <- [t \in Threads |-> call[t].n],
    reported <- [t \in Threads |-> {<<e.idx, e.res>> : e \in Reported(t)}],
    answer   <- [t \in Threads |-> [i \in 1 .. Len(got[t]) |-> got[t][i].res]]

\* The engine implements the service: a call's answer is the sequence of the results
\* the kernel reported for its operations, each reported once, an Ok answer is complete,
\* and without a fault only a failed operation makes a call fail.
ImplementsService == Service!Spec

=============================================================================

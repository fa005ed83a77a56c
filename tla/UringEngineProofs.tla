-------------------------- MODULE UringEngineProofs --------------------------
(***************************************************************************)
(* Theorems about the io_uring engine, for every number of threads, ring   *)
(* size, batch size and set of faults.                                     *)
(***************************************************************************)
EXTENDS UringEngine, TLAPS

LEMMA RingSizeType == RingSize \in Nat \ {0} /\ CqSize \in Nat
BY SizeAssumption DEF RingSize, CqSize, get_configured_ring_size

LEMMA StartBegins ==
    ASSUME NEW t \in Threads, Start(t)
    PROVE  \E kind \in Kinds, n \in Nat \ {0}, batch \in BOOLEAN : Begin(t, kind, n, batch)
<1>1. \A kind, n, batch : Begin(t, kind, n, batch) => kind \in Kinds
    BY DEF Begin
<1>2. \A n \in 1 .. MaxBatch : n \in Nat \ {0}
    BY BoundAssumption
<1>3. 1 \in Nat \ {0}
    OBVIOUS
<1> QED
    BY <1>1, <1>2, <1>3
       DEF Start, submit_uring_read, submit_uring_write, submit_uring_splice,
           submit_uring_read_batch, submit_uring_write_batch

PcType   == pc \in [Threads -> {"idle", "push", "repush", "full", "flush",
                                "poll", "submit", "repoll", "wait"}]
CallType == call \in [Threads -> [serial : Nat, start : Nat, n : Nat,
                                  kind : {"read", "write", "splice"}, batch : BOOLEAN]]

LEMMA AbandonType ==
    ASSUME TypeOK, NEW t \in Threads, Abandon(t)
    PROVE  PcType' /\ failed' \in [Threads -> SUBSET Nat]
<1>1. call[t].serial \in Nat
    BY DEF TypeOK
<1> QED
    BY <1>1 DEF TypeOK, Abandon, PcType

LEMMA ReturnType ==
    ASSUME TypeOK, NEW t \in Threads, Return(t)
    PROVE  PcType' /\ failed' \in [Threads -> SUBSET Nat]
BY DEF TypeOK, Return, PcType

LEMMA TakeType ==
    ASSUME TypeOK, NEW t \in Threads, NEW pool \in SUBSET CqeType, NEW e \in pool,
           Take(t, e, pool)
    PROVE  /\ PcType' /\ failed' \in [Threads -> SUBSET Nat]
           /\ got' \in [Threads -> Seq(CqeType)]
           /\ completed' \in [Threads -> SUBSET CqeType]
<1>1. Append(got[t], e) \in Seq(CqeType)
    BY DEF TypeOK
<1>2. got' \in [Threads -> Seq(CqeType)] /\ completed' \in [Threads -> SUBSET CqeType]
    BY <1>1 DEF TypeOK, Take
<1>3. PcType' /\ failed' \in [Threads -> SUBSET Nat]
    BY AbandonType DEF TypeOK, Take, PcType
<1> QED
    BY <1>2, <1>3

\* Every action keeps the state well formed.
LEMMA TypeStep == TypeOK /\ [Next]_vars => TypeOK'
<1> SUFFICES ASSUME TypeOK, [Next]_vars PROVE TypeOK'
    OBVIOUS
<1> USE DEF TypeOK
<1>1. CASE UNCHANGED vars
    BY <1>1 DEF vars
<1>2. ASSUME NEW t \in Threads,
             NEW kind \in Kinds, NEW n \in Nat, NEW batch \in BOOLEAN,
             Begin(t, kind, n, batch)
      PROVE  TypeOK'
    <2>1. next_user_data' \in Nat \ {0}
        BY <1>2 DEF Begin
    <2>2. CallType'
        BY <1>2, KindAssumption DEF Begin, CallType
    <2>3. got' \in [Threads -> Seq(CqeType)]
        BY <1>2 DEF Begin
    <2>4. pushed' \in [Threads -> Nat] /\ PcType'
        BY <1>2 DEF Begin, PcType
    <2>5. UNCHANGED <<ring_up, sq, inflight, cq, backlog, completed, entered, failed>>
        BY <1>2 DEF Begin, kernelVars
    <2> QED
        BY <2>1, <2>2, <2>3, <2>4, <2>5 DEF CallType, PcType
<1>3. ASSUME NEW t \in Threads, Start(t) PROVE TypeOK'
    BY <1>2, <1>3, StartBegins
<1>4. ASSUME NEW t \in Threads, OpenRing(t) PROVE TypeOK'
    BY <1>4 DEF OpenRing, callVars, kernelVars
<1>5. ASSUME NEW t \in Threads, OpenRingFails(t) PROVE TypeOK'
    BY <1>5, AbandonType DEF OpenRingFails, PcType, callVars, kernelVars
<1>6. ASSUME NEW t \in Threads, Push(t) PROVE TypeOK'
    <2>1. Sqe(t, pushed[t] + 1) \in SqeType
        BY <1>6 DEF Sqe, SqeType
    <2>2. CASE ~SqFull(t)
        <3>0. /\ sq' = [sq EXCEPT ![t] = @ \cup {Sqe(t, pushed[t] + 1)}]
              /\ pushed' = [pushed EXCEPT ![t] = @ + 1]
              /\ pc' = [pc EXCEPT ![t] = AfterPush(t)]
            BY <1>6, <2>2 DEF Push
        <3>1. PcType' /\ sq' \in [Threads -> SUBSET SqeType] /\ pushed' \in [Threads -> Nat]
            BY <2>1, <3>0 DEF AfterPush, PcType
        <3>2. UNCHANGED <<callVars, ring_up, kernelVars, completed, entered, got, failed>>
            BY <1>6, <2>2 DEF Push
        <3> QED
            BY <3>1, <3>2 DEF PcType, callVars, kernelVars
    <2>3. CASE SqFull(t)
        <3>1. PcType' /\ failed' \in [Threads -> SUBSET Nat]
            BY <1>6, <2>3, AbandonType DEF Push, PcType
        <3>2. UNCHANGED <<callVars, ring_up, kernelVars, completed, entered, got, sq, pushed>>
            BY <1>6, <2>3 DEF Push
        <3> QED
            BY <3>1, <3>2 DEF PcType, callVars, kernelVars
    <2> QED
        BY <2>2, <2>3
<1>7. ASSUME NEW t \in Threads, EnterSubmit(t) PROVE TypeOK'
    BY <1>7 DEF EnterSubmit, callVars
<1>8. ASSUME NEW t \in Threads, EnterShort(t) PROVE TypeOK'
    BY <1>8, AbandonType, ReturnType DEF EnterShort, PcType, callVars
<1>9. ASSUME NEW t \in Threads, EnterWake(t) PROVE TypeOK'
    BY <1>9, ReturnType DEF EnterWake, PcType, callVars, kernelVars
<1>10. ASSUME NEW t \in Threads, EnterInterrupted(t) PROVE TypeOK'
    BY <1>10, AbandonType, ReturnType DEF EnterInterrupted, PcType, callVars, kernelVars
<1>11. ASSUME NEW t \in Threads, PollHit(t) PROVE TypeOK'
    <2>1. PICK e \in completed[t] : Take(t, e, completed[t])
        BY <1>11 DEF PollHit
    <2>2. UNCHANGED <<callVars, ring_up, sq, kernelVars, entered, pushed>>
        BY <1>11 DEF PollHit
    <2>3. completed[t] \in SUBSET CqeType
        OBVIOUS
    <2>4. /\ PcType' /\ failed' \in [Threads -> SUBSET Nat]
          /\ got' \in [Threads -> Seq(CqeType)]
          /\ completed' \in [Threads -> SUBSET CqeType]
        BY <2>1, <2>3, TakeType
    <2> QED
        BY <2>2, <2>4 DEF PcType, callVars, kernelVars
<1>12. ASSUME NEW t \in Threads, PollDrain(t) PROVE TypeOK'
    <2>1. Drained(t) \subseteq CqeType
        BY DEF Drained
    <2>2. /\ UNCHANGED <<callVars, ring_up, sq, inflight, backlog, entered, pushed>>
          /\ cq' \in [Threads -> SUBSET CqeType]
        BY <1>12 DEF PollDrain
    <2>3. /\ PcType' /\ failed' \in [Threads -> SUBSET Nat]
          /\ got' \in [Threads -> Seq(CqeType)]
          /\ completed' \in [Threads -> SUBSET CqeType]
        <3>1. CASE \E e \in Drained(t) : Take(t, e, Drained(t))
            BY <2>1, <3>1, TakeType
        <3>2. CASE ~ \E e \in Drained(t) : Take(t, e, Drained(t))
            <4>1. /\ completed' = [completed EXCEPT ![t] = Drained(t)]
                  /\ pc' = [pc EXCEPT ![t] = IF pc[t] = "poll" THEN "submit" ELSE "wait"]
                  /\ got' = got /\ failed' = failed
                BY <1>12, <3>2 DEF PollDrain
            <4> QED
                BY <2>1, <4>1 DEF PcType
        <3> QED
            BY <3>1, <3>2
    <2> QED
        BY <2>2, <2>3 DEF PcType, callVars
<1>13. ASSUME NEW t \in Threads, Submit(t) PROVE TypeOK'
    BY <1>13 DEF Submit, SubmitOnly, callVars
<1>14. ASSUME NEW t \in Threads, flush_thread_ring(t) PROVE TypeOK'
    BY <1>14 DEF flush_thread_ring, SubmitOnly, callVars
<1>15. ASSUME NEW t \in Threads, Complete(t) PROVE TypeOK'
    <2>1. \A e \in SqeType, r \in {"ok", "fail"} : Cqe(e, r) \in CqeType
        BY DEF Cqe, SqeType, CqeType
    <2>2. PICK e \in inflight[t], r \in {"ok", "fail"} :
              /\ inflight' = [inflight EXCEPT ![t] = @ \ {e}]
              /\ \/ cq' = [cq EXCEPT ![t] = @ \cup {Cqe(e, r)}] /\ backlog' = backlog
                 \/ backlog' = [backlog EXCEPT ![t] = @ \cup {Cqe(e, r)}] /\ cq' = cq
        BY <1>15 DEF Complete
    <2>3. PICK c \in CqeType : c = Cqe(e, r)
        BY <2>1
    <2>4. UNCHANGED <<callVars, ring_up, sq, completed, pc, entered, pushed, got, failed>>
        BY <1>15 DEF Complete
    <2>5. inflight' \in [Threads -> SUBSET SqeType]
        BY <2>2
    <2>6. cq' \in [Threads -> SUBSET CqeType] /\ backlog' \in [Threads -> SUBSET CqeType]
        <3>1. cq[t] \cup {Cqe(e, r)} \in SUBSET CqeType
            BY <2>3
        <3>2. backlog[t] \cup {Cqe(e, r)} \in SUBSET CqeType
            BY <2>3
        <3>3. CASE cq' = [cq EXCEPT ![t] = @ \cup {Cqe(e, r)}] /\ backlog' = backlog
            BY <3>1, <3>3
        <3>4. CASE backlog' = [backlog EXCEPT ![t] = @ \cup {Cqe(e, r)}] /\ cq' = cq
            BY <3>2, <3>4
        <3> QED
            BY <2>2, <3>3, <3>4
    <2> QED
        BY <2>4, <2>5, <2>6 DEF callVars
<1>16. ASSUME NEW t \in Threads, FlushBacklog(t) PROVE TypeOK'
    BY <1>16 DEF FlushBacklog, callVars
<1> QED
    BY <1>1, <1>3, <1>4, <1>5, <1>6, <1>7, <1>8, <1>9, <1>10, <1>11, <1>12, <1>13,
       <1>14, <1>15, <1>16 DEF Next, Run, Fault

\* The engine's state is well formed in every behaviour.
THEOREM TypeCorrect == Spec => []TypeOK
<1>1. Init => TypeOK
    BY DEF Init, TypeOK, SqeType, CqeType, NoCall
<1> QED
    BY <1>1, TypeStep, PTL DEF Spec

----------------------------------------------------------------------------
(***************************************************************************)
(* A ring is used by one thread: the steps of a thread and of the kernel   *)
(* on its ring change nothing of another thread's.                         *)
(***************************************************************************)
StepOf(t) == \/ Start(t) \/ Run(t) \/ Fault(t) \/ flush_thread_ring(t)
             \/ Complete(t) \/ FlushBacklog(t)

Untouched(u) ==
    /\ sq'[u] = sq[u] /\ inflight'[u] = inflight[u] /\ cq'[u] = cq[u]
    /\ backlog'[u] = backlog[u] /\ completed'[u] = completed[u]
    /\ pc'[u] = pc[u] /\ entered'[u] = entered[u] /\ call'[u] = call[u]
    /\ pushed'[u] = pushed[u] /\ got'[u] = got[u] /\ failed'[u] = failed[u]

LEMMA StepIsLocal ==
    ASSUME TypeOK, NEW t \in Threads, StepOf(t), NEW u \in Threads, u # t
    PROVE  Untouched(u) /\ next_user_data <= next_user_data'
<1> USE DEF TypeOK, Untouched, kernelVars, callVars
<1>1. CASE Start(t)
    BY <1>1, StartBegins DEF Begin
<1>2. CASE OpenRing(t)
    BY <1>2 DEF OpenRing
<1>3. CASE OpenRingFails(t)
    BY <1>3 DEF OpenRingFails, Abandon
<1>4. CASE Push(t)
    <2>1. CASE SqFull(t)
        BY <1>4, <2>1 DEF Push, Abandon
    <2>2. CASE ~SqFull(t)
        BY <1>4, <2>2 DEF Push
    <2> QED
        BY <2>1, <2>2
<1>5. CASE EnterSubmit(t)
    BY <1>5 DEF EnterSubmit
<1>6. CASE EnterShort(t)
    BY <1>6 DEF EnterShort, Abandon, Return
<1>7. CASE EnterWake(t)
    BY <1>7 DEF EnterWake, Return
<1>8. CASE EnterInterrupted(t)
    BY <1>8 DEF EnterInterrupted, Abandon, Return
<1>9. CASE PollHit(t)
    BY <1>9 DEF PollHit, Take, Abandon
<1>10. CASE PollDrain(t)
    BY <1>10 DEF PollDrain, Take, Abandon
<1>11. CASE Submit(t)
    BY <1>11 DEF Submit, SubmitOnly
<1>12. CASE flush_thread_ring(t)
    BY <1>12 DEF flush_thread_ring, SubmitOnly
<1>13. CASE Complete(t)
    BY <1>13 DEF Complete
<1>14. CASE FlushBacklog(t)
    BY <1>14 DEF FlushBacklog
<1> QED
    BY <1>1, <1>2, <1>3, <1>4, <1>5, <1>6, <1>7, <1>8, <1>9, <1>10, <1>11, <1>12,
       <1>13, <1>14 DEF StepOf, Run, Fault

----------------------------------------------------------------------------
(***************************************************************************)
(* Results are taken by the call that asked for them.  The invariant is    *)
(* IdsInOrder: the ids of a call are fresh, so an entry an earlier call    *)
(* left in the ring never carries the id the present call polls for.       *)
(***************************************************************************)
OwnInv(t) == /\ CallInOrder(t)
             /\ \A e \in Entries(t) : EntryInOrder(t, e)
             /\ ResultsOwn(t)

\* A thread that takes no step keeps its part of the invariant: others only raise
\* the counter.
LEMMA OwnFrame ==
    ASSUME TypeOK, TypeOK', NEW u \in Threads, OwnInv(u),
           next_user_data <= next_user_data',
           UNCHANGED <<call[u], pushed[u], pc[u], got[u], Entries(u)>>
    PROVE  OwnInv(u)'
<1>1. CallInOrder(u)'
    BY DEF OwnInv, CallInOrder, TypeOK
<1>2. ASSUME NEW e \in Entries(u)' PROVE EntryInOrder(u, e)'
    <2>1. e \in Entries(u) /\ EntryInOrder(u, e)
        BY <1>2 DEF OwnInv
    <2>2. e.ud \in Nat
        BY <2>1 DEF Entries, TypeOK, SqeType, CqeType
    <2> QED
        BY <2>1, <2>2 DEF EntryInOrder, TypeOK
<1>3. ResultsOwn(u)'
    BY DEF OwnInv, ResultsOwn
<1> QED
    BY <1>1, <1>2, <1>3 DEF OwnInv

\* So does a step of the thread's ring that neither starts a call, nor pushes, nor
\* takes a result, as long as it adds no entry with other identifiers.
LEMMA OwnKept ==
    ASSUME TypeOK, TypeOK', NEW t \in Threads, OwnInv(t),
           UNCHANGED <<next_user_data, call, pushed>>,
           pc'[t] \in {"push", "full", "repush"} => pc[t] \in {"push", "full", "repush"},
           \A e \in Entries(t)' : \E f \in Entries(t) :
               e.ud = f.ud /\ e.call = f.call /\ e.idx = f.idx,
           ResultsOwn(t)'
    PROVE  OwnInv(t)'
BY DEF OwnInv, CallInOrder, EntryInOrder

LEMMA EntryNat ==
    ASSUME TypeOK, NEW t \in Threads, NEW e \in Entries(t)
    PROVE  e.ud \in Nat /\ e.call \in Nat /\ e.idx \in Nat
BY DEF Entries, TypeOK, SqeType, CqeType

LEMMA OwnBegin ==
    ASSUME TypeOK, TypeOK', NEW t \in Threads, OwnInv(t),
           NEW kind \in Kinds, NEW n \in Nat \ {0}, NEW batch \in BOOLEAN,
           Begin(t, kind, n, batch)
    PROVE  OwnInv(t)'
<1>1. /\ call'[t].serial = call[t].serial + 1 /\ call'[t].start = next_user_data
      /\ call'[t].n = n /\ pushed'[t] = 0 /\ got'[t] = <<>>
      /\ next_user_data' = next_user_data + n /\ Entries(t)' = Entries(t)
    BY DEF Begin, TypeOK, Entries, kernelVars
<1>2. CallInOrder(t)'
    BY <1>1 DEF CallInOrder, TypeOK
<1>3. \A e \in Entries(t)' : EntryInOrder(t, e)'
    <2> TAKE e \in Entries(t)'
    <2>1. EntryInOrder(t, e) /\ e.ud \in Nat /\ e.call \in Nat /\ call[t].serial \in Nat
        BY <1>1, EntryNat DEF OwnInv, TypeOK
    <2> QED
        BY <1>1, <2>1 DEF EntryInOrder, TypeOK
<1>4. ResultsOwn(t)'
    BY <1>1 DEF ResultsOwn
<1> QED
    BY <1>2, <1>3, <1>4 DEF OwnInv

LEMMA OwnPush ==
    ASSUME TypeOK, TypeOK', NEW t \in Threads, OwnInv(t), Push(t)
    PROVE  OwnInv(t)'
<1>1. ResultsOwn(t)'
    BY DEF Push, OwnInv, ResultsOwn, callVars
<1>2. CASE SqFull(t)
    <2>1. Entries(t)' = Entries(t)
        BY <1>2 DEF Push, Entries, kernelVars
    <2>2. UNCHANGED <<next_user_data, call, pushed>>
        BY <1>2 DEF Push, callVars
    <2> QED
        BY <1>1, <2>1, <2>2, OwnKept DEF Push
<1>3. CASE ~SqFull(t)
    <2>1. /\ Entries(t)' = Entries(t) \cup {Sqe(t, pushed[t] + 1)}
          /\ pushed'[t] = pushed[t] + 1 /\ pushed[t] < call[t].n
          /\ pc'[t] = AfterPush(t)
          /\ UNCHANGED <<next_user_data, call>>
        BY <1>3 DEF Push, Entries, kernelVars, callVars, OwnInv, CallInOrder, TypeOK
    <2>2. CallInOrder(t)'
        BY <2>1 DEF OwnInv, CallInOrder, AfterPush, TypeOK
    <2>3. ASSUME NEW e \in Entries(t) PROVE EntryInOrder(t, e)'
        BY <2>1, <2>3, EntryNat DEF OwnInv, EntryInOrder, TypeOK
    <2>4. ASSUME NEW e, e = Sqe(t, pushed[t] + 1) PROVE EntryInOrder(t, e)'
        <3>1. /\ e.ud = call[t].start + pushed[t] /\ e.call = call[t].serial
              /\ e.idx = pushed[t] + 1
            BY <2>4 DEF Sqe, TypeOK
        <3> QED
            BY <2>1, <3>1 DEF OwnInv, CallInOrder, EntryInOrder, TypeOK
    <2>5. \A e \in Entries(t)' : EntryInOrder(t, e)'
        BY <2>1, <2>3, <2>4
    <2> QED
        BY <1>1, <2>2, <2>5 DEF OwnInv
<1> QED
    BY <1>2, <1>3

\* The result a call takes is that of its next operation: the id it matches was
\* reserved by this call, and the entries of earlier calls have smaller ids.
LEMMA OwnTake ==
    ASSUME TypeOK, NEW t \in Threads, OwnInv(t),
           NEW pool \in SUBSET CqeType, NEW e \in pool,
           \E f \in Entries(t) : e.ud = f.ud /\ e.call = f.call /\ e.idx = f.idx,
           e.ud = MyId(t), Take(t, e, pool), UNCHANGED call
    PROVE  ResultsOwn(t)'
<1>1. /\ e.ud = call[t].start + Len(got[t]) /\ e \in CqeType
      /\ EntryInOrder(t, e)
    BY DEF MyId, OwnInv, EntryInOrder
<1>2. e.call = call[t].serial /\ e.idx = Len(got[t]) + 1
    BY <1>1 DEF EntryInOrder, TypeOK, CqeType
<1>3. got'[t] = Append(got[t], e) /\ got[t] \in Seq(CqeType)
    BY DEF Take, TypeOK
<1> QED
    BY <1>2, <1>3 DEF ResultsOwn, OwnInv

LEMMA OwnStep ==
    ASSUME TypeOK, TypeOK', NEW t \in Threads, OwnInv(t), StepOf(t)
    PROVE  OwnInv(t)'
<1>1. CASE Start(t)
    BY <1>1, StartBegins, OwnBegin
<1>2. CASE Push(t)
    BY <1>2, OwnPush
<1>3. ASSUME UNCHANGED <<next_user_data, call, pushed, got>>,
             pc'[t] \in {"push", "full", "repush"} => pc[t] \in {"push", "full", "repush"},
             Entries(t)' \subseteq Entries(t)
      PROVE  OwnInv(t)'
    <2>1. ResultsOwn(t)'
        BY <1>3 DEF OwnInv, ResultsOwn
    <2> QED
        BY <1>3, <2>1, OwnKept
<1>4. CASE OpenRing(t)
    BY <1>3, <1>4 DEF OpenRing, Entries, callVars, kernelVars
<1>5. CASE OpenRingFails(t)
    BY <1>3, <1>5 DEF OpenRingFails, Abandon, TypeOK, Entries, callVars, kernelVars
<1>6. CASE EnterSubmit(t)
    BY <1>3, <1>6 DEF EnterSubmit, TypeOK, Entries, callVars
<1>7. CASE EnterShort(t)
    BY <1>3, <1>7 DEF EnterShort, Abandon, Return, TypeOK, Entries, callVars
<1>8. CASE EnterWake(t)
    BY <1>3, <1>8 DEF EnterWake, Return, TypeOK, Entries, callVars, kernelVars
<1>9. CASE EnterInterrupted(t)
    BY <1>3, <1>9 DEF EnterInterrupted, Abandon, Return, TypeOK, Entries, callVars, kernelVars
<1>10. CASE PollHit(t)
    <2>1. PICK e \in completed[t] : e.ud = MyId(t) /\ Take(t, e, completed[t])
        BY <1>10 DEF PollHit
    <2>2. UNCHANGED <<next_user_data, call, pushed>> /\ Entries(t)' \subseteq Entries(t)
        BY <1>10, <2>1 DEF PollHit, Take, TypeOK, Entries, callVars, kernelVars
    <2>3. ResultsOwn(t)'
        <3>1. completed[t] \in SUBSET CqeType /\ e \in Entries(t)
            BY DEF TypeOK, Entries
        <3> QED
            BY <2>1, <2>2, <3>1, OwnTake
    <2>4. pc'[t] \notin {"push", "full", "repush"}
        BY <2>1 DEF Take, Abandon, TypeOK
    <2> QED
        BY <2>2, <2>3, <2>4, OwnKept
<1>11. CASE PollDrain(t)
    <2>1. Drained(t) \in SUBSET CqeType /\ Drained(t) \subseteq Entries(t)
        BY DEF Drained, TypeOK, Entries
    <2>2. UNCHANGED <<next_user_data, call, pushed>> /\ Entries(t)' \subseteq Entries(t)
        <3>1. completed'[t] \subseteq Drained(t)
            BY <1>11 DEF PollDrain, Take, TypeOK
        <3>2. /\ sq'[t] = sq[t] /\ inflight'[t] = inflight[t] /\ backlog'[t] = backlog[t]
              /\ cq'[t] = {} /\ UNCHANGED <<next_user_data, call, pushed>>
            BY <1>11 DEF PollDrain, TypeOK, callVars
        <3> QED
            BY <2>1, <3>1, <3>2 DEF Entries
    <2>3. ResultsOwn(t)'
        <3>1. CASE \E e \in Drained(t) : e.ud = MyId(t) /\ Take(t, e, Drained(t))
            BY <2>1, <2>2, <3>1, OwnTake
        <3>2. CASE got' = got
            BY <2>2, <3>2 DEF OwnInv, ResultsOwn
        <3> QED
            BY <1>11, <3>1, <3>2 DEF PollDrain
    <2>4. pc'[t] \notin {"push", "full", "repush"}
        BY <1>11 DEF PollDrain, Take, Abandon, TypeOK
    <2> QED
        BY <2>2, <2>3, <2>4, OwnKept
<1>12. CASE Submit(t)
    BY <1>3, <1>12 DEF Submit, SubmitOnly, TypeOK, Entries, callVars
<1>13. CASE flush_thread_ring(t)
    BY <1>3, <1>13 DEF flush_thread_ring, SubmitOnly, TypeOK, Entries, callVars
<1>14. CASE Complete(t)
    <2>1. PICK e \in inflight[t], r \in {"ok", "fail"} :
              /\ inflight' = [inflight EXCEPT ![t] = @ \ {e}]
              /\ \/ cq' = [cq EXCEPT ![t] = @ \cup {Cqe(e, r)}] /\ backlog' = backlog
                 \/ backlog' = [backlog EXCEPT ![t] = @ \cup {Cqe(e, r)}] /\ cq' = cq
        BY <1>14 DEF Complete
    <2>2. UNCHANGED <<next_user_data, call, pushed, pc, got, sq, completed>>
        BY <1>14 DEF Complete, callVars
    <2>3. ASSUME NEW f \in Entries(t)'
          PROVE  \E g \in Entries(t) : f.ud = g.ud /\ f.call = g.call /\ f.idx = g.idx
        <3>1. f \in Entries(t) \/ f = Cqe(e, r)
            BY <2>1, <2>2, <2>3 DEF Entries, TypeOK
        <3>2. Cqe(e, r).ud = e.ud /\ Cqe(e, r).call = e.call /\ Cqe(e, r).idx = e.idx
            BY DEF Cqe
        <3>3. e \in Entries(t)
            BY DEF Entries
        <3> QED
            BY <3>1, <3>2, <3>3
    <2>4. ResultsOwn(t)'
        BY <2>2 DEF OwnInv, ResultsOwn
    <2> QED
        BY <2>2, <2>3, <2>4, OwnKept
<1>15. CASE FlushBacklog(t)
    BY <1>3, <1>15 DEF FlushBacklog, TypeOK, Entries, callVars
<1> QED
    BY <1>1, <1>2, <1>4, <1>5, <1>6, <1>7, <1>8, <1>9, <1>10, <1>11, <1>12, <1>13,
       <1>14, <1>15 DEF StepOf, Run, Fault

\* The ids are handed out so that a call can only match completions of its own.
THEOREM IdsStayInOrder == Spec => [](IdsInOrder /\ OwnResults)
<1> DEFINE IInv == TypeOK /\ \A t \in Threads : OwnInv(t)
<1>1. Init => IInv
    <2> SUFFICES ASSUME Init PROVE IInv
        OBVIOUS
    <2>1. TypeOK
        BY DEF Init, TypeOK, SqeType, CqeType, NoCall
    <2>2. ASSUME NEW t \in Threads PROVE OwnInv(t)
        BY DEF Init, OwnInv, CallInOrder, ResultsOwn, Entries, NoCall
    <2> QED
        BY <2>1, <2>2
<1>2. IInv /\ [Next]_vars => IInv'
    <2> SUFFICES ASSUME IInv, [Next]_vars PROVE IInv'
        OBVIOUS
    <2>1. TypeOK'
        BY TypeStep
    <2>2. ASSUME NEW u \in Threads PROVE OwnInv(u)'
        <3>1. CASE UNCHANGED vars
            BY <2>1, <3>1, OwnFrame DEF vars, Entries, TypeOK
        <3>2. ASSUME NEW t \in Threads, StepOf(t) PROVE OwnInv(u)'
            <4>1. CASE u = t
                BY <2>1, <3>2, <4>1, OwnStep
            <4>2. CASE u # t
                BY <2>1, <3>2, <4>2, StepIsLocal, OwnFrame DEF Untouched, Entries
            <4> QED
                BY <4>1, <4>2
        <3> QED
            BY <3>1, <3>2 DEF Next, StepOf
    <2> QED
        BY <2>1, <2>2
<1>3. IInv => IdsInOrder /\ OwnResults
    BY DEF OwnInv, IdsInOrder, OwnResults
<1> QED
    BY <1>1, <1>2, <1>3, PTL DEF Spec

\* Every result a call takes is that of its own operation, in order.
THEOREM ResultsAreOwn == Spec => []OwnResults
<1>1. IdsInOrder /\ OwnResults => OwnResults
    OBVIOUS
<1> QED
    BY <1>1, IdsStayInOrder, PTL

----------------------------------------------------------------------------
(***************************************************************************)
(* A call that returns Ok leaves nothing behind.  The invariant is         *)
(* OneCopy: an operation is in one place only, so that once its result is  *)
(* taken no entry of it is left.                                           *)
(***************************************************************************)
QuietInv(t) == OneCopyOf(t) /\ Untaken(t) /\ Quiet(t) /\ Len(got[t]) <= pushed[t]

\* A ring whose places and call stay the same keeps its part of the invariant.
LEMMA QuietFrame ==
    ASSUME TypeOK, NEW u \in Threads, QuietInv(u), Untouched(u)
    PROVE  QuietInv(u)'
BY DEF QuietInv, Untouched, OneCopyOf, Untaken, Quiet, Entries, Sqes, Cqes, Distinct, Disjoint

\* Entries that only move between the queues, while the call goes on or fails.
LEMMA QuietMove ==
    ASSUME TypeOK, NEW t \in Threads, QuietInv(t), OneCopyOf(t)',
           call'[t] = call[t], got'[t] = got[t], pushed'[t] = pushed[t],
           \A e \in Entries(t)' : \E f \in Entries(t) : e.call = f.call /\ e.idx = f.idx,
           \/ pc'[t] # "idle" /\ failed'[t] = failed[t]
           \/ pc'[t] = pc[t] /\ failed'[t] = failed[t]
           \/ failed'[t] = failed[t] \cup {call[t].serial}
    PROVE  QuietInv(t)'
<1>1. Untaken(t)'
    BY DEF QuietInv, Untaken
<1>2. Quiet(t)'
    BY DEF QuietInv, Quiet
<1> QED
    BY <1>1, <1>2 DEF QuietInv

LEMMA QuietBegin ==
    ASSUME TypeOK, NEW t \in Threads, OwnInv(t), QuietInv(t),
           NEW kind \in Kinds, NEW n \in Nat \ {0}, NEW batch \in BOOLEAN,
           pc[t] = "idle", Begin(t, kind, n, batch)
    PROVE  QuietInv(t)'
<1>1. /\ call'[t].serial = call[t].serial + 1 /\ got'[t] = <<>> /\ pc'[t] = "push" /\ pushed'[t] = 0
      /\ UNCHANGED <<sq, inflight, cq, backlog, completed, failed>>
    BY DEF Begin, TypeOK, kernelVars
<1>2. Entries(t)' = Entries(t)
    BY <1>1 DEF Entries
<1>3. OneCopyOf(t)'
    BY <1>1 DEF QuietInv, OneCopyOf, Sqes, Cqes, Distinct, Disjoint
<1>4. \A e \in Entries(t) : e.call # call'[t].serial
    BY <1>1, EntryNat DEF OwnInv, EntryInOrder, TypeOK
<1>5. Untaken(t)' /\ Quiet(t)'
    BY <1>1, <1>2, <1>4 DEF QuietInv, Untaken, Quiet
<1>6. Len(got'[t]) <= pushed'[t]
    BY <1>1
<1> QED
    BY <1>3, <1>5, <1>6 DEF QuietInv

LEMMA QuietPush ==
    ASSUME TypeOK, NEW t \in Threads, OwnInv(t), QuietInv(t), Push(t)
    PROVE  QuietInv(t)'
<1>1. CASE SqFull(t)
    <2>1. UNCHANGED <<sq, inflight, cq, backlog, completed, call, got, pushed>>
        BY <1>1 DEF Push, callVars, kernelVars
    <2>2. OneCopyOf(t)' /\ Entries(t)' = Entries(t)
        BY <2>1 DEF QuietInv, OneCopyOf, Sqes, Cqes, Distinct, Disjoint, Entries
    <2>3. \/ pc'[t] # "idle" /\ failed'[t] = failed[t]
          \/ failed'[t] = failed[t] \cup {call[t].serial}
        BY <1>1 DEF Push, Abandon, TypeOK
    <2> QED
        BY <2>1, <2>2, <2>3, QuietMove
<1>2. CASE ~SqFull(t)
    <2>0. PICK s : s = Sqe(t, pushed[t] + 1)
        OBVIOUS
    <2>1. /\ sq'[t] = sq[t] \cup {s} /\ pc'[t] # "idle" /\ pushed'[t] = pushed[t] + 1
          /\ UNCHANGED <<inflight, cq, backlog, completed, call, got, failed>>
        BY <1>2, <2>0 DEF Push, AfterPush, TypeOK, callVars, kernelVars
    <2>2. /\ s.call = call[t].serial /\ s.idx = pushed[t] + 1
          /\ s.ud = call[t].start + pushed[t]
        BY <2>0 DEF Sqe, TypeOK
    <2>3. Entries(t)' = Entries(t) \cup {s}
        BY <2>1 DEF Entries
    <2>4. \A e \in Entries(t) : e.ud # s.ud
        <3> TAKE e \in Entries(t)
        <3>1. EntryInOrder(t, e) /\ e.ud \in Nat /\ e.call \in Nat
            BY EntryNat DEF OwnInv
        <3> QED
            BY <2>2, <3>1 DEF EntryInOrder, TypeOK
    <2>5. OneCopyOf(t)'
        <3>1. Sqes(t)' = Sqes(t) \cup {s} /\ Cqes(t)' = Cqes(t)
            BY <2>1 DEF Sqes, Cqes
        <3>2. Sqes(t) \subseteq Entries(t) /\ Cqes(t) \subseteq Entries(t)
            BY DEF Sqes, Cqes, Entries
        <3>3. Distinct(Sqes(t))' /\ Distinct(Cqes(t))' /\ Disjoint(Sqes(t), Cqes(t))'
            BY <2>4, <3>1, <3>2 DEF QuietInv, OneCopyOf, Distinct, Disjoint
        <3>4. s \notin inflight[t]
            BY <2>4 DEF Entries
        <3> QED
            BY <2>1, <3>3, <3>4 DEF QuietInv, OneCopyOf
    <2>6. Untaken(t)'
        <3>1. s.idx > Len(got[t])
            BY <2>2 DEF QuietInv, TypeOK
        <3> QED
            BY <2>1, <2>3, <3>1 DEF QuietInv, Untaken
    <2>7. Quiet(t)'
        BY <2>1, <2>2, <2>3 DEF QuietInv, Quiet
    <2>8. Len(got[t])' <= pushed'[t]
        BY <2>1 DEF QuietInv, TypeOK
    <2> QED
        BY <2>5, <2>6, <2>7, <2>8 DEF QuietInv
<1> QED
    BY <1>1, <1>2

\* A call takes the only entry of its next operation; when that was the last one,
\* the ring holds nothing of the call any more.
LEMMA QuietTake ==
    ASSUME TypeOK, NEW t \in Threads, OwnInv(t), QuietInv(t),
           NEW pool \in SUBSET CqeType, NEW e \in pool,
           pool \subseteq Entries(t), e.ud = MyId(t), Take(t, e, pool),
           OneCopyOf(t)', UNCHANGED <<call, pushed>>,
           \A f \in Entries(t)' : f \in Entries(t) /\ f.ud # e.ud
    PROVE  QuietInv(t)'
<1>1. /\ e.ud = call[t].start + Len(got[t]) /\ e \in CqeType /\ EntryInOrder(t, e)
    BY DEF MyId, OwnInv
<1>2. e.call = call[t].serial /\ e.idx = Len(got[t]) + 1 /\ e.idx <= pushed[t]
    BY <1>1 DEF EntryInOrder, TypeOK, CqeType
<1>3. Len(got'[t]) = Len(got[t]) + 1 /\ Len(got[t]) \in Nat
    BY DEF Take, TypeOK
<1>4. \A f \in Entries(t)' : f.call = call[t].serial => f.idx > Len(got[t]) + 1
    <2> SUFFICES ASSUME NEW f \in Entries(t)', f.call = call[t].serial
                 PROVE  f.idx > Len(got[t]) + 1
        OBVIOUS
    <2>1. /\ f \in Entries(t) /\ f.ud # e.ud /\ f.idx \in Nat
          /\ f.ud = call[t].start + f.idx - 1 /\ f.idx > Len(got[t])
        BY EntryNat DEF OwnInv, EntryInOrder, QuietInv, Untaken
    <2>2. call[t].start \in Nat
        BY DEF TypeOK
    <2> QED
        BY <1>1, <1>3, <2>1, <2>2
<1>5. Untaken(t)'
    BY <1>3, <1>4 DEF Untaken
<1>6. Quiet(t)'
    <2>1. CASE failed'[t] = failed[t] \cup {call[t].serial}
        BY <2>1 DEF QuietInv, Quiet
    <2>2. CASE pc'[t] = "poll" /\ failed' = failed
        BY <2>2 DEF QuietInv, Quiet
    <2>3. CASE Len(got[t]) + 1 = call[t].n /\ failed' = failed
        <3>1. \A f \in Entries(t)' : f.call # call[t].serial
            <4> SUFFICES ASSUME NEW f \in Entries(t)', f.call = call[t].serial PROVE FALSE
                OBVIOUS
            <4>1. f \in Entries(t) /\ f.idx \in Nat /\ f.idx <= pushed[t]
                BY EntryNat DEF OwnInv, EntryInOrder
            <4> QED
                BY <1>3, <1>4, <2>3, <4>1 DEF OwnInv, CallInOrder, TypeOK
        <3> QED
            BY <2>3, <3>1 DEF QuietInv, Quiet
    <2> QED
        BY <2>1, <2>2, <2>3 DEF Take, Abandon, TypeOK
<1>7. Len(got'[t]) <= pushed'[t]
    BY <1>2, <1>3
<1> QED
    BY <1>5, <1>6, <1>7 DEF QuietInv

LEMMA QuietPollHit ==
    ASSUME TypeOK, NEW t \in Threads, OwnInv(t), QuietInv(t), PollHit(t)
    PROVE  QuietInv(t)'
<1>1. PICK e \in completed[t] : e.ud = MyId(t) /\ Take(t, e, completed[t])
    BY DEF PollHit
<1>2. /\ completed'[t] = completed[t] \ {e}
      /\ UNCHANGED <<call, pushed, sq, inflight, cq, backlog>>
    BY <1>1 DEF PollHit, Take, TypeOK, callVars, kernelVars
<1>3. completed[t] \in SUBSET CqeType /\ completed[t] \subseteq Entries(t)
    BY DEF TypeOK, Entries
<1>4. Sqes(t)' = Sqes(t) /\ Cqes(t)' = Cqes(t) \ {e} /\ e \in Cqes(t)
    BY <1>2 DEF Sqes, Cqes, QuietInv, OneCopyOf
<1>5. OneCopyOf(t)'
    BY <1>2, <1>4 DEF QuietInv, OneCopyOf, Distinct, Disjoint
<1>6. \A f \in Entries(t)' : f \in Entries(t) /\ f.ud # e.ud
    <2> TAKE f \in Entries(t)'
    <2>1. f \in Sqes(t) \/ (f \in Cqes(t) /\ f # e)
        BY <1>4 DEF Entries, Sqes, Cqes
    <2> QED
        BY <1>4, <2>1 DEF QuietInv, OneCopyOf, Distinct, Disjoint, Entries, Sqes, Cqes
<1> QED
    BY <1>1, <1>2, <1>3, <1>5, <1>6, QuietTake

LEMMA QuietPollDrain ==
    ASSUME TypeOK, NEW t \in Threads, OwnInv(t), QuietInv(t), PollDrain(t)
    PROVE  QuietInv(t)'
<1>1. Drained(t) = completed[t] \cup cq[t]
    <2>1. \A e \in completed[t], c \in cq[t] : c.ud # e.ud
        BY DEF QuietInv, OneCopyOf, Cqes, Distinct
    <2> QED
        BY <2>1 DEF Drained
<1>2. cq'[t] = {} /\ UNCHANGED <<call, pushed, sq, inflight, backlog>>
    BY DEF PollDrain, TypeOK, callVars
<1>3. Drained(t) \in SUBSET CqeType /\ Drained(t) \subseteq Entries(t)
    BY <1>1 DEF TypeOK, Entries
<1>4. ASSUME NEW e \in Drained(t), e.ud = MyId(t), Take(t, e, Drained(t))
      PROVE  QuietInv(t)'
    <2>1. completed'[t] = Drained(t) \ {e}
        BY <1>4 DEF Take, TypeOK
    <2>2. Sqes(t)' = Sqes(t) /\ Cqes(t)' = Cqes(t) \ {e} /\ e \in Cqes(t)
        BY <1>1, <1>2, <2>1 DEF Sqes, Cqes, QuietInv, OneCopyOf
    <2>3. /\ Distinct(Sqes(t))' /\ Distinct(Cqes(t))' /\ Disjoint(Sqes(t), Cqes(t))'
        BY <2>2 DEF QuietInv, OneCopyOf, Distinct, Disjoint
    <2>4. /\ sq'[t] \cap inflight'[t] = {} /\ cq'[t] \cap backlog'[t] = {}
          /\ (cq'[t] \cup backlog'[t]) \cap completed'[t] = {}
        BY <1>1, <1>2, <2>1 DEF QuietInv, OneCopyOf
    <2>5. OneCopyOf(t)'
        BY <2>3, <2>4 DEF OneCopyOf
    <2>6. \A f \in Entries(t)' : f \in Entries(t) /\ f.ud # e.ud
        <3> TAKE f \in Entries(t)'
        <3>1. f \in Sqes(t) \/ (f \in Cqes(t) /\ f # e)
            BY <2>2 DEF Entries, Sqes, Cqes
        <3> QED
            BY <2>2, <3>1 DEF QuietInv, OneCopyOf, Distinct, Disjoint, Entries, Sqes, Cqes
    <2> QED
        BY <1>2, <1>3, <1>4, <2>5, <2>6, QuietTake
<1>5. ASSUME completed' = [completed EXCEPT ![t] = Drained(t)],
             pc' = [pc EXCEPT ![t] = IF pc[t] = "poll" THEN "submit" ELSE "wait"],
             UNCHANGED <<got, failed>>
      PROVE  QuietInv(t)'
    <2>1. completed'[t] = completed[t] \cup cq[t] /\ pc'[t] # "idle"
        BY <1>1, <1>5 DEF TypeOK
    <2>2. Sqes(t)' = Sqes(t) /\ Cqes(t)' = Cqes(t) /\ Entries(t)' = Entries(t)
        BY <1>2, <2>1 DEF Sqes, Cqes, Entries
    <2>3. /\ sq'[t] \cap inflight'[t] = {} /\ cq'[t] \cap backlog'[t] = {}
          /\ (cq'[t] \cup backlog'[t]) \cap completed'[t] = {}
        BY <1>2, <2>1 DEF QuietInv, OneCopyOf
    <2>4. OneCopyOf(t)'
        BY <2>2, <2>3 DEF QuietInv, OneCopyOf, Distinct, Disjoint
    <2> QED
        BY <1>2, <1>5, <2>1, <2>2, <2>4, QuietMove
<1> QED
    BY <1>4, <1>5 DEF PollDrain

LEMMA QuietStep ==
    ASSUME TypeOK, NEW t \in Threads, OwnInv(t), QuietInv(t), StepOf(t)
    PROVE  QuietInv(t)'
<1>1. CASE Start(t)
    BY <1>1, StartBegins, QuietBegin DEF Begin
<1>2. CASE Push(t)
    BY <1>2, QuietPush
<1>3. CASE PollHit(t)
    BY <1>3, QuietPollHit
<1>4. CASE PollDrain(t)
    BY <1>4, QuietPollDrain
<1>5. ASSUME NEW taken \in SUBSET sq[t],
             sq' = [sq EXCEPT ![t] = @ \ taken],
             inflight' = [inflight EXCEPT ![t] = @ \cup taken],
             UNCHANGED <<cq, backlog, completed>>
      PROVE  OneCopyOf(t)' /\ Entries(t)' = Entries(t)
    <2>1. Sqes(t)' = Sqes(t) /\ Cqes(t)' = Cqes(t)
        BY <1>5 DEF Sqes, Cqes, TypeOK
    <2>2. Entries(t)' = Entries(t)
        BY <1>5 DEF Entries, TypeOK
    <2>3. sq'[t] \cap inflight'[t] = {}
        BY <1>5 DEF QuietInv, OneCopyOf, TypeOK
    <2>4. OneCopyOf(t)'
        BY <1>5, <2>1, <2>3 DEF QuietInv, OneCopyOf, Distinct, Disjoint
    <2> QED
        BY <2>2, <2>4
<1>6. ASSUME UNCHANGED <<sq, inflight, cq, backlog, completed>>
      PROVE  OneCopyOf(t)' /\ Entries(t)' = Entries(t)
    BY <1>6 DEF QuietInv, OneCopyOf, Sqes, Cqes, Distinct, Disjoint, Entries
<1>7. CASE OpenRing(t)
    BY <1>6, <1>7, QuietMove DEF OpenRing, callVars, kernelVars
<1>8. CASE OpenRingFails(t)
    BY <1>6, <1>8, QuietMove DEF OpenRingFails, Abandon, TypeOK, callVars, kernelVars
<1>9. CASE EnterSubmit(t)
    <2>1. /\ sq' = [sq EXCEPT ![t] = @ \ sq[t]]
          /\ inflight' = [inflight EXCEPT ![t] = @ \cup sq[t]]
          /\ UNCHANGED <<cq, backlog, completed, call, got, pushed, pc, failed>>
        BY <1>9 DEF EnterSubmit, callVars, TypeOK
    <2>2. OneCopyOf(t)' /\ Entries(t)' = Entries(t)
        BY <1>5, <2>1
    <2> QED
        BY <2>1, <2>2, QuietMove
<1>10. CASE EnterShort(t)
    <2>1. PICK taken \in SUBSET sq[t] :
              /\ inflight' = [inflight EXCEPT ![t] = @ \cup taken]
              /\ sq' = [sq EXCEPT ![t] = @ \ taken]
              /\ IF taken = {} THEN Abandon(t) ELSE Return(t)
        BY <1>10 DEF EnterShort
    <2>2. UNCHANGED <<cq, backlog, completed, call, got, pushed>>
        BY <1>10 DEF EnterShort, callVars
    <2>3. OneCopyOf(t)' /\ Entries(t)' = Entries(t)
        BY <1>5, <2>1, <2>2
    <2>4. \/ pc'[t] # "idle" /\ failed'[t] = failed[t]
          \/ failed'[t] = failed[t] \cup {call[t].serial}
        BY <2>1 DEF Abandon, Return, TypeOK
    <2> QED
        BY <2>2, <2>3, <2>4, QuietMove
<1>11. CASE EnterWake(t)
    <2>1. pc'[t] # "idle" /\ failed' = failed
        BY <1>11 DEF EnterWake, Return, TypeOK
    <2> QED
        BY <1>6, <1>11, <2>1, QuietMove DEF EnterWake, callVars, kernelVars
<1>12. CASE EnterInterrupted(t)
    <2>1. \/ pc'[t] # "idle" /\ failed'[t] = failed[t]
          \/ failed'[t] = failed[t] \cup {call[t].serial}
        BY <1>12 DEF EnterInterrupted, Abandon, Return, TypeOK
    <2> QED
        BY <1>6, <1>12, <2>1, QuietMove DEF EnterInterrupted, callVars, kernelVars
<1>13. ASSUME SubmitOnly(t), UNCHANGED <<cq, backlog, completed>>
       PROVE  OneCopyOf(t)' /\ Entries(t)' = Entries(t)
    BY <1>5, <1>13 DEF SubmitOnly
<1>14. CASE Submit(t)
    <2>1. pc'[t] # "idle" /\ failed' = failed
        BY <1>14 DEF Submit, TypeOK
    <2> QED
        BY <1>13, <1>14, <2>1, QuietMove DEF Submit, callVars
<1>15. CASE flush_thread_ring(t)
    BY <1>13, <1>15, QuietMove DEF flush_thread_ring, callVars
<1>16. CASE Complete(t)
    <2>1. PICK e \in inflight[t], r \in {"ok", "fail"} :
              /\ inflight' = [inflight EXCEPT ![t] = @ \ {e}]
              /\ \/ cq' = [cq EXCEPT ![t] = @ \cup {Cqe(e, r)}] /\ backlog' = backlog
                 \/ backlog' = [backlog EXCEPT ![t] = @ \cup {Cqe(e, r)}] /\ cq' = cq
        BY <1>16 DEF Complete
    <2>2. UNCHANGED <<call, pushed, pc, got, sq, completed, failed>>
        BY <1>16 DEF Complete, callVars
    <2>3. PICK c : /\ c = Cqe(e, r) /\ c.ud = e.ud /\ c.call = e.call /\ c.idx = e.idx
        <3>1. /\ Cqe(e, r).ud = e.ud /\ Cqe(e, r).call = e.call
              /\ Cqe(e, r).idx = e.idx
            BY DEF Cqe
        <3> QED
            BY <3>1
    <2>4. /\ Sqes(t)' = Sqes(t) \ {e} /\ e \in Sqes(t)
          /\ Cqes(t)' = Cqes(t) \cup {c}
        BY <2>1, <2>2, <2>3 DEF Sqes, Cqes, QuietInv, OneCopyOf, TypeOK
    <2>5. \A f \in Cqes(t) : f.ud # c.ud
        BY <2>3, <2>4 DEF QuietInv, OneCopyOf, Disjoint
    <2>6. Distinct(Sqes(t))' /\ Distinct(Cqes(t))' /\ Disjoint(Sqes(t), Cqes(t))'
        BY <2>3, <2>4, <2>5 DEF QuietInv, OneCopyOf, Distinct, Disjoint
    <2>7. /\ sq'[t] \cap inflight'[t] = {} /\ cq'[t] \cap backlog'[t] = {}
          /\ (cq'[t] \cup backlog'[t]) \cap completed'[t] = {}
        <3>1. c \notin Cqes(t)
            BY <2>5
        <3> QED
            BY <2>1, <2>2, <2>3, <3>1 DEF QuietInv, OneCopyOf, Cqes, TypeOK
    <2>8. OneCopyOf(t)'
        BY <2>6, <2>7 DEF OneCopyOf
    <2>9. \A f \in Entries(t)' : \E g \in Entries(t) : f.call = g.call /\ f.idx = g.idx
        <3>1. \A f \in Entries(t)' : f \in Entries(t) \/ f = c
            BY <2>4 DEF Entries, Sqes, Cqes
        <3>2. e \in Entries(t)
            BY DEF Entries
        <3> QED
            BY <2>3, <3>1, <3>2
    <2> QED
        BY <2>2, <2>8, <2>9, QuietMove
<1>17. CASE FlushBacklog(t)
    <2>1. PICK e \in backlog[t] : /\ backlog' = [backlog EXCEPT ![t] = @ \ {e}]
                                  /\ cq' = [cq EXCEPT ![t] = @ \cup {e}]
        BY <1>17 DEF FlushBacklog
    <2>2. UNCHANGED <<call, pushed, pc, got, sq, inflight, completed, failed>>
        BY <1>17 DEF FlushBacklog, callVars
    <2>3. Sqes(t)' = Sqes(t) /\ Cqes(t)' = Cqes(t) /\ Entries(t)' = Entries(t)
        BY <2>1, <2>2 DEF Sqes, Cqes, Entries, TypeOK
    <2>4. /\ sq'[t] \cap inflight'[t] = {} /\ cq'[t] \cap backlog'[t] = {}
          /\ (cq'[t] \cup backlog'[t]) \cap completed'[t] = {}
        BY <2>1, <2>2 DEF QuietInv, OneCopyOf, TypeOK
    <2>5. OneCopyOf(t)'
        BY <2>3, <2>4 DEF QuietInv, OneCopyOf, Distinct, Disjoint
    <2> QED
        BY <2>2, <2>3, <2>5, QuietMove
<1> QED
    BY <1>1, <1>2, <1>3, <1>4, <1>7, <1>8, <1>9, <1>10, <1>11, <1>12, <1>14, <1>15,
       <1>16, <1>17 DEF StepOf, Run, Fault

EngineInv == TypeOK /\ \A t \in Threads : OwnInv(t) /\ QuietInv(t)

\* The types, the order of ids and the one place of every operation, together.
THEOREM EngineInvariance == Spec => []EngineInv
<1> USE DEF EngineInv
<1>1. Init => EngineInv
    <2> SUFFICES ASSUME Init PROVE EngineInv
        OBVIOUS
    <2>1. TypeOK
        BY DEF Init, TypeOK, SqeType, CqeType, NoCall
    <2>2. ASSUME NEW t \in Threads PROVE OwnInv(t)
        BY DEF Init, OwnInv, CallInOrder, ResultsOwn, Entries, NoCall
    <2>3. ASSUME NEW t \in Threads PROVE QuietInv(t)
        BY DEF Init, QuietInv, OneCopyOf, Untaken, Quiet, Entries, Sqes, Cqes,
               Distinct, Disjoint
    <2> QED
        BY <2>1, <2>2, <2>3
<1>2. EngineInv /\ [Next]_vars => EngineInv'
    <2> SUFFICES ASSUME EngineInv, [Next]_vars PROVE EngineInv'
        OBVIOUS
    <2>1. TypeOK'
        BY TypeStep
    <2>2. ASSUME NEW u \in Threads PROVE (OwnInv(u) /\ QuietInv(u))'
        <3>1. CASE UNCHANGED vars
            BY <2>1, <3>1, OwnFrame, QuietFrame DEF vars, Entries, TypeOK, Untouched
        <3>2. ASSUME NEW t \in Threads, StepOf(t) PROVE (OwnInv(u) /\ QuietInv(u))'
            <4>1. CASE u = t
                BY <2>1, <3>2, <4>1, OwnStep, QuietStep
            <4>2. CASE u # t
                BY <2>1, <3>2, <4>2, StepIsLocal, OwnFrame, QuietFrame DEF Untouched, Entries
            <4> QED
                BY <4>1, <4>2
        <3> QED
            BY <3>1, <3>2 DEF Next, StepOf
    <2> QED
        BY <2>1, <2>2
<1> QED
    BY <1>1, <1>2, PTL DEF Spec

\* No operation is ever in two places, and only failed calls leave entries behind.
THEOREM OneCopyAndQuiet == Spec => [](OneCopy /\ QuietOnOk)
<1>1. EngineInv => OneCopy /\ QuietOnOk
    BY DEF EngineInv, QuietInv, OneCopy, QuietOnOk
<1> QED
    BY <1>1, EngineInvariance, PTL

\* While no call of a thread has failed, its ring and its map hold nothing between
\* two calls.
THEOREM OkCallsLeaveNothing == Spec => []QuietOnOk
<1>1. OneCopy /\ QuietOnOk => QuietOnOk
    OBVIOUS
<1> QED
    BY <1>1, OneCopyAndQuiet, PTL

=============================================================================

-------------------------- MODULE UringServiceProofs --------------------------
(***************************************************************************)
(* The io_uring engine implements the service of RingService, for every    *)
(* number of threads, ring size, batch size and set of faults: each step   *)
(* of the engine is a step of the service or changes nothing of it.        *)
(*                                                                         *)
(* One fact about the queue is needed beside the engine's invariant: the   *)
(* second push of an entry never finds the submission queue full.  Without *)
(* it a call could give up on a machine without faults.                    *)
(***************************************************************************)
EXTENDS UringEngineProofs, FiniteSetTheorems

RoomInv(t) ==
    /\ IsFiniteSet(sq[t]) /\ Cardinality(sq[t]) <= RingSize
    /\ entered[t] # "out" => sq[t] = {} /\ pc[t] \in Waits
    /\ pc[t] = "repush" => Cardinality(sq[t]) < RingSize

LEMMA RoomFrame ==
    ASSUME NEW t \in Threads, RoomInv(t), sq'[t] = sq[t],
           \/ entered'[t] = entered[t] /\ pc'[t] = pc[t]
           \/ entered'[t] = "out" /\ pc'[t] # "repush"
    PROVE  RoomInv(t)'
BY DEF RoomInv

LEMMA RoomShrinks ==
    ASSUME NEW t \in Threads, RoomInv(t), sq'[t] \in SUBSET sq[t], entered'[t] = "out",
           pc'[t] = "repush" => sq'[t] # sq[t]
    PROVE  RoomInv(t)'
<1>1. IsFiniteSet(sq'[t]) /\ Cardinality(sq'[t]) <= Cardinality(sq[t])
    BY FS_Subset DEF RoomInv
<1>2. sq'[t] # sq[t] => Cardinality(sq'[t]) # Cardinality(sq[t])
    BY FS_Subset DEF RoomInv
<1>3. Cardinality(sq[t]) \in Nat /\ Cardinality(sq'[t]) \in Nat /\ RingSize \in Nat
    BY <1>1, FS_CardinalityType, RingSizeType DEF RoomInv
<1> QED
    BY <1>1, <1>2, <1>3 DEF RoomInv

LEMMA RoomStep ==
    ASSUME TypeOK, NEW t \in Threads, RoomInv(t), StepOf(t)
    PROVE  RoomInv(t)'
<1> USE DEF TypeOK
<1>1. pc[t] \notin Waits => entered[t] = "out"
    BY DEF RoomInv
<1>2. CASE Start(t)
    BY <1>1, <1>2, StartBegins, RoomFrame DEF Begin, Waits
<1>3. CASE OpenRing(t) \/ OpenRingFails(t)
    BY <1>1, <1>3, RoomFrame DEF OpenRing, OpenRingFails, Abandon, Waits
<1>4. CASE Push(t)
    <2>1. entered[t] = "out" /\ entered' = entered
        BY <1>1, <1>4 DEF Push, Waits
    <2>2. CASE SqFull(t)
        BY <1>4, <2>1, <2>2, RoomFrame DEF Push, Abandon
    <2>3. CASE ~SqFull(t)
        <3> DEFINE e == Sqe(t, pushed[t] + 1)
        <3>1. sq'[t] = sq[t] \cup {e} /\ pc'[t] = AfterPush(t)
            BY <1>4, <2>3 DEF Push
        <3>2. IsFiniteSet(sq'[t]) /\ Cardinality(sq'[t]) <= Cardinality(sq[t]) + 1
            <4> HIDE DEF e, TypeOK
            <4>1. IsFiniteSet(sq[t]) /\ Cardinality(sq[t]) \in Nat
                BY FS_CardinalityType DEF RoomInv
            <4>2. /\ IsFiniteSet(sq[t] \cup {e})
                  /\ Cardinality(sq[t] \cup {e}) = IF e \in sq[t] THEN Cardinality(sq[t])
                                                   ELSE Cardinality(sq[t]) + 1
                BY <4>1, FS_AddElement
            <4> QED
                BY <3>1, <4>1, <4>2
        <3>3. Cardinality(sq[t]) < RingSize /\ Cardinality(sq[t]) \in Nat
            BY <2>3, FS_CardinalityType, RingSizeType DEF RoomInv, SqFull
        <3>4. pc'[t] # "repush" /\ Cardinality(sq'[t]) \in Nat
            BY <3>1, <3>2, FS_CardinalityType DEF AfterPush
        <3> QED
            BY <2>1, <3>2, <3>3, <3>4, RingSizeType DEF RoomInv
    <2> QED
        BY <2>2, <2>3
<1>5. CASE EnterSubmit(t)
    BY <1>5, FS_EmptySet, RingSizeType DEF EnterSubmit, RoomInv, Waits
<1>6. CASE EnterShort(t)
    <2>1. PICK taken \in SUBSET sq[t] :
              /\ sq'[t] = sq[t] \ taken /\ entered'[t] = "out"
              /\ IF taken = {} THEN Abandon(t) ELSE Return(t)
        BY <1>6 DEF EnterShort
    <2>2. taken = {} => pc'[t] # "repush"
        BY <2>1 DEF Abandon
    <2> QED
        BY <2>1, <2>2, RoomShrinks
<1>7. CASE EnterWake(t) \/ EnterInterrupted(t)
    <2>1. sq[t] = {} /\ sq'[t] = {} /\ entered'[t] = "out"
        BY <1>7 DEF EnterWake, EnterInterrupted, RoomInv
    <2> QED
        BY <2>1, FS_EmptySet, RingSizeType DEF RoomInv
<1>8. CASE PollHit(t)
    BY <1>1, <1>8, RoomFrame DEF PollHit, Take, Abandon, Waits
<1>9. CASE PollDrain(t)
    BY <1>1, <1>9, RoomFrame DEF PollDrain, Take, Abandon, Waits
<1>10. CASE Submit(t)
    BY <1>1, <1>10, RoomShrinks DEF Submit, SubmitOnly, Waits
<1>11. CASE flush_thread_ring(t)
    BY <1>1, <1>11, RoomShrinks DEF flush_thread_ring, SubmitOnly, Waits
<1>12. CASE Complete(t) \/ FlushBacklog(t)
    BY <1>12, RoomFrame DEF Complete, FlushBacklog
<1> QED
    BY <1>2, <1>3, <1>4, <1>5, <1>6, <1>7, <1>8, <1>9, <1>10, <1>11, <1>12
       DEF StepOf, Run, Fault

Rooms == \A t \in Threads : RoomInv(t)

\* The submission queue never holds more than the ring's size, and is empty while its
\* thread is in the kernel.
THEOREM RoomInvariance == Spec => []Rooms
<1>1. Init => Rooms
    BY FS_EmptySet, RingSizeType DEF Init, Rooms, RoomInv
<1>2. TypeOK /\ Rooms /\ [Next]_vars => Rooms'
    <2> SUFFICES ASSUME TypeOK, Rooms, [Next]_vars, NEW u \in Threads PROVE RoomInv(u)'
        BY DEF Rooms
    <2>1. CASE UNCHANGED vars
        BY <2>1, RoomFrame DEF Rooms, vars
    <2>2. ASSUME NEW t \in Threads, StepOf(t) PROVE RoomInv(u)'
        <3>1. CASE u = t
            BY <2>2, <3>1, RoomStep DEF Rooms
        <3>2. CASE u # t
            BY <2>2, <3>2, StepIsLocal, RoomFrame DEF Rooms, Untouched
        <3> QED
            BY <3>1, <3>2
    <2> QED
        BY <2>1, <2>2 DEF Next, StepOf
<1> QED
    BY <1>1, <1>2, TypeCorrect, PTL DEF Spec

\* The error "SQ queue full" never shows, for any ring size, batch size and faults: after
\* the wait for a full submission queue there is room in it.
THEOREM RepushFindsRoom == Spec => []RepushHasRoom
<1>1. Rooms => RepushHasRoom
    BY FS_CardinalityType, RingSizeType DEF Rooms, RoomInv, RepushHasRoom, SqFull
<1> QED
    BY <1>1, RoomInvariance, PTL

----------------------------------------------------------------------------
(* What the service sees of one thread, and what a step may do to it. *)

Busy(t)    == pc[t] # "idle"
Reports(t) == {<<e.idx, e.res>> : e \in Reported(t)}
Answer(t)  == [i \in 1 .. Len(got[t]) |-> got[t][i].res]

Same(t) ==
    /\ Busy(t)' = Busy(t) /\ call'[t].n = call[t].n
    /\ Reports(t)' = Reports(t) /\ Answer(t)' = Answer(t)

Asks(t) ==
    /\ ~Busy(t) /\ Busy(t)' /\ call'[t].n \in 1 .. MaxBatch
    /\ Reports(t)' = {} /\ Answer(t)' = <<>>

Reporting(t) ==
    /\ Busy(t)' = Busy(t) /\ call'[t].n = call[t].n /\ Answer(t)' = Answer(t)
    /\ \E i \in 1 .. call[t].n, r \in {"ok", "fail"} :
          /\ \A p \in Reports(t) : p[1] # i
          /\ Reports(t)' = Reports(t) \cup {<<i, r>>}

Collects(t) ==
    /\ Busy(t) /\ call'[t].n = call[t].n /\ Reports(t)' = Reports(t)
    /\ \E p \in Reports(t) :
          /\ p[1] = Len(Answer(t)) + 1
          /\ Answer(t)' = Append(Answer(t), p[2])
          /\ Busy(t)' = (p[2] = "ok" /\ p[1] < call[t].n)

GivesUp(t) ==
    /\ Faults # {} /\ Busy(t) /\ ~Busy(t)' /\ call'[t].n = call[t].n
    /\ Reports(t)' = Reports(t) /\ Answer(t)' = Answer(t)

LEMMA StepOfService ==
    ASSUME NEW t \in Threads, \A u \in Threads : u # t => Same(u),
           Same(t) \/ Asks(t) \/ Reporting(t) \/ Collects(t) \/ GivesUp(t)
    PROVE  [Service!Next]_(Service!vars)
<1> DEFINE busy     == [u \in Threads |-> Busy(u)]
           count    == [u \in Threads |-> call[u].n]
           reported == [u \in Threads |-> Reports(u)]
           answer   == [u \in Threads |-> Answer(u)]
<1>1. CASE Same(t)
    BY <1>1 DEF Same, Service!vars, Busy, Reports, Answer
<1>2. CASE Asks(t)
    <2>1. Service!Ask(t)
        BY <1>2 DEF Same, Asks, Service!Ask, Busy, Reports, Answer
    <2> QED
        BY <2>1 DEF Service!Next
<1>3. CASE Reporting(t)
    <2>1. PICK i \in 1 .. call[t].n, r \in {"ok", "fail"} :
              /\ \A p \in Reports(t) : p[1] # i
              /\ Reports(t)' = Reports(t) \cup {<<i, r>>}
        BY <1>3 DEF Reporting
    <2>2. /\ reported' = [reported EXCEPT ![t] = @ \cup {<<i, r>>}]
          /\ \A p \in reported[t] : p[1] # i
          /\ i \in 1 .. count[t]
        BY <2>1 DEF Same
    <2>3. busy' = busy /\ count' = count /\ answer' = answer
        BY <1>3 DEF Same, Reporting
    <2>4. Service!Report(t)
        BY <2>2, <2>3, Zenon DEF Service!Report, Busy, Reports, Answer
    <2> QED
        BY <2>4 DEF Service!Next
<1>4. CASE Collects(t)
    <2>1. PICK p \in Reports(t) :
              /\ p[1] = Len(Answer(t)) + 1
              /\ Answer(t)' = Append(Answer(t), p[2])
              /\ Busy(t)' = (p[2] = "ok" /\ p[1] < call[t].n)
        BY <1>4 DEF Collects
    <2>2. /\ busy[t] /\ p \in reported[t] /\ p[1] = Len(answer[t]) + 1
          /\ answer' = [answer EXCEPT ![t] = Append(@, p[2])]
          /\ busy' = [busy EXCEPT ![t] = p[2] = "ok" /\ p[1] < count[t]]
        BY <1>4, <2>1 DEF Same, Collects
    <2>3. count' = count /\ reported' = reported
        BY <1>4 DEF Same, Collects
    <2>4. Service!Collect(t)
        BY <2>2, <2>3, Zenon DEF Service!Collect, Busy, Reports, Answer
    <2> QED
        BY <2>4 DEF Service!Next
<1>5. CASE GivesUp(t)
    <2>1. Service!GiveUp(t)
        BY <1>5 DEF Same, GivesUp, Service!GiveUp, Busy, Reports, Answer
    <2> QED
        BY <2>1 DEF Service!Next
<1> QED
    BY <1>1, <1>2, <1>3, <1>4, <1>5

----------------------------------------------------------------------------
(* The engine's steps. *)

LEMMA Unseen ==
    ASSUME NEW t \in Threads, call'[t] = call[t], got'[t] = got[t], Cqes(t)' = Cqes(t)
    PROVE  call'[t].n = call[t].n /\ Reports(t)' = Reports(t) /\ Answer(t)' = Answer(t)
<1>1. Reported(t)' = Reported(t)
    BY DEF Reported, Cqes
<1> QED
    BY <1>1 DEF Reports, Answer

LEMMA StartAsks ==
    ASSUME TypeOK, NEW t \in Threads, OwnInv(t), Start(t)
    PROVE  Asks(t)
<1>1. PICK kind \in Kinds, n \in 1 .. MaxBatch, batch \in BOOLEAN : Begin(t, kind, n, batch)
    <2>1. 1 \in 1 .. MaxBatch
        BY BoundAssumption
    <2>2. \A kind, n, batch : Begin(t, kind, n, batch) => kind \in Kinds
        BY DEF Begin
    <2> QED
        BY <2>1, <2>2, Zenon DEF Start, submit_uring_read, submit_uring_write,
           submit_uring_splice, submit_uring_read_batch, submit_uring_write_batch
<1>2. /\ call'[t].serial = call[t].serial + 1 /\ call'[t].n = n
      /\ got'[t] = <<>> /\ pc[t] = "idle" /\ pc'[t] = "push"
      /\ cq' = cq /\ backlog' = backlog /\ completed' = completed
    BY <1>1 DEF Begin, TypeOK, kernelVars
<1>3. call[t].serial \in Nat
    BY DEF TypeOK
<1>4. \A e \in Cqes(t) : e.call <= call[t].serial /\ e.call \in Nat
    BY EntryNat DEF OwnInv, EntryInOrder, Entries, Cqes
<1>5. Reported(t)' = {}
    BY <1>2, <1>3, <1>4 DEF Reported, Cqes
<1> QED
    BY <1>2, <1>5 DEF Asks, Busy, Reports, Answer

\* A result of the next id is the next report of the call.
LEMMA TakeCollects ==
    ASSUME TypeOK, NEW t \in Threads, OwnInv(t), QuietInv(t), pc[t] # "idle",
           NEW pool \in SUBSET CqeType, NEW e \in pool, e \in cq[t] \cup completed[t],
           e.ud = MyId(t), Take(t, e, pool), call' = call,
           Cqes(t)' = Cqes(t) \ {e}
    PROVE  Collects(t)
<1>1. /\ e.call = call[t].serial /\ e.idx = Len(got[t]) + 1 /\ e.idx <= call[t].n
    <2>1. e \in Entries(t) /\ EntryInOrder(t, e)
        BY DEF Entries, OwnInv
    <2>2. /\ e.call \in Nat /\ e.idx \in Nat /\ e.ud = call[t].start + Len(got[t])
          /\ call[t].start \in Nat /\ call[t].serial \in Nat /\ call[t].n \in Nat
          /\ Len(got[t]) \in Nat /\ pushed[t] \in Nat
        BY <2>1, EntryNat DEF TypeOK, MyId
    <2>3. pushed[t] <= call[t].n
        BY DEF OwnInv, CallInOrder
    <2> QED
        BY <2>1, <2>2, <2>3 DEF EntryInOrder
<1>2. got'[t] = Append(got[t], e) /\ got[t] \in Seq(CqeType) /\ e \in CqeType
    BY DEF Take, TypeOK
<1>3. e \in Reported(t) /\ e \in Cqes(t)
    BY <1>1 DEF Reported, Cqes
<1>4. Reported(t)' = Reported(t)
    <2>1. {got'[t][i] : i \in 1 .. Len(got'[t])} = {got[t][i] : i \in 1 .. Len(got[t])} \cup {e}
        BY <1>2
    <2>2. /\ Reported(t) = {f \in Cqes(t) : f.call = call[t].serial}
                            \cup {got[t][i] : i \in 1 .. Len(got[t])}
          /\ Reported(t)' = {f \in Cqes(t)' : f.call = call'[t].serial}
                            \cup {got'[t][i] : i \in 1 .. Len(got'[t])}
        BY DEF Reported, Cqes
    <2> QED
        BY <1>1, <1>3, <2>1, <2>2
<1>5. Answer(t)' = Append(Answer(t), e.res) /\ Len(Answer(t)) = Len(got[t])
    BY <1>2 DEF Answer
<1>6. Busy(t)' = (e.res = "ok" /\ e.idx < call[t].n)
    <2>1. e.res \in {"ok", "fail"}
        BY <1>2 DEF CqeType
    <2>2. pc'[t] = IF e.res = "fail" \/ Len(got[t]) + 1 = call[t].n THEN "idle" ELSE "poll"
        BY DEF Take, Abandon, TypeOK
    <2>3. call[t].n \in Nat /\ Len(got[t]) \in Nat
        BY <1>2 DEF TypeOK
    <2> QED
        BY <1>1, <2>1, <2>2, <2>3 DEF Busy
<1> DEFINE p == <<e.idx, e.res>>
<1>7. p \in Reports(t) /\ Reports(t)' = Reports(t)
    BY <1>3, <1>4 DEF Reports
<1>8. p[1] = Len(Answer(t)) + 1 /\ p[1] = e.idx /\ p[2] = e.res
    BY <1>1, <1>5
<1> HIDE DEF p
<1> QED
    BY <1>5, <1>6, <1>7, <1>8 DEF Collects, Busy

LEMMA DrainedAll ==
    ASSUME NEW t \in Threads, QuietInv(t)
    PROVE  Drained(t) = completed[t] \cup cq[t]
<1>1. \A e \in completed[t], c \in cq[t] : c.ud # e.ud
    BY DEF QuietInv, OneCopyOf, Cqes, Distinct
<1> QED
    BY <1>1 DEF Drained

LEMMA PollsCollect ==
    ASSUME TypeOK, NEW t \in Threads, OwnInv(t), QuietInv(t), PollHit(t) \/ PollDrain(t)
    PROVE  Same(t) \/ Collects(t)
<1>1. CASE PollHit(t)
    <2>1. PICK e \in completed[t] : e.ud = MyId(t) /\ Take(t, e, completed[t])
        BY <1>1 DEF PollHit
    <2>2. /\ completed'[t] = completed[t] \ {e} /\ call' = call
          /\ cq' = cq /\ backlog' = backlog /\ pc[t] # "idle"
        BY <1>1, <2>1 DEF PollHit, Take, TypeOK, callVars, kernelVars
    <2>3. Cqes(t)' = Cqes(t) \ {e}
        BY <2>2 DEF Cqes, QuietInv, OneCopyOf
    <2>4. completed[t] \in SUBSET CqeType
        BY DEF TypeOK
    <2> QED
        BY <2>1, <2>2, <2>3, <2>4, TakeCollects
<1>2. CASE PollDrain(t)
    <2>1. Drained(t) = completed[t] \cup cq[t] /\ Drained(t) \in SUBSET CqeType
        BY DrainedAll DEF TypeOK
    <2>2. cq'[t] = {} /\ backlog' = backlog /\ call' = call /\ pc[t] # "idle"
        BY <1>2 DEF PollDrain, TypeOK, callVars
    <2>3. ASSUME NEW e \in Drained(t), e.ud = MyId(t), Take(t, e, Drained(t))
          PROVE  Collects(t)
        <3>1. completed'[t] = Drained(t) \ {e}
            BY <2>3 DEF Take, TypeOK
        <3>2. Cqes(t)' = Cqes(t) \ {e}
            BY <2>1, <2>2, <2>3, <3>1 DEF Cqes, QuietInv, OneCopyOf
        <3> QED
            BY <2>1, <2>2, <2>3, <3>2, TakeCollects
    <2>4. ASSUME completed' = [completed EXCEPT ![t] = Drained(t)],
                 pc' = [pc EXCEPT ![t] = IF pc[t] = "poll" THEN "submit" ELSE "wait"],
                 UNCHANGED <<got, failed>>
          PROVE  Same(t)
        <3>1. Cqes(t)' = Cqes(t)
            BY <2>1, <2>2, <2>4 DEF Cqes, TypeOK
        <3>2. Busy(t)' = Busy(t)
            BY <2>2, <2>4 DEF Busy, TypeOK
        <3> QED
            BY <2>2, <2>4, <3>1, <3>2, Unseen DEF Same
    <2> QED
        BY <1>2, <2>3, <2>4 DEF PollDrain
<1> QED
    BY <1>1, <1>2

\* A completion of the current call is a first report on its operation.
LEMMA CompleteReports ==
    ASSUME TypeOK, NEW t \in Threads, OwnInv(t), QuietInv(t), Complete(t)
    PROVE  Same(t) \/ Reporting(t)
<1>1. PICK e \in inflight[t], res \in {"ok", "fail"} :
          Cqes(t)' = Cqes(t) \cup {Cqe(e, res)}
    <2>1. PICK e \in inflight[t], res \in {"ok", "fail"} :
              \/ cq' = [cq EXCEPT ![t] = @ \cup {Cqe(e, res)}] /\ UNCHANGED backlog
              \/ backlog' = [backlog EXCEPT ![t] = @ \cup {Cqe(e, res)}] /\ UNCHANGED cq
        BY DEF Complete
    <2>2. completed' = completed
        BY DEF Complete
    <2>3. Cqes(t)' = Cqes(t) \cup {Cqe(e, res)}
        BY <2>1, <2>2 DEF Cqes, TypeOK
    <2> QED
        BY <2>3
<1> DEFINE c == Cqe(e, res)
<1>2. /\ call' = call /\ got' = got /\ pc' = pc
    BY DEF Complete, callVars
<1>3. c.call = e.call /\ c.idx = e.idx /\ c.res = res
    BY DEF Cqe
<1>4. e \in Entries(t) /\ e \in Sqes(t) /\ EntryInOrder(t, e)
    BY DEF Entries, Sqes, OwnInv
<1>5. Reported(t) = {f \in Cqes(t) : f.call = call[t].serial}
                    \cup {got[t][i] : i \in 1 .. Len(got[t])}
    BY DEF Reported, Cqes
<1>6. Reported(t)' = {f \in Cqes(t) \cup {c} : f.call = call[t].serial}
                     \cup {got[t][i] : i \in 1 .. Len(got[t])}
    BY <1>1, <1>2 DEF Reported, Cqes
<1> HIDE DEF c
<1>7. CASE e.call # call[t].serial
    <2>1. Reported(t)' = Reported(t)
        BY <1>3, <1>5, <1>6, <1>7
    <2> QED
        BY <1>2, <2>1 DEF Same, Busy, Reports, Answer
<1>8. CASE e.call = call[t].serial
    <2>1. Reports(t)' = Reports(t) \cup {<<e.idx, res>>}
        <3>1. Reported(t)' = Reported(t) \cup {c}
            BY <1>3, <1>5, <1>6, <1>8
        <3> QED
            BY <1>3, <3>1 DEF Reports
    <2>2. e.idx \in 1 .. call[t].n
        <3>1. e.idx \in 1 .. pushed[t] /\ pushed[t] <= call[t].n
            BY <1>4, <1>8 DEF EntryInOrder, OwnInv, CallInOrder
        <3>2. pushed[t] \in Nat /\ call[t].n \in Nat
            BY DEF TypeOK
        <3> QED
            BY <3>1, <3>2
    <2>3. ASSUME NEW f \in Reported(t) PROVE f.idx # e.idx
        <3>1. CASE f \in Cqes(t) /\ f.call = call[t].serial
            <4>1. f.ud # e.ud
                BY <1>4, <3>1 DEF QuietInv, OneCopyOf, Disjoint
            <4>2. EntryInOrder(t, f)
                BY <3>1 DEF OwnInv, Entries, Cqes
            <4> QED
                BY <1>4, <1>8, <3>1, <4>1, <4>2 DEF EntryInOrder
        <3>2. CASE \E i \in 1 .. Len(got[t]) : f = got[t][i]
            <4>1. PICK i \in 1 .. Len(got[t]) : f = got[t][i]
                BY <3>2
            <4>2. f.idx = i
                BY <4>1 DEF OwnInv, ResultsOwn
            <4>3. e.idx > Len(got[t]) /\ e.idx \in Nat /\ Len(got[t]) \in Nat
                BY <1>4, <1>8, EntryNat DEF QuietInv, Untaken, TypeOK
            <4> QED
                BY <4>1, <4>2, <4>3
        <3> QED
            BY <1>5, <3>1, <3>2
    <2>4. \A p \in Reports(t) : p[1] # e.idx
        BY <2>3 DEF Reports
    <2> QED
        BY <1>2, <2>1, <2>2, <2>4 DEF Reporting, Busy, Answer
<1> QED
    BY <1>7, <1>8

LEMMA EngineStep ==
    ASSUME EngineInv, Rooms, NEW t \in Threads, StepOf(t)
    PROVE  Same(t) \/ Asks(t) \/ Reporting(t) \/ Collects(t) \/ GivesUp(t)
<1> USE DEF TypeOK, EngineInv
<1>1. CASE Start(t)
    BY <1>1, StartAsks
<1>2. CASE PollHit(t) \/ PollDrain(t)
    BY <1>2, PollsCollect
<1>3. CASE Complete(t)
    BY <1>3, CompleteReports
<1>4. ASSUME call' = call, got' = got, Cqes(t)' = Cqes(t),
             \/ pc'[t] # "idle" /\ pc[t] # "idle"
             \/ pc'[t] = pc[t]
             \/ pc'[t] = "idle" /\ pc[t] # "idle" /\ Faults # {}
      PROVE  Same(t) \/ GivesUp(t)
    BY <1>4, Unseen DEF Same, GivesUp, Busy
<1>5. CASE OpenRing(t) \/ OpenRingFails(t)
    BY <1>4, <1>5 DEF OpenRing, OpenRingFails, Abandon, Cqes, callVars, kernelVars
<1>6. CASE Push(t)
    <2>1. call' = call /\ got' = got /\ Cqes(t)' = Cqes(t)
        BY <1>6 DEF Push, Cqes, callVars, kernelVars
    <2>2. ~(pc[t] = "repush" /\ SqFull(t))
        BY FS_CardinalityType, RingSizeType DEF Rooms, RoomInv, SqFull
    <2>3. pc[t] # "idle" /\ pc'[t] # "idle"
        BY <1>6, <2>2 DEF Push, AfterPush
    <2> QED
        BY <1>4, <2>1, <2>3
<1>7. CASE EnterSubmit(t)
    BY <1>4, <1>7 DEF EnterSubmit, Cqes, callVars
<1>8. CASE EnterShort(t)
    BY <1>4, <1>8 DEF EnterShort, Abandon, Return, Waits, Cqes, callVars
<1>9. CASE EnterWake(t) \/ EnterInterrupted(t)
    <2>1. pc[t] # "idle"
        BY <1>9 DEF EnterWake, EnterInterrupted, Rooms, RoomInv, Waits
    <2> QED
        BY <1>4, <1>9, <2>1 DEF EnterWake, EnterInterrupted, Abandon, Return, Cqes,
           callVars, kernelVars
<1>10. CASE Submit(t)
    BY <1>4, <1>10 DEF Submit, SubmitOnly, Cqes, callVars
<1>11. CASE flush_thread_ring(t)
    BY <1>4, <1>11 DEF flush_thread_ring, SubmitOnly, Cqes, callVars
<1>12. CASE FlushBacklog(t)
    <2>1. PICK e \in backlog[t] : /\ backlog' = [backlog EXCEPT ![t] = @ \ {e}]
                                  /\ cq' = [cq EXCEPT ![t] = @ \cup {e}]
        BY <1>12 DEF FlushBacklog
    <2>2. Cqes(t)' = Cqes(t)
        BY <1>12, <2>1 DEF FlushBacklog, Cqes
    <2> QED
        BY <1>4, <1>12, <2>2 DEF FlushBacklog, callVars
<1> QED
    BY <1>1, <1>2, <1>3, <1>5, <1>6, <1>7, <1>8, <1>9, <1>10, <1>11, <1>12
       DEF StepOf, Run, Fault

\* Every step of the engine is one of the service or is invisible to its callers, for any
\* number of threads, ring size, batch size and faults.
THEOREM Implementation == Spec => ImplementsService
<1>1. Init => Service!Init
    <2> SUFFICES ASSUME Init PROVE Service!Init
        OBVIOUS
    <2>1. \A t \in Threads : Reported(t) = {} /\ got[t] = <<>> /\ call[t].n = 0 /\ pc[t] = "idle"
        BY DEF Init, Reported, NoCall
    <2>2. \A t \in Threads : Reports(t) = {} /\ Answer(t) = <<>>
        BY <2>1 DEF Reports, Answer
    <2>3. \A t \in Threads : (pc[t] # "idle") = FALSE
        BY <2>1
    <2> QED
        BY <2>1, <2>2, <2>3 DEF Service!Init, Reports, Answer
<1>2. EngineInv /\ Rooms /\ [Next]_vars => [Service!Next]_(Service!vars)
    <2> SUFFICES ASSUME EngineInv, Rooms, [Next]_vars
                 PROVE  [Service!Next]_(Service!vars)
        OBVIOUS
    <2>1. CASE UNCHANGED vars
        BY <2>1 DEF vars, Service!vars, Reported
    <2>2. ASSUME NEW t \in Threads, StepOf(t) PROVE [Service!Next]_(Service!vars)
        <3>1. ASSUME NEW u \in Threads, u # t PROVE Same(u)
            <4>1. Untouched(u)
                BY <2>2, <3>1, StepIsLocal DEF EngineInv
            <4>2. call'[u] = call[u] /\ got'[u] = got[u] /\ Cqes(u)' = Cqes(u)
                  /\ Busy(u)' = Busy(u)
                BY <4>1 DEF Untouched, Cqes, Busy
            <4> QED
                BY <4>2, Unseen DEF Same
        <3> QED
            BY <2>2, <3>1, EngineStep, StepOfService
    <2> QED
        BY <2>1, <2>2 DEF Next, StepOf
<1> QED
    BY <1>1, <1>2, EngineInvariance, RoomInvariance, PTL
       DEF Spec, ImplementsService, Service!Spec

----------------------------------------------------------------------------
(***************************************************************************)
(* What the engine waits for, for every number of threads, ring size,      *)
(* batch size and set of faults: a thread that is in the kernel has enough *)
(* operations outstanding to be woken.  And, where no wait is cut short    *)
(* and a batch fits the completion queue, no operation outlives its call.  *)
(***************************************************************************)

Polling == {"poll", "submit", "repoll", "wait"}

Outstanding(t) == inflight[t] \cup cq[t] \cup backlog[t]

Has(S, t, i) == \E e \in S : e.call = call[t].serial /\ e.idx = i

\* Every operation of the call that was pushed and not taken is somewhere.
Present(t) == \A i \in Len(got[t]) + 1 .. pushed[t] : Has(Entries(t), t, i)

\* Nothing of the call is drained before it polls.
Undrained(t) == got[t] = <<>> /\ \A e \in completed[t] : e.call # call[t].serial

WaitInv(t) ==
    /\ IsFiniteSet(inflight[t]) /\ IsFiniteSet(cq[t]) /\ IsFiniteSet(backlog[t])
    /\ Present(t)
    /\ pc[t] \in {"push", "full", "repush", "flush"} => Undrained(t)
    /\ pc[t] \in {"flush"} \cup Polling => pushed[t] = call[t].n
    /\ pc[t] \in {"flush"} \cup Polling => Len(got[t]) < call[t].n
    /\ pc[t] \in {"submit", "repoll", "wait"} => \A e \in completed[t] : e.ud # MyId(t)
    /\ pc[t] = "full" => sq[t] \cup Outstanding(t) # {}

\* What a step of the kernel, or of the thread's way into the kernel and back, keeps.
LEMMA WaitMove ==
    ASSUME TypeOK, NEW t \in Threads, WaitInv(t),
           IsFiniteSet(inflight'[t]), IsFiniteSet(cq'[t]), IsFiniteSet(backlog'[t]),
           UNCHANGED <<call, got, pushed, completed>>,
           \A e \in Entries(t) : \E f \in Entries(t)' : e.call = f.call /\ e.idx = f.idx,
           sq[t] \cup Outstanding(t) # {} => sq'[t] \cup Outstanding(t)' # {},
           \/ pc'[t] = pc[t]
           \/ pc'[t] = "idle"
           \/ pc[t] = "full" /\ pc'[t] = "repush"
           \/ pc[t] = "push" /\ pc'[t] = "full" /\ sq[t] # {}
           \/ pc[t] \in {"flush", "wait"} /\ pc'[t] = "poll"
           \/ pc[t] = "submit" /\ pc'[t] = "repoll"
    PROVE  WaitInv(t)'
<1>1. Present(t)'
    BY DEF WaitInv, Present, Has
<1>2. MyId(t)' = MyId(t)
    BY DEF MyId
<1>3. Undrained(t)' = Undrained(t)
    BY DEF Undrained
<1> QED
    BY <1>1, <1>2, <1>3 DEF WaitInv, Polling

LEMMA WaitFrame ==
    ASSUME TypeOK, NEW u \in Threads, WaitInv(u), Untouched(u)
    PROVE  WaitInv(u)'
BY DEF WaitInv, Untouched, Present, Has, Entries, Undrained, MyId, Outstanding

LEMMA WaitBegin ==
    ASSUME TypeOK, NEW t \in Threads, OwnInv(t), WaitInv(t), Start(t)
    PROVE  WaitInv(t)'
<1>1. PICK kind \in Kinds, n \in Nat \ {0}, batch \in BOOLEAN : Begin(t, kind, n, batch)
    BY StartBegins
<1>2. /\ call'[t].serial = call[t].serial + 1
      /\ got'[t] = <<>> /\ pushed'[t] = 0 /\ pc'[t] = "push"
      /\ UNCHANGED <<inflight, cq, backlog, completed>>
    BY <1>1 DEF Begin, TypeOK, kernelVars
<1>3. \A e \in completed[t] : e.call \in Nat /\ e.call <= call[t].serial
    BY EntryNat DEF OwnInv, EntryInOrder, Entries
<1>4. Undrained(t)'
    <2>1. call[t].serial \in Nat
        BY DEF TypeOK
    <2> QED
        BY <1>2, <1>3, <2>1 DEF Undrained
<1>5. Present(t)'
    BY <1>2 DEF Present
<1> QED
    BY <1>2, <1>4, <1>5 DEF WaitInv, Polling

LEMMA WaitPush ==
    ASSUME TypeOK, NEW t \in Threads, OwnInv(t), RoomInv(t), WaitInv(t), Push(t)
    PROVE  WaitInv(t)'
<1>1. CASE SqFull(t)
    <2>1. sq[t] # {}
        BY <1>1, FS_EmptySet, RingSizeType DEF SqFull
    <2>2. /\ UNCHANGED <<call, got, pushed, completed, sq, inflight, cq, backlog>>
          /\ Entries(t)' = Entries(t) /\ Outstanding(t)' = Outstanding(t)
        BY <1>1 DEF Push, callVars, kernelVars, Entries, Outstanding
    <2>3. (pc[t] = "push" /\ pc'[t] = "full") \/ pc'[t] = "idle"
        BY <1>1 DEF Push, Abandon, TypeOK
    <2> QED
        BY <2>1, <2>2, <2>3, WaitMove DEF WaitInv
<1>2. CASE ~SqFull(t)
    <2> DEFINE x == Sqe(t, pushed[t] + 1)
    <2>1. /\ sq'[t] = sq[t] \cup {x} /\ pushed'[t] = pushed[t] + 1 /\ pc'[t] = AfterPush(t)
          /\ UNCHANGED <<call, got, completed, inflight, cq, backlog>>
          /\ pc[t] \in {"push", "repush"}
        BY <1>2 DEF Push, callVars, kernelVars, TypeOK
    <2>2. pushed[t] \in Nat /\ call[t].n \in Nat /\ pushed[t] < call[t].n
        BY <2>1 DEF OwnInv, CallInOrder, TypeOK
    <2>3. Undrained(t) /\ Undrained(t)' /\ Len(got[t]) = 0
        BY <2>1 DEF WaitInv, Undrained
    <2>4. x.call = call[t].serial /\ x.idx = pushed[t] + 1
        BY DEF Sqe
    <2> HIDE DEF x
    <2>5. Entries(t)' = Entries(t) \cup {x}
        BY <2>1 DEF Entries
    <2>6. Present(t)'
        <3> SUFFICES ASSUME NEW i \in 1 .. pushed[t] + 1 PROVE Has(Entries(t), t, i)'
            BY <2>1, <2>3 DEF Present
        <3>1. CASE i \in 1 .. pushed[t]
            BY <2>1, <2>3, <2>5, <3>1 DEF WaitInv, Present, Has
        <3>2. CASE i = pushed[t] + 1
            BY <2>1, <2>4, <2>5, <3>2 DEF Has
        <3> QED
            BY <2>2, <3>1, <3>2
    <2>7. /\ pc'[t] \in {"push", "flush", "poll"}
          /\ pc'[t] # "push" => pushed[t] + 1 = call[t].n
        BY <2>1, <2>2 DEF AfterPush
    <2> QED
        BY <2>1, <2>2, <2>3, <2>6, <2>7 DEF WaitInv, Polling
<1> QED
    BY <1>1, <1>2

LEMMA WaitEnter ==
    ASSUME TypeOK, NEW t \in Threads, RoomInv(t), WaitInv(t),
           \/ EnterSubmit(t) \/ EnterShort(t) \/ EnterWake(t) \/ EnterInterrupted(t)
           \/ Submit(t) \/ flush_thread_ring(t)
    PROVE  WaitInv(t)'
<1> USE DEF TypeOK
<1>1. ASSUME UNCHANGED <<call, got, pushed, completed, cq, backlog>>,
             NEW taken \in SUBSET sq[t],
             inflight'[t] = inflight[t] \cup taken, sq'[t] = sq[t] \ taken,
             \/ pc'[t] = pc[t]
             \/ pc'[t] = "idle"
             \/ pc[t] = "full" /\ pc'[t] = "repush"
             \/ pc[t] \in {"flush", "wait"} /\ pc'[t] = "poll"
             \/ pc[t] = "submit" /\ pc'[t] = "repoll"
      PROVE  WaitInv(t)'
    <2> HIDE DEF TypeOK
    <2>1. IsFiniteSet(inflight'[t])
        BY <1>1, FS_Subset, FS_Union DEF RoomInv, WaitInv
    <2>2. Entries(t)' = Entries(t) /\ sq'[t] \cup Outstanding(t)' = sq[t] \cup Outstanding(t)
        BY <1>1 DEF Entries, Outstanding
    <2> QED
        BY <1>1, <2>1, <2>2, WaitMove DEF WaitInv
<1>2. CASE EnterSubmit(t)
    <2>1. inflight'[t] = inflight[t] \cup sq[t] /\ sq'[t] = sq[t] \ sq[t]
        BY <1>2 DEF EnterSubmit
    <2> QED
        BY <1>1, <1>2, <2>1 DEF EnterSubmit, callVars
<1>3. CASE EnterShort(t)
    <2>1. PICK taken \in SUBSET sq[t] :
              /\ inflight'[t] = inflight[t] \cup taken /\ sq'[t] = sq[t] \ taken
              /\ IF taken = {} THEN Abandon(t) ELSE Return(t)
        BY <1>3 DEF EnterShort
    <2>2. pc[t] \in Waits /\ UNCHANGED <<call, got, pushed, completed, cq, backlog>>
        BY <1>3 DEF EnterShort, callVars
    <2> QED
        BY <1>1, <2>1, <2>2 DEF Abandon, Return, Waits
<1>4. CASE EnterWake(t) \/ EnterInterrupted(t)
    <2>1. pc[t] \in Waits
        BY <1>4 DEF EnterWake, EnterInterrupted, RoomInv
    <2>2. /\ UNCHANGED <<call, got, pushed, completed, cq, backlog, sq, inflight>>
          /\ Abandon(t) \/ Return(t)
        BY <1>4 DEF EnterWake, EnterInterrupted, callVars, kernelVars
    <2>3. inflight'[t] = inflight[t] \cup {} /\ sq'[t] = sq[t] \ {} /\ {} \in SUBSET sq[t]
        BY <2>2
    <2>4. \/ pc'[t] = "idle"
          \/ pc[t] = "full" /\ pc'[t] = "repush"
          \/ pc[t] \in {"flush", "wait"} /\ pc'[t] = "poll"
        BY <2>1, <2>2 DEF Abandon, Return, Waits
    <2> HIDE DEF TypeOK
    <2> QED
        BY <1>1, <2>2, <2>3, <2>4
<1>5. CASE Submit(t) \/ flush_thread_ring(t)
    <2>1. PICK taken \in SUBSET sq[t] :
              inflight'[t] = inflight[t] \cup taken /\ sq'[t] = sq[t] \ taken
        BY <1>5 DEF Submit, flush_thread_ring, SubmitOnly
    <2> QED
        BY <1>1, <1>5, <2>1 DEF Submit, flush_thread_ring, callVars
<1> QED
    BY <1>2, <1>3, <1>4, <1>5

LEMMA FiniteMove ==
    ASSUME NEW t \in Threads, WaitInv(t), NEW x
    PROVE  /\ IsFiniteSet(inflight[t]) /\ IsFiniteSet(inflight[t] \ {x})
           /\ IsFiniteSet(cq[t]) /\ IsFiniteSet(cq[t] \cup {x})
           /\ IsFiniteSet(backlog[t]) /\ IsFiniteSet(backlog[t] \cup {x})
           /\ IsFiniteSet(backlog[t] \ {x})
<1>1. IsFiniteSet(inflight[t]) /\ IsFiniteSet(cq[t]) /\ IsFiniteSet(backlog[t])
    BY DEF WaitInv
<1>2. IsFiniteSet(cq[t] \cup {x}) /\ IsFiniteSet(backlog[t] \cup {x})
    BY <1>1, FS_AddElement
<1>3. IsFiniteSet(inflight[t] \ {x}) /\ IsFiniteSet(backlog[t] \ {x})
    BY <1>1, FS_RemoveElement
<1> QED
    BY <1>1, <1>2, <1>3

LEMMA WaitKernel ==
    ASSUME TypeOK, NEW t \in Threads, WaitInv(t), Complete(t) \/ FlushBacklog(t)
    PROVE  WaitInv(t)'
<1> DEFINE Kept(S, T) == \A e \in S : \E f \in T : e.call = f.call /\ e.idx = f.idx
<1>1. UNCHANGED <<call, got, pushed, completed, pc, sq>>
    BY DEF Complete, FlushBacklog, callVars
<1>2. ASSUME IsFiniteSet(inflight'[t]), IsFiniteSet(cq'[t]), IsFiniteSet(backlog'[t]),
             Kept(Outstanding(t), Outstanding(t)')
      PROVE  WaitInv(t)'
    <2>1. Kept(Entries(t), Entries(t)')
        BY <1>1, <1>2 DEF Entries, Outstanding
    <2>2. sq[t] \cup Outstanding(t) # {} => sq'[t] \cup Outstanding(t)' # {}
        BY <1>1, <1>2
    <2> QED
        BY <1>1, <1>2, <2>1, <2>2, WaitMove
<1>3. CASE Complete(t)
    <2>1. PICK e \in inflight[t], res \in {"ok", "fail"} :
              /\ inflight' = [inflight EXCEPT ![t] = @ \ {e}]
              /\ \/ cq' = [cq EXCEPT ![t] = @ \cup {Cqe(e, res)}] /\ UNCHANGED backlog
                 \/ backlog' = [backlog EXCEPT ![t] = @ \cup {Cqe(e, res)}] /\ UNCHANGED cq
        BY <1>3 DEF Complete
    <2> DEFINE c == Cqe(e, res)
    <2>2. c.call = e.call /\ c.idx = e.idx
        BY DEF Cqe
    <2> HIDE DEF c
    <2>3. /\ inflight'[t] = inflight[t] \ {e}
          /\ \/ cq'[t] = cq[t] \cup {c} /\ backlog'[t] = backlog[t]
             \/ backlog'[t] = backlog[t] \cup {c} /\ cq'[t] = cq[t]
        BY <2>1 DEF TypeOK, c
    <2>4. Kept(Outstanding(t), Outstanding(t)')
        BY <2>2, <2>3 DEF Outstanding
    <2>5. IsFiniteSet(inflight'[t]) /\ IsFiniteSet(cq'[t]) /\ IsFiniteSet(backlog'[t])
        BY <2>3, FiniteMove
    <2> QED
        BY <1>2, <2>4, <2>5
<1>4. CASE FlushBacklog(t)
    <2>1. PICK e \in backlog[t] : /\ backlog' = [backlog EXCEPT ![t] = @ \ {e}]
                                  /\ cq' = [cq EXCEPT ![t] = @ \cup {e}]
        BY <1>4 DEF FlushBacklog
    <2>2. backlog'[t] = backlog[t] \ {e} /\ cq'[t] = cq[t] \cup {e} /\ inflight' = inflight
        BY <1>4, <2>1 DEF FlushBacklog, TypeOK
    <2>3. Kept(Outstanding(t), Outstanding(t)')
        BY <2>2 DEF Outstanding
    <2>4. IsFiniteSet(inflight'[t]) /\ IsFiniteSet(cq'[t]) /\ IsFiniteSet(backlog'[t])
        BY <2>2, FiniteMove
    <2> QED
        BY <1>2, <2>3, <2>4
<1> QED
    BY <1>3, <1>4

\* Taking the result of the next operation.
LEMMA WaitTake ==
    ASSUME TypeOK, NEW t \in Threads, OwnInv(t), QuietInv(t), WaitInv(t), pc[t] \in Polling,
           NEW pool \in SUBSET CqeType, NEW e \in pool, e \in Cqes(t),
           e.ud = MyId(t), Take(t, e, pool), Entries(t)' = Entries(t) \ {e},
           IsFiniteSet(cq'[t]), UNCHANGED <<call, pushed, inflight, backlog>>
    PROVE  WaitInv(t)'
<1>1. /\ got'[t] = Append(got[t], e) /\ got[t] \in Seq(CqeType) /\ e \in CqeType
      /\ call[t].n \in Nat /\ pushed[t] \in Nat
    BY DEF Take, TypeOK
<1>2. Len(got'[t]) = Len(got[t]) + 1 /\ Len(got[t]) \in Nat
    BY <1>1
<1>3. e.call = call[t].serial => e.idx = Len(got[t]) + 1
    <2>1. EntryInOrder(t, e) /\ call[t].start \in Nat /\ e.idx \in Nat
        BY EntryNat DEF OwnInv, Entries, Cqes, TypeOK
    <2> QED
        BY <1>1, <1>2, <2>1 DEF EntryInOrder, MyId
<1>4. Present(t)'
    <2> SUFFICES ASSUME NEW i \in Len(got[t]) + 1 + 1 .. pushed[t]
                 PROVE  Has(Entries(t), t, i)'
        BY <1>2 DEF Present
    <2>1. PICK f \in Entries(t) : f.call = call[t].serial /\ f.idx = i
        BY <1>1, <1>2 DEF WaitInv, Present, Has
    <2>2. f # e
        BY <1>2, <1>3, <2>1
    <2> QED
        BY <2>1, <2>2, Zenon DEF Has
<1>5. \/ pc'[t] = "idle"
      \/ pc'[t] = "poll" /\ Len(got[t]) + 1 # call[t].n
    BY DEF Take, Abandon, TypeOK
<1>6. pushed[t] = call[t].n /\ Len(got[t]) < call[t].n
    BY DEF WaitInv
<1> QED
    BY <1>1, <1>2, <1>4, <1>5, <1>6 DEF WaitInv, Polling

\* A completion in the map, or in the queue, is nowhere else.
LEMMA OnlyCompleted ==
    ASSUME NEW t \in Threads, QuietInv(t)
    PROVE  /\ \A e \in Cqes(t) : e \notin sq[t] \cup inflight[t]
           /\ \A e \in completed[t] : e \notin cq[t] \cup backlog[t]
           /\ \A e \in cq[t] : e \notin backlog[t]
BY DEF QuietInv, OneCopyOf, Sqes, Cqes, Disjoint

LEMMA WaitPolls ==
    ASSUME TypeOK, NEW t \in Threads, OwnInv(t), QuietInv(t), WaitInv(t),
           PollHit(t) \/ PollDrain(t)
    PROVE  WaitInv(t)'
<1>1. CASE PollHit(t)
    <2>1. PICK e \in completed[t] : e.ud = MyId(t) /\ Take(t, e, completed[t])
        BY <1>1 DEF PollHit
    <2>2. /\ UNCHANGED <<call, pushed, inflight, cq, backlog>>
          /\ sq' = sq /\ completed'[t] = completed[t] \ {e} /\ pc[t] = "poll"
        BY <1>1, <2>1 DEF PollHit, Take, TypeOK, callVars, kernelVars
    <2>3. Entries(t)' = Entries(t) \ {e}
        BY <2>2, OnlyCompleted DEF Entries, Cqes
    <2>4. completed[t] \in SUBSET CqeType /\ e \in Cqes(t)
        BY DEF TypeOK, Cqes
    <2>5. IsFiniteSet(cq'[t])
        BY <2>2 DEF WaitInv
    <2> QED
        BY <2>1, <2>2, <2>3, <2>4, <2>5, WaitTake DEF Polling
<1>2. CASE PollDrain(t)
    <2>1. Drained(t) = completed[t] \cup cq[t] /\ Drained(t) \in SUBSET CqeType
        BY DrainedAll DEF TypeOK
    <2>2. /\ UNCHANGED <<call, pushed, inflight, backlog, sq>>
          /\ cq'[t] = {} /\ pc[t] \in {"poll", "repoll"}
        BY <1>2 DEF PollDrain, TypeOK, callVars
    <2>3. IsFiniteSet(cq'[t])
        BY <2>2, FS_EmptySet
    <2>4. ASSUME NEW e \in Drained(t), e.ud = MyId(t), Take(t, e, Drained(t))
          PROVE  WaitInv(t)'
        <3>1. completed'[t] = Drained(t) \ {e}
            BY <2>4 DEF Take, TypeOK
        <3>2. e \in Cqes(t) /\ e \notin backlog[t]
            BY <2>1 DEF Cqes, QuietInv, OneCopyOf
        <3>3. Entries(t)' = Entries(t) \ {e}
            BY <2>1, <2>2, <3>1, <3>2, OnlyCompleted DEF Entries
        <3> QED
            BY <2>1, <2>2, <2>3, <2>4, <3>2, <3>3, WaitTake DEF Polling
    <2>5. ASSUME \A e \in Drained(t) : e.ud # MyId(t),
                 completed' = [completed EXCEPT ![t] = Drained(t)],
                 pc' = [pc EXCEPT ![t] = IF pc[t] = "poll" THEN "submit" ELSE "wait"],
                 UNCHANGED <<got, failed>>
          PROVE  WaitInv(t)'
        <3>1. completed'[t] = Drained(t) /\ pc'[t] \in {"submit", "wait"} /\ got' = got
            BY <2>2, <2>5 DEF TypeOK
        <3>2. Entries(t)' = Entries(t)
            BY <2>1, <2>2, <3>1 DEF Entries
        <3>3. Present(t)' /\ MyId(t)' = MyId(t)
            BY <2>2, <3>1, <3>2 DEF WaitInv, Present, Has, MyId
        <3> QED
            BY <2>2, <2>3, <2>5, <3>1, <3>3 DEF WaitInv, Polling
    <2> QED
        BY <1>2, <2>4, <2>5 DEF PollDrain
<1> QED
    BY <1>1, <1>2

LEMMA WaitStep ==
    ASSUME TypeOK, NEW t \in Threads, OwnInv(t), QuietInv(t), RoomInv(t), WaitInv(t), StepOf(t)
    PROVE  WaitInv(t)'
<1>1. CASE OpenRing(t) \/ OpenRingFails(t)
    <2>1. /\ UNCHANGED <<call, got, pushed, completed, sq, inflight, cq, backlog>>
          /\ pc'[t] = pc[t] \/ pc'[t] = "idle"
        BY <1>1 DEF OpenRing, OpenRingFails, Abandon, TypeOK, callVars, kernelVars
    <2>2. Entries(t)' = Entries(t) /\ Outstanding(t)' = Outstanding(t)
        BY <2>1 DEF Entries, Outstanding
    <2> QED
        BY <2>1, <2>2, WaitMove DEF WaitInv
<1> QED
    BY <1>1, WaitBegin, WaitPush, WaitEnter, WaitPolls, WaitKernel DEF StepOf, Run, Fault

Waiting == \A t \in Threads : WaitInv(t)

\* Every operation that was pushed and whose result was not taken is in the ring, in the
\* kernel or in the map, and a call polls only when it has pushed all of its own.
THEOREM WaitInvariance == Spec => []Waiting
<1>1. Init => Waiting
    BY FS_EmptySet DEF Init, Waiting, WaitInv, Present, Entries, NoCall, Polling
<1>2. EngineInv /\ Rooms /\ Waiting /\ [Next]_vars => Waiting'
    <2> SUFFICES ASSUME EngineInv, Rooms, Waiting, [Next]_vars, NEW u \in Threads
                 PROVE  WaitInv(u)'
        BY DEF Waiting
    <2>1. CASE UNCHANGED vars
        BY <2>1, WaitFrame DEF Waiting, vars, Untouched, EngineInv
    <2>2. ASSUME NEW t \in Threads, StepOf(t) PROVE WaitInv(u)'
        <3>1. CASE u = t
            BY <2>2, <3>1, WaitStep DEF Waiting, EngineInv, Rooms
        <3>2. CASE u # t
            BY <2>2, <3>2, StepIsLocal, WaitFrame DEF Waiting, EngineInv
        <3> QED
            BY <3>1, <3>2
    <2> QED
        BY <2>1, <2>2 DEF Next, StepOf
<1> QED
    BY <1>1, <1>2, EngineInvariance, RoomInvariance, PTL DEF Spec

----------------------------------------------------------------------------
(* Enough to be woken. *)

\* The operations of a call that are all outstanding are at least as many as the call has.
LEMMA ManyOutstanding ==
    ASSUME NEW S, IsFiniteSet(S), NEW n \in Nat, NEW k,
           \A i \in 1 .. n : \E e \in S : e.call = k /\ e.idx = i
    PROVE  Cardinality(S) >= n
<1> DEFINE T == {e \in S : e.call = k /\ e.idx \in 1 .. n}
           f == [e \in T |-> e.idx]
<1>1. IsFiniteSet(T) /\ Cardinality(T) <= Cardinality(S)
    BY FS_Subset
<1>2. f \in Surjection(T, 1 .. n)
    <2>1. f \in [T -> 1 .. n]
        OBVIOUS
    <2>2. \A i \in 1 .. n : \E e \in T : f[e] = i
        OBVIOUS
    <2> QED
        BY <2>1, <2>2 DEF Surjection
<1>3. IsFiniteSet(1 .. n) /\ Cardinality(1 .. n) = n
    BY FS_Interval
<1>4. Cardinality(1 .. n) <= Cardinality(T)
    <2> HIDE DEF T, f
    <2> QED
        BY <1>1, <1>2, FS_Surjection
<1>5. Cardinality(S) \in Nat /\ Cardinality(T) \in Nat
    BY <1>1, FS_CardinalityType
<1> QED
    BY <1>1, <1>3, <1>4, <1>5

LEMMA UnionAtMost ==
    ASSUME NEW S, NEW T, IsFiniteSet(S), IsFiniteSet(T)
    PROVE  IsFiniteSet(S \cup T) /\ Cardinality(S \cup T) <= Cardinality(S) + Cardinality(T)
<1>1. IsFiniteSet(S \cap T)
    BY FS_Intersection
<1>2. Cardinality(S) \in Nat /\ Cardinality(T) \in Nat /\ Cardinality(S \cap T) \in Nat
    BY <1>1, FS_CardinalityType
<1>3. /\ IsFiniteSet(S \cup T)
      /\ Cardinality(S \cup T) = Cardinality(S) + Cardinality(T) - Cardinality(S \cap T)
    BY FS_Union
<1> QED
    BY <1>2, <1>3

LEMMA SumOutstanding ==
    ASSUME NEW t \in Threads, WaitInv(t)
    PROVE  /\ IsFiniteSet(Outstanding(t)) /\ Cardinality(Outstanding(t)) \in Nat
           /\ Cardinality(cq[t]) + Cardinality(backlog[t]) + Cardinality(inflight[t])
                  >= Cardinality(Outstanding(t))
<1>1. IsFiniteSet(inflight[t]) /\ IsFiniteSet(cq[t]) /\ IsFiniteSet(backlog[t])
    BY DEF WaitInv
<1> DEFINE A == inflight[t] \cup cq[t]
<1>2. IsFiniteSet(A) /\ Cardinality(A) <= Cardinality(inflight[t]) + Cardinality(cq[t])
    BY <1>1, UnionAtMost
<1>3. /\ IsFiniteSet(A \cup backlog[t])
      /\ Cardinality(A \cup backlog[t]) <= Cardinality(A) + Cardinality(backlog[t])
    <2> HIDE DEF A
    <2> QED
        BY <1>1, <1>2, UnionAtMost
<1>4. Outstanding(t) = A \cup backlog[t]
    BY DEF Outstanding
<1>5. /\ Cardinality(A) \in Nat /\ Cardinality(inflight[t]) \in Nat
      /\ Cardinality(cq[t]) \in Nat /\ Cardinality(backlog[t]) \in Nat
      /\ Cardinality(A \cup backlog[t]) \in Nat
    BY <1>1, <1>2, <1>3, FS_CardinalityType
<1> HIDE DEF A
<1> QED
    BY <1>2, <1>3, <1>4, <1>5

LEMMA EnoughToWake ==
    ASSUME EngineInv, Rooms, Waiting, NEW t \in Threads, entered[t] # "out"
    PROVE  Cardinality(Outstanding(t)) >= Want(t)
<1>1. sq[t] = {} /\ pc[t] \in Waits /\ WaitInv(t) /\ OwnInv(t) /\ TypeOK
    BY DEF Rooms, RoomInv, Waiting, EngineInv
<1>2. IsFiniteSet(Outstanding(t)) /\ Cardinality(Outstanding(t)) \in Nat
    BY <1>1, SumOutstanding
<1>3. CASE pc[t] = "flush"
    <2>1. Undrained(t) /\ pushed[t] = call[t].n /\ Present(t) /\ Len(got[t]) = 0
        BY <1>1, <1>3 DEF WaitInv, Undrained
    <2>2. \A i \in 1 .. call[t].n : \E e \in Outstanding(t) : e.call = call[t].serial /\ e.idx = i
        BY <1>1, <2>1 DEF Present, Has, Undrained, Entries, Outstanding
    <2>3. call[t].n \in Nat /\ CqSize \in Nat
        BY <1>1, RingSizeType DEF TypeOK
    <2>4. Cardinality(Outstanding(t)) >= call[t].n
        BY <1>2, <2>2, <2>3, ManyOutstanding
    <2> QED
        BY <1>2, <1>3, <2>3, <2>4 DEF Want
<1>4. ASSUME Outstanding(t) # {}, pc[t] # "flush" PROVE Cardinality(Outstanding(t)) >= Want(t)
    BY <1>2, <1>4, FS_EmptySet DEF Want
<1>5. CASE pc[t] = "full"
    BY <1>1, <1>4, <1>5 DEF WaitInv
<1>6. CASE pc[t] = "wait"
    <2>1. /\ Len(got[t]) < call[t].n /\ pushed[t] = call[t].n
          /\ Present(t) /\ \A e \in completed[t] : e.ud # MyId(t)
        BY <1>1, <1>6 DEF WaitInv, Polling
    <2>2. Len(got[t]) \in Nat /\ pushed[t] \in Nat /\ call[t].start \in Nat
        BY <1>1 DEF TypeOK
    <2>3. PICK e \in Entries(t) : e.call = call[t].serial /\ e.idx = Len(got[t]) + 1
        BY <2>1, <2>2 DEF Present, Has
    <2>4. e.ud = MyId(t)
        BY <1>1, <2>2, <2>3 DEF OwnInv, EntryInOrder, MyId
    <2>5. e \in Outstanding(t)
        BY <1>1, <2>1, <2>3, <2>4 DEF Entries, Outstanding
    <2> QED
        BY <1>4, <1>6, <2>5
<1> QED
    BY <1>1, <1>3, <1>5, <1>6 DEF Waits

\* No thread waits in the kernel for more completions than there are operations left to
\* complete, for any ring size, batch size and faults: not after a batch larger than the
\* ring, not with the leftovers of a failed call, not after an interrupted wait.
THEOREM NeverStuck == Spec => []NoStuckWait
<1>1. EngineInv /\ Rooms /\ Waiting => NoStuckWait
    <2> SUFFICES ASSUME EngineInv, Rooms, Waiting, NEW t \in Threads, entered[t] # "out"
                 PROVE  Cardinality(cq[t]) + Cardinality(backlog[t]) + Cardinality(inflight[t])
                            >= Want(t)
        BY DEF NoStuckWait
    <2>1. Cardinality(Outstanding(t)) >= Want(t)
        BY EnoughToWake
    <2>2. /\ IsFiniteSet(Outstanding(t)) /\ Cardinality(Outstanding(t)) \in Nat
          /\ Cardinality(cq[t]) + Cardinality(backlog[t]) + Cardinality(inflight[t])
                  >= Cardinality(Outstanding(t))
        BY SumOutstanding DEF Waiting
    <2>3. Want(t) \in Nat
        BY RingSizeType DEF Want, EngineInv, TypeOK
    <2>4. /\ Cardinality(cq[t]) \in Nat /\ Cardinality(backlog[t]) \in Nat
          /\ Cardinality(inflight[t]) \in Nat
        BY FS_CardinalityType DEF Waiting, WaitInv
    <2> QED
        BY <2>1, <2>2, <2>3, <2>4
<1> QED
    BY <1>1, EngineInvariance, RoomInvariance, WaitInvariance, PTL

----------------------------------------------------------------------------
(* No operation outlives its call, so the kernel never holds a pointer     *)
(* into a buffer that its caller has freed.  The argument counts: the      *)
(* operations of a call have different indices, so a batch that has been   *)
(* waited for has all of them in the completion queue and none elsewhere.  *)


Healthy == Faults \subseteq {"setup"} /\ MaxBatch <= CqSize

\* What the ring itself holds of the thread; the map is not part of it.
InRing(t) == sq[t] \cup inflight[t] \cup cq[t] \cup backlog[t]

BufInv(t) ==
    /\ call[t].n <= MaxBatch /\ (~call[t].batch => call[t].n <= 1)
    /\ \A e \in InRing(t) : e.call = call[t].serial
    /\ ~ring_up[t] \/ pc[t] = "idle" => InRing(t) = {}
    /\ call[t].batch /\ pc[t] \in Polling =>
          /\ sq[t] = {} /\ inflight[t] = {} /\ backlog[t] = {}
          /\ cq[t] # {} => \A e \in completed[t] : e.call # call[t].serial

LEMMA RingStays ==
    ASSUME TypeOK, NEW t \in Threads, StepOf(t), NEW u \in Threads
    PROVE  ring_up'[u] \/ ring_up'[u] = ring_up[u]
<1>1. UNCHANGED ring_up \/ ring_up' = [ring_up EXCEPT ![t] = TRUE]
    BY StartBegins DEF StepOf, Run, Fault, Begin, OpenRing, OpenRingFails, Push,
       EnterSubmit, EnterShort, EnterWake, EnterInterrupted, PollHit, PollDrain, Submit,
       flush_thread_ring, Complete, FlushBacklog
<1> QED
    BY <1>1 DEF TypeOK

LEMMA BufFrame ==
    ASSUME NEW t \in Threads, BufInv(t), Untouched(t),
           ring_up'[t] \/ ring_up'[t] = ring_up[t]
    PROVE  BufInv(t)'
BY DEF BufInv, Untouched, InRing

LEMMA BufBegin ==
    ASSUME TypeOK, NEW t \in Threads, BufInv(t), Start(t)
    PROVE  BufInv(t)'
<1>1. PICK kind \in Kinds, n \in 1 .. MaxBatch, batch \in BOOLEAN :
          Begin(t, kind, n, batch) /\ (~batch => n = 1)
    <2>1. 1 \in 1 .. MaxBatch
        BY BoundAssumption
    <2>2. \A kind, n, batch : Begin(t, kind, n, batch) => kind \in Kinds
        BY DEF Begin
    <2> QED
        BY <2>1, <2>2, Zenon DEF Start, submit_uring_read, submit_uring_write,
           submit_uring_splice, submit_uring_read_batch, submit_uring_write_batch
<1>2. /\ call'[t].n = n /\ call'[t].batch = batch
      /\ pc[t] = "idle" /\ pc'[t] = "push"
      /\ UNCHANGED <<sq, inflight, cq, backlog>>
    BY <1>1 DEF Begin, TypeOK, kernelVars
<1>3. InRing(t)' = {}
    BY <1>2 DEF BufInv, InRing
<1> QED
    BY <1>1, <1>2, <1>3 DEF BufInv, Polling

\* A step that changes neither the call nor the map, and lets nothing new into the ring
\* of an idle thread or of a batch that polls.
LEMMA BufMove ==
    ASSUME NEW t \in Threads, BufInv(t), UNCHANGED <<call, completed>>,
           \A e \in InRing(t)' : e.call = call[t].serial,
           InRing(t) = {} => InRing(t)' = {},
           ring_up'[t] \/ ring_up'[t] = ring_up[t],
           pc'[t] = "idle" => pc[t] = "idle" \/ InRing(t)' = {},
           call[t].batch /\ pc'[t] \in Polling =>
              /\ sq'[t] = {} /\ inflight'[t] = {} /\ backlog'[t] = {}
              /\ cq'[t] # {} => \A e \in completed[t] : e.call # call[t].serial
    PROVE  BufInv(t)'
BY DEF BufInv

LEMMA BufPush ==
    ASSUME Healthy, TypeOK, NEW t \in Threads, RoomInv(t), BufInv(t), Push(t)
    PROVE  BufInv(t)'
<1>1. pc[t] \in {"push", "repush"} /\ ring_up[t]
    BY DEF Push
<1>2. CASE SqFull(t)
    <2>1. pc[t] = "push"
        BY <1>1, <1>2, FS_CardinalityType, RingSizeType DEF RoomInv, SqFull
    <2>2. /\ UNCHANGED <<call, completed, ring_up, sq, inflight, cq, backlog>>
          /\ pc'[t] = "full"
        BY <1>2, <2>1 DEF Push, callVars, kernelVars, TypeOK
    <2>3. InRing(t)' = InRing(t)
        BY <2>2 DEF InRing
    <2> QED
        BY <2>2, <2>3, BufMove DEF BufInv, Polling
<1>3. CASE ~SqFull(t)
    <2> DEFINE x == Sqe(t, pushed[t] + 1)
    <2>1. /\ sq'[t] = sq[t] \cup {x} /\ pc'[t] = AfterPush(t)
          /\ UNCHANGED <<call, completed, ring_up, inflight, cq, backlog>>
        BY <1>3 DEF Push, callVars, kernelVars, TypeOK
    <2>2. x.call = call[t].serial
        BY DEF Sqe
    <2> HIDE DEF x
    <2>3. InRing(t)' = InRing(t) \cup {x}
        BY <2>1 DEF InRing
    <2>4. pc'[t] # "idle" /\ (call[t].batch => pc'[t] \notin Polling)
        BY <2>1 DEF AfterPush, Polling
    <2> QED
        BY <1>1, <2>1, <2>2, <2>3, <2>4 DEF BufInv
<1> QED
    BY <1>2, <1>3

----------------------------------------------------------------------------
(* Waiting for a batch. *)

\* Two entries of a call with the same index are the same operation, in one place.
LEMMA SameIndex ==
    ASSUME TypeOK, NEW t \in Threads, OwnInv(t), QuietInv(t),
           NEW e \in Entries(t), NEW f \in Entries(t),
           e.call = call[t].serial, f.call = call[t].serial, e.idx = f.idx
    PROVE  e.ud = f.ud
BY DEF OwnInv, EntryInOrder

LEMMA ApartInRing ==
    ASSUME NEW t \in Threads, QuietInv(t), NEW e \in Cqes(t), NEW f \in InRing(t), e.ud = f.ud
    PROVE  e = f /\ f \in cq[t] \cup backlog[t]
BY DEF QuietInv, OneCopyOf, Cqes, Sqes, InRing, Disjoint, Distinct

LEMMA FirstN ==
    ASSUME NEW n \in Nat
    PROVE  IsFiniteSet(1 .. n) /\ Cardinality(1 .. n) = n
<1>1. IsFiniteSet(1 .. n) /\ Cardinality(1 .. n) = IF 1 > n THEN 0 ELSE n - 1 + 1
    BY FS_Interval
<1> QED
    BY <1>1

LEMMA FullyCompleted ==
    ASSUME TypeOK, NEW t \in Threads, OwnInv(t), QuietInv(t), WaitInv(t), BufInv(t),
           Cardinality(cq[t]) >= call[t].n
    PROVE  sq[t] = {} /\ inflight[t] = {} /\ backlog[t] = {}
<1> DEFINE N == 1 .. call[t].n
           f == [e \in cq[t] |-> e.idx]
<1>1. call[t].n \in Nat /\ pushed[t] \in Nat /\ pushed[t] <= call[t].n
    BY DEF TypeOK, OwnInv, CallInOrder
<1>2. \A e \in InRing(t) : e \in Entries(t) /\ e.call = call[t].serial /\ e.idx \in N
    BY <1>1 DEF BufInv, InRing, Entries, OwnInv, EntryInOrder
<1>3. f \in Injection(cq[t], N)
    <2>1. f \in [cq[t] -> N]
        BY <1>2 DEF InRing
    <2>2. ASSUME NEW a \in cq[t], NEW b \in cq[t], f[a] = f[b] PROVE a = b
        <3>1. a.idx = b.idx
            BY <2>2
        <3>2. a \in InRing(t) /\ b \in InRing(t) /\ a \in Cqes(t)
            BY DEF InRing, Cqes
        <3>3. a.ud = b.ud
            BY <1>2, <3>1, <3>2, SameIndex
        <3> QED
            BY <3>2, <3>3, ApartInRing
    <2>3. DOMAIN f = cq[t]
        OBVIOUS
    <2> HIDE DEF f
    <2>4. IsInjective(f)
        BY <2>2, <2>3 DEF IsInjective
    <2> QED
        BY <2>1, <2>4 DEF Injection
<1>4. IsFiniteSet(N) /\ Cardinality(N) = call[t].n
    BY <1>1, FirstN
<1>5. f \in Surjection(cq[t], N)
    <2> HIDE DEF f, N
    <2>1. Cardinality(cq[t]) <= Cardinality(N) /\ IsFiniteSet(cq[t])
        BY <1>3, <1>4, FS_Injection
    <2>2. Cardinality(cq[t]) = Cardinality(N)
        BY <1>1, <1>4, <2>1, FS_CardinalityType
    <2> QED
        BY <1>3, <1>4, <2>2, FS_Injection
<1>6. ASSUME NEW g \in InRing(t) PROVE g \in cq[t]
    <2>1. PICK e \in cq[t] : e.idx = g.idx
        BY <1>2, <1>5 DEF Surjection
    <2>2. e \in InRing(t) /\ e \in Cqes(t)
        BY DEF InRing, Cqes
    <2>3. e.ud = g.ud
        BY <1>2, <2>1, <2>2, SameIndex
    <2>4. e = g
        BY <2>2, <2>3, ApartInRing
    <2> QED
        BY <2>4
<1> QED
    BY <1>6, OnlyCompleted DEF InRing, Cqes

LEMMA BufEnter ==
    ASSUME Healthy, TypeOK, NEW t \in Threads,
           OwnInv(t), QuietInv(t), RoomInv(t), WaitInv(t), BufInv(t),
           \/ EnterSubmit(t) \/ EnterShort(t) \/ EnterWake(t) \/ EnterInterrupted(t)
           \/ Submit(t) \/ flush_thread_ring(t)
    PROVE  BufInv(t)'
<1>1. ASSUME UNCHANGED <<call, completed, cq, backlog>>, ring_up'[t] \/ ring_up'[t] = ring_up[t],
             NEW taken \in SUBSET sq[t],
             inflight'[t] = inflight[t] \cup taken, sq'[t] = sq[t] \ taken,
             \/ pc'[t] = pc[t]
             \/ pc'[t] = "repush"
             \/ pc[t] \in Polling /\ pc'[t] \in Polling
      PROVE  BufInv(t)'
    <2>1. InRing(t)' = InRing(t)
        BY <1>1 DEF InRing
    <2>2. pc'[t] = "idle" => pc[t] = "idle"
        BY <1>1 DEF Polling
    <2>3. call[t].batch /\ pc'[t] \in Polling =>
              sq'[t] = {} /\ inflight'[t] = {} /\ backlog'[t] = {}
        BY <1>1 DEF BufInv, Polling
    <2>4. pc'[t] \in Polling => pc[t] \in Polling
        BY <1>1 DEF Polling
    <2> QED
        BY <1>1, <2>1, <2>2, <2>3, <2>4 DEF BufInv
<1>2. CASE EnterSubmit(t)
    <2>1. inflight'[t] = inflight[t] \cup sq[t] /\ sq'[t] = sq[t] \ sq[t]
        BY <1>2 DEF EnterSubmit, TypeOK
    <2> QED
        BY <1>1, <1>2, <2>1 DEF EnterSubmit, callVars
<1>3. CASE EnterWake(t)
    <2>1. /\ sq[t] = {} /\ pc[t] \in Waits /\ Cardinality(cq[t]) >= Want(t)
          /\ UNCHANGED <<call, completed, ring_up, sq, inflight, cq, backlog>>
          /\ pc'[t] = IF pc[t] = "full" THEN "repush" ELSE "poll"
        BY <1>3 DEF EnterWake, Return, RoomInv, callVars, kernelVars, TypeOK
    <2>2. CASE pc[t] = "flush"
        <3>1. call[t].n <= CqSize /\ call[t].n \in Nat /\ CqSize \in Nat
            BY RingSizeType, BoundAssumption DEF Healthy, BufInv, TypeOK
        <3>2. Want(t) = call[t].n
            BY <2>2, <3>1 DEF Want
        <3>3. sq[t] = {} /\ inflight[t] = {} /\ backlog[t] = {}
            BY <2>1, <3>2, FullyCompleted
        <3>4. \A e \in completed[t] : e.call # call[t].serial
            BY <2>2 DEF WaitInv, Undrained
        <3>5. InRing(t)' = InRing(t) /\ pc'[t] # "idle"
            BY <2>1 DEF InRing
        <3> QED
            BY <2>1, <3>3, <3>4, <3>5 DEF BufInv
    <2>3. CASE pc[t] # "flush"
        <3>1. \/ pc'[t] = "repush"
              \/ pc[t] \in Polling /\ pc'[t] \in Polling
            BY <2>1, <2>3 DEF Waits, Polling
        <3>2. inflight'[t] = inflight[t] \cup {} /\ sq'[t] = sq[t] \ {} /\ {} \in SUBSET sq[t]
            BY <2>1
        <3> QED
            BY <1>1, <2>1, <3>1, <3>2
    <2> QED
        BY <2>2, <2>3
<1>4. CASE Submit(t) \/ flush_thread_ring(t)
    <2>1. PICK taken \in SUBSET sq[t] :
              inflight'[t] = inflight[t] \cup taken /\ sq'[t] = sq[t] \ taken
        BY <1>4 DEF Submit, flush_thread_ring, SubmitOnly, TypeOK
    <2>2. UNCHANGED <<call, completed, cq, backlog>>
        BY <1>4 DEF Submit, flush_thread_ring, callVars
    <2>3. ring_up'[t] \/ ring_up'[t] = ring_up[t]
        BY <1>4 DEF Submit, flush_thread_ring, TypeOK
    <2>4. \/ pc'[t] = pc[t]
          \/ pc[t] \in Polling /\ pc'[t] \in Polling
        BY <1>4 DEF Submit, flush_thread_ring, Polling, TypeOK
    <2> QED
        BY <1>1, <2>1, <2>2, <2>3, <2>4
<1>5. ~EnterShort(t) /\ ~EnterInterrupted(t)
    BY DEF Healthy, EnterShort, EnterInterrupted
<1> QED
    BY <1>2, <1>3, <1>4, <1>5

\* A result of the next id is one of the present call.
LEMMA NextIsOwn ==
    ASSUME TypeOK, NEW t \in Threads, OwnInv(t), NEW e \in Entries(t), e.ud = MyId(t)
    PROVE  e.call = call[t].serial
<1>1. EntryInOrder(t, e) /\ e.call \in Nat /\ e.ud \in Nat
    BY EntryNat DEF OwnInv
<1>2. call[t].serial \in Nat /\ call[t].start \in Nat /\ Len(got[t]) \in Nat
    BY DEF TypeOK
<1> QED
    BY <1>1, <1>2 DEF EntryInOrder, MyId

\* The only operation of a call is in one place.
LEMMA OnlyOne ==
    ASSUME TypeOK, NEW t \in Threads, OwnInv(t), QuietInv(t), BufInv(t), ~call[t].batch,
           NEW e \in Cqes(t), e.call = call[t].serial, NEW g \in InRing(t)
    PROVE  g = e
<1>1. e \in Entries(t) /\ g \in Entries(t) /\ g.call = call[t].serial
    BY DEF BufInv, InRing, Cqes, Entries
<1>2. e.idx \in 1 .. pushed[t] /\ g.idx \in 1 .. pushed[t]
    BY <1>1 DEF OwnInv, EntryInOrder
<1>3. pushed[t] \in Nat /\ call[t].n \in Nat /\ pushed[t] <= call[t].n /\ call[t].n <= 1
    BY DEF TypeOK, OwnInv, CallInOrder, BufInv
<1>4. e.idx = g.idx
    BY <1>2, <1>3
<1>5. e.ud = g.ud
    BY <1>1, <1>4, SameIndex
<1> QED
    BY <1>5, ApartInRing

LEMMA BufPolls ==
    ASSUME TypeOK, NEW t \in Threads, OwnInv(t), QuietInv(t), BufInv(t),
           PollHit(t) \/ PollDrain(t)
    PROVE  BufInv(t)'
<1>1. /\ pc[t] \in Polling /\ pc'[t] \in {"idle"} \cup Polling
      /\ UNCHANGED <<call, ring_up, sq, inflight, backlog>>
    BY DEF PollHit, PollDrain, Take, Abandon, Polling, TypeOK, callVars, kernelVars
<1>2. CASE PollHit(t)
    <2>1. PICK e \in completed[t] : e.ud = MyId(t) /\ Take(t, e, completed[t])
        BY <1>2 DEF PollHit
    <2>2. completed'[t] = completed[t] \ {e} /\ cq' = cq
        BY <1>2, <2>1 DEF PollHit, Take, TypeOK, kernelVars
    <2>3. e \in Cqes(t) /\ e \in Entries(t) /\ e \notin InRing(t)
        BY OnlyCompleted DEF Cqes, Entries, InRing
    <2>4. e.call = call[t].serial
        BY <2>1, <2>3, NextIsOwn
    <2>5. InRing(t) = {}
        <3>1. CASE call[t].batch
            BY <1>1, <2>4, <3>1 DEF BufInv, InRing
        <3>2. CASE ~call[t].batch
            BY <2>3, <2>4, <3>2, OnlyOne
        <3> QED
            BY <3>1, <3>2
    <2> QED
        BY <1>1, <2>2, <2>5 DEF BufInv, InRing
<1>3. CASE PollDrain(t)
    <2>1. cq'[t] = {} /\ Drained(t) = completed[t] \cup cq[t]
        BY <1>3, DrainedAll DEF PollDrain, TypeOK
    <2>2. ASSUME NEW e \in Drained(t), e.ud = MyId(t)
          PROVE  sq[t] = {} /\ inflight[t] = {} /\ backlog[t] = {}
        <3>1. e \in Cqes(t) /\ e \in Entries(t) /\ e \notin sq[t] \cup inflight[t] \cup backlog[t]
            BY <2>1, <2>2, OnlyCompleted DEF Cqes, Entries
        <3>2. e.call = call[t].serial
            BY <2>2, <3>1, NextIsOwn
        <3>3. CASE call[t].batch
            BY <1>1, <3>3 DEF BufInv
        <3>4. CASE ~call[t].batch
            BY <3>1, <3>2, <3>4, OnlyOne DEF InRing
        <3> QED
            BY <3>3, <3>4
    <2>3. pc'[t] = "idle" => sq[t] = {} /\ inflight[t] = {} /\ backlog[t] = {}
        BY <1>3, <2>2 DEF PollDrain, TypeOK
    <2> QED
        BY <1>1, <2>1, <2>3 DEF BufInv, InRing
<1> QED
    BY <1>2, <1>3

LEMMA BufKernel ==
    ASSUME TypeOK, NEW t \in Threads, BufInv(t), Complete(t) \/ FlushBacklog(t)
    PROVE  BufInv(t)'
<1>1. UNCHANGED <<call, completed, pc, ring_up, sq>>
    BY DEF Complete, FlushBacklog, callVars
<1>2. inflight[t] # {} \/ backlog[t] # {}
    BY DEF Complete, FlushBacklog
<1>3. ~(call[t].batch /\ pc[t] \in Polling) /\ InRing(t) # {}
    BY <1>2 DEF BufInv, InRing
<1>4. \A e \in InRing(t)' : \E g \in InRing(t) : e.call = g.call
    <2>1. CASE Complete(t)
        <3>1. PICK e \in inflight[t], res \in {"ok", "fail"} :
                  /\ inflight' = [inflight EXCEPT ![t] = @ \ {e}]
                  /\ \/ cq' = [cq EXCEPT ![t] = @ \cup {Cqe(e, res)}] /\ UNCHANGED backlog
                     \/ backlog' = [backlog EXCEPT ![t] = @ \cup {Cqe(e, res)}] /\ UNCHANGED cq
            BY <2>1 DEF Complete
        <3> DEFINE c == Cqe(e, res)
        <3>2. c.call = e.call
            BY DEF Cqe
        <3> HIDE DEF c
        <3>3. InRing(t)' \subseteq InRing(t) \cup {c}
            BY <1>1, <3>1 DEF InRing, TypeOK, c
        <3> QED
            BY <3>2, <3>3 DEF InRing
    <2>2. CASE FlushBacklog(t)
        <3>1. PICK e \in backlog[t] : /\ backlog' = [backlog EXCEPT ![t] = @ \ {e}]
                                      /\ cq' = [cq EXCEPT ![t] = @ \cup {e}]
            BY <2>2 DEF FlushBacklog
        <3>2. InRing(t)' \subseteq InRing(t)
            BY <1>1, <2>2, <3>1 DEF InRing, TypeOK, FlushBacklog
        <3> QED
            BY <3>2
    <2> QED
        BY <2>1, <2>2
<1> QED
    BY <1>1, <1>3, <1>4 DEF BufInv

----------------------------------------------------------------------------
LEMMA BufStep ==
    ASSUME Healthy, TypeOK, NEW t \in Threads,
           OwnInv(t), QuietInv(t), RoomInv(t), WaitInv(t), BufInv(t), StepOf(t)
    PROVE  BufInv(t)'
<1>1. CASE OpenRing(t) \/ OpenRingFails(t)
    <2>1. /\ UNCHANGED <<call, completed, sq, inflight, cq, backlog>>
          /\ pc[t] = "push" /\ ~ring_up[t] /\ (pc'[t] = pc[t] \/ pc'[t] = "idle")
          /\ ring_up'[t] \/ ring_up'[t] = ring_up[t]
        BY <1>1 DEF OpenRing, OpenRingFails, Abandon, TypeOK, callVars, kernelVars
    <2>2. InRing(t)' = InRing(t) /\ InRing(t) = {}
        BY <2>1 DEF BufInv, InRing
    <2> QED
        BY <2>1, <2>2, BufMove DEF BufInv, Polling
<1> QED
    BY <1>1, BufBegin, BufPush, BufEnter, BufPolls, BufKernel DEF StepOf, Run, Fault

Buffers == Healthy => \A t \in Threads : BufInv(t)

\* On a healthy kernel the ring holds operations of the call under way only, and nothing
\* but completions while a batch polls.
THEOREM BufferInvariance == Spec => []Buffers
<1>1. Init => Buffers
    BY BoundAssumption DEF Init, Buffers, BufInv, InRing, NoCall, Polling
<1>2. EngineInv /\ Rooms /\ Waiting /\ Buffers /\ [Next]_vars => Buffers'
    <2> SUFFICES ASSUME EngineInv, Rooms, Waiting, Buffers, [Next]_vars, Healthy,
                        NEW u \in Threads
                 PROVE  BufInv(u)'
        BY DEF Buffers, Healthy
    <2>1. CASE UNCHANGED vars
        BY <2>1, BufFrame DEF Buffers, vars, Untouched
    <2>2. ASSUME NEW t \in Threads, StepOf(t) PROVE BufInv(u)'
        <3>1. CASE u = t
            BY <2>2, <3>1, BufStep DEF Buffers, Waiting, EngineInv, Rooms
        <3>2. CASE u # t
            BY <2>2, <3>2, StepIsLocal, RingStays, BufFrame DEF Buffers, EngineInv
        <3> QED
            BY <3>1, <3>2
    <2> QED
        BY <2>1, <2>2 DEF Next, StepOf
<1> QED
    BY <1>1, <1>2, EngineInvariance, RoomInvariance, WaitInvariance, PTL DEF Spec

\* Where the kernel's waits are not cut short and a batch fits the completion queue, the
\* kernel has an operation only of the call under way: its buffers are alive.
THEOREM BuffersStayAlive == Spec => []BuffersOutliveOps
<1>1. Buffers => BuffersOutliveOps
    <2> SUFFICES ASSUME Healthy, \A t \in Threads : BufInv(t),
                        NEW t \in Threads, NEW e \in sq[t] \cup inflight[t]
                 PROVE  e.call = call[t].serial /\ pc[t] # "idle"
        BY DEF Buffers, BuffersOutliveOps, Healthy
    <2>1. e \in InRing(t)
        BY DEF InRing
    <2> QED
        BY <2>1 DEF BufInv
<1> QED
    BY <1>1, BufferInvariance, PTL

=============================================================================

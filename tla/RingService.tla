----------------------------- MODULE RingService -----------------------------
(***************************************************************************)
(* What the ring engine promises its callers, src/engines/linux.rs without *)
(* ids, queues or a kernel.  A call has a number of operations.  Each is   *)
(* reported on at most once, in any order.  The call collects the reports  *)
(* in the order of its operations; it answers Ok after the last one and    *)
(* Err at the first failed one.  It may also fail for a reason of its own  *)
(* when the machine may be faulty.                                         *)
(***************************************************************************)
EXTENDS Integers, Sequences

CONSTANTS Threads, MaxBatch, Faults

VARIABLES
    busy,      \* the thread is inside a call
    count,     \* operations of its latest call
    reported,  \* pairs <<operation, result>> known to the kernel side
    answer     \* results the call has collected

vars == <<busy, count, reported, answer>>

Init ==
    /\ busy     = [t \in Threads |-> FALSE]
    /\ count    = [t \in Threads |-> 0]
    /\ reported = [t \in Threads |-> {}]
    /\ answer   = [t \in Threads |-> <<>>]

Ask(t) ==
    /\ ~busy[t]
    /\ busy' = [busy EXCEPT ![t] = TRUE]
    /\ \E n \in 1 .. MaxBatch : count' = [count EXCEPT ![t] = n]
    /\ reported' = [reported EXCEPT ![t] = {}]
    /\ answer' = [answer EXCEPT ![t] = <<>>]

\* An operation of a call that failed may still be reported on afterwards.
Report(t) ==
    /\ \E i \in 1 .. count[t], r \in {"ok", "fail"} :
          /\ \A p \in reported[t] : p[1] # i
          /\ reported' = [reported EXCEPT ![t] = @ \cup {<<i, r>>}]
    /\ UNCHANGED <<busy, count, answer>>

Collect(t) ==
    /\ busy[t]
    /\ \E p \in reported[t] :
          /\ p[1] = Len(answer[t]) + 1
          /\ answer' = [answer EXCEPT ![t] = Append(@, p[2])]
          /\ busy' = [busy EXCEPT ![t] = p[2] = "ok" /\ p[1] < count[t]]
    /\ UNCHANGED <<count, reported>>

GiveUp(t) ==
    /\ Faults # {}
    /\ busy[t]
    /\ busy' = [busy EXCEPT ![t] = FALSE]
    /\ UNCHANGED <<count, reported, answer>>

Next == \E t \in Threads : Ask(t) \/ Report(t) \/ Collect(t) \/ GiveUp(t)

Spec == Init /\ [][Next]_vars

=============================================================================

-------------------------- MODULE NativeFileProofs ---------------------------
(***************************************************************************)
(* Theorems about streams, descriptors and tasks, for any number of them.  *)
(***************************************************************************)
EXTENDS NativeFile, SequenceTheorems, TLAPS

(* What the helpers return. *)

LEMMA OptionsType == ASSUME NEW m PROVE Options(m) \in OptsType
<1> DEFINE fm == parse(m)
<1>1. fm.readable \in BOOLEAN /\ fm.writable \in BOOLEAN /\ fm.append \in BOOLEAN
      /\ fm.truncate \in BOOLEAN
    BY DEF parse
<1>2. configure_open_options(fm) \in OptsType
    BY <1>1 DEF configure_open_options, OptsType
<1> QED
    BY <1>2 DEF Options

LEMMA ReadAtType ==
    ASSUME NEW c \in Seq(CellType), NEW p \in Nat, NEW n \in Nat
    PROVE  ReadAt(c, p, n) \in Seq(CellType)
<1> DEFINE last == IF p + n < Len(c) THEN p + n ELSE Len(c)
<1>1. p + 1 \in Nat /\ last \in Nat /\ Len(c) \in Nat /\ last <= Len(c) /\ 1 <= p + 1
    OBVIOUS
<1>2. \A i \in (p + 1) .. last : c[i] \in CellType
    BY <1>1
<1>3. SubSeq(c, p + 1, last) \in Seq(CellType)
    BY <1>1, <1>2, SubSeqProperties
<1> QED
    BY <1>3 DEF ReadAt

LEMMA WriteAtType ==
    ASSUME NEW c \in Seq(CellType), NEW p \in Nat, NEW cell \in CellType
    PROVE  WriteAt(c, p, cell) \in Seq(CellType)
<1> DEFINE m == IF p < Len(c) THEN Len(c) ELSE p + 1
           e(i) == IF i = p + 1 THEN cell ELSE IF i <= Len(c) THEN c[i] ELSE Hole
<1>1. m \in Nat
    OBVIOUS
<1>2. \A i \in 1 .. m : e(i) \in CellType
    <2>1. Hole \in CellType
        BY DEF Hole, CellType
    <2> QED
        BY <2>1
<1> HIDE DEF e, m
<1>3. [i \in 1 .. m |-> e(i)] \in Seq(CellType)
    BY <1>1, <1>2
<1> QED
    BY <1>3 DEF WriteAt, e, m

LEMMA CellsType ==
    ASSUME NEW k \in Nat, NEW n \in Nat
    PROVE  Cells(k, n) \in Seq(CellType)
<1>1. \A i \in 1 .. n : <<k, i>> \in CellType
    BY DEF CellType
<1> QED
    BY <1>1 DEF Cells

LEMMA WritePosType ==
    ASSUME TypeOK, NEW s \in Streams, NEW p \in Nat
    PROVE  WritePos(s, p) \in Nat
<1>1. stream[s].file \in Files
    BY DEF TypeOK, StreamType
<1>2. content[stream[s].file] \in Seq(CellType)
    BY <1>1 DEF TypeOK
<1> QED
    BY <1>2 DEF WritePos

LEMMA NotOpenedIsTyped == NotOpened \in StreamType
<1>1. (CHOOSE f \in Files : TRUE) \in Files
    BY StreamAssumption
<1>2. Options({}) \in OptsType
    BY OptionsType
<1> QED
    BY <1>1, <1>2 DEF NotOpened, StreamType

LEMMA NoTaskIsTyped == NoTask \in TaskType
<1>1. (CHOOSE s \in Streams : TRUE) \in Streams
    BY StreamAssumption
<1>2. <<>> \in Seq(Nat) /\ <<>> \in Seq(CellType)
    OBVIOUS
<1>3. (CHOOSE f \in Files : TRUE) \in Files
    BY StreamAssumption
<1> QED
    BY <1>1, <1>2, <1>3 DEF NoTask, TaskType

LEMMA InitType == Init => TypeOK
<1> SUFFICES ASSUME Init PROVE TypeOK
    OBVIOUS
<1>1. content \in [Files -> Seq(CellType)]
    BY DEF Init
<1>2. stream \in [Streams -> StreamType]
    BY NotOpenedIsTyped DEF Init
<1>3. task \in [Ids -> TaskType]
    BY NoTaskIsTyped DEF Init
<1>4. fd_table \in [Fds -> Streams \cup {NoStream}] /\ ops \in 0 .. MaxOps
    BY BoundsAssumption DEF Init
<1> QED
    BY <1>1, <1>2, <1>3, <1>4 DEF TypeOK

----------------------------------------------------------------------------
(* A caller's step. *)

\* Recording an operation keeps the tasks typed.
LEMMA StartedType ==
    ASSUME TypeOK, ops < MaxOps, NEW r \in TaskType, Started(r)
    PROVE  task' \in [Ids -> TaskType] /\ ops' \in 0 .. MaxOps
<1>1. ops + 1 \in Ids
    BY BoundsAssumption DEF TypeOK, Ids
<1> QED
    BY <1>1, BoundsAssumption DEF TypeOK, Started

LEMMA EndedType ==
    ASSUME NEW s \in Streams, NEW kind \in {"read", "write"}, NEW got \in Seq(CellType)
    PROVE  Ended(s, kind, 1, got) \in TaskType
<1>1. NoTask \in TaskType
    BY NoTaskIsTyped
<1> QED
    BY <1>1 DEF Ended, TaskType

LEMMA NewType ==
    ASSUME TypeOK, NEW s \in Streams, NEW f \in Files, NEW m \in Modes, new(s, f, m)
    PROVE  TypeOK'
<1>1. Options(m) \in OptsType
    BY OptionsType
<1>2. PICK d \in Fds :
          /\ fd_table' = [fd_table EXCEPT ![d] = s]
          /\ stream' = [stream EXCEPT ![s] =
                [state |-> "open", file |-> f, opts |-> Options(m), fd |-> d, pos |-> 0,
                 seeked |-> FALSE]]
    BY DEF new
<1>3. d \in Nat
    BY FdAssumption
<1>4. [state |-> "open", file |-> f, opts |-> Options(m), fd |-> d, pos |-> 0,
       seeked |-> FALSE] \in StreamType
    BY <1>1, <1>3 DEF StreamType
<1>5. stream' \in [Streams -> StreamType]
    BY <1>2, <1>4 DEF TypeOK
<1>6. content' \in [Files -> Seq(CellType)]
    BY DEF TypeOK, new
<1>7. fd_table' \in [Fds -> Streams \cup {NoStream}]
    BY <1>2 DEF TypeOK
<1> QED
    BY <1>5, <1>6, <1>7 DEF TypeOK, new

LEMMA CloseType ==
    ASSUME TypeOK, NEW s \in Streams, close(s) PROVE TypeOK'
<1>1. stream' \in [Streams -> StreamType]
    BY DEF TypeOK, StreamType, close
<1>2. fd_table' \in [Fds -> Streams \cup {NoStream}]
    BY DEF TypeOK, close
<1> QED
    BY <1>1, <1>2 DEF TypeOK, close

LEMMA ReadType ==
    ASSUME TypeOK, NEW s \in Streams, read(s) PROVE TypeOK'
<1> DEFINE got == ReadAt(content[stream[s].file], stream[s].pos, 1)
<1>1. stream[s] \in StreamType
    BY DEF TypeOK
<1>2. content[stream[s].file] \in Seq(CellType) /\ stream[s].pos \in Nat
    BY <1>1 DEF TypeOK, StreamType
<1>3. got \in Seq(CellType)
    BY <1>2, ReadAtType
<1> HIDE DEF got
<1>4. Ended(s, "read", 1, got) \in TaskType
    BY <1>3, EndedType
<1>5. task' \in [Ids -> TaskType] /\ ops' \in 0 .. MaxOps
    BY <1>4, StartedType DEF read, MayStart, got
<1>6. stream[s].pos + Len(got) \in Nat
    BY <1>2, <1>3
<1>7. stream' = [stream EXCEPT ![s].pos = stream[s].pos + Len(got)]
    BY DEF read, got
<1>8. stream' \in [Streams -> StreamType]
    BY <1>6, <1>7 DEF TypeOK, StreamType
<1> QED
    BY <1>5, <1>8 DEF TypeOK, read

LEMMA WriteType ==
    ASSUME TypeOK, NEW s \in Streams, write(s) PROVE TypeOK'
<1> DEFINE p == WritePos(s, stream[s].pos)
           f == stream[s].file
           cell == <<ops + 1, 1>>
<1>1. stream[s].pos \in Nat /\ f \in Files
    BY DEF TypeOK, StreamType
<1>2. p \in Nat
    BY <1>1, WritePosType
<1>3. cell \in CellType
    BY DEF TypeOK, CellType
<1>4. content[f] \in Seq(CellType)
    BY <1>1 DEF TypeOK
<1>5. <<>> \in Seq(CellType)
    OBVIOUS
<1>6. Ended(s, "write", 1, <<>>) \in TaskType
    BY <1>5, EndedType
<1>7. task' \in [Ids -> TaskType] /\ ops' \in 0 .. MaxOps
    BY <1>6, StartedType DEF write, MayStart
<1> HIDE DEF p, cell
<1>8. WriteAt(content[f], p, cell) \in Seq(CellType)
    BY <1>2, <1>3, <1>4, WriteAtType
<1>9. content' = [content EXCEPT ![f] = WriteAt(content[f], p, cell)]
    BY DEF write, p, cell
<1>10. content' \in [Files -> Seq(CellType)]
    BY <1>1, <1>8, <1>9 DEF TypeOK
<1>11. stream' \in [Streams -> StreamType]
    <2>1. p + 1 \in Nat
        BY <1>2
    <2>2. stream' = [stream EXCEPT ![s].pos = p + 1]
        BY DEF write, p
    <2> QED
        BY <2>1, <2>2 DEF TypeOK, StreamType
<1> QED
    BY <1>7, <1>10, <1>11 DEF TypeOK, write

LEMMA SeekType ==
    ASSUME TypeOK, NEW s \in Streams, seek(s) PROVE TypeOK'
<1>1. stream' \in [Streams -> StreamType]
    BY DEF TypeOK, StreamType, seek
<1> QED
    BY <1>1 DEF TypeOK, seek

LEMMA SpawnType ==
    ASSUME TypeOK, NEW s \in Streams, NEW kind \in {"read", "write", "aread", "pread"},
           NEW n \in Nat, Spawn(s, kind, n)
    PROVE  TypeOK'
<1> DEFINE r == [NoTask EXCEPT !.state = "queued", !.kind = kind, !.stream = s, !.n = n,
                               !.fd = stream[s].fd, !.todo = 1 .. n]
<1>1. NoTask \in TaskType
    BY NoTaskIsTyped
<1>2. stream[s].fd \in Nat
    BY DEF TypeOK, StreamType
<1>3. 1 .. n \in SUBSET Nat
    OBVIOUS
<1>4. r \in TaskType
    BY <1>1, <1>2, <1>3 DEF TaskType
<1> HIDE DEF r
<1>5. task' \in [Ids -> TaskType] /\ ops' \in 0 .. MaxOps
    BY <1>4, StartedType DEF Spawn, MayStart, r
<1> QED
    BY <1>5 DEF TypeOK, Spawn

LEMMA AspliceType ==
    ASSUME TypeOK, NEW s \in Streams, NEW u \in Streams, asplice(s, u)
    PROVE  TypeOK'
<1> DEFINE r == [NoTask EXCEPT !.state = "queued", !.kind = "splice", !.stream = u, !.n = 1,
                               !.fd = stream[u].fd, !.from = stream[s].file]
<1>1. NoTask \in TaskType
    BY NoTaskIsTyped
<1>2. stream[u].fd \in Nat /\ stream[s].file \in Files
    BY DEF TypeOK, StreamType
<1>3. r \in TaskType
    BY <1>1, <1>2 DEF TaskType
<1> HIDE DEF r
<1>4. task' \in [Ids -> TaskType] /\ ops' \in 0 .. MaxOps
    BY <1>3, StartedType DEF asplice, MayStart, r
<1> QED
    BY <1>4 DEF TypeOK, asplice

----------------------------------------------------------------------------
(* A step of a task, and of the kernel on its behalf. *)

\* Two links of a task that its type leaves open: the descriptor it captured is one of
\* the process's, and an entry is issued only through a description it resolved.
TaskLinks == \A k \in Ids :
    /\ task[k].state = "queued" => task[k].fd \in Fds
    /\ task[k].at # <<>> => task[k].target # NoStream

States == {"none", "queued", "ring", "fallback", "ok", "error"}

\* A typed record stays typed when a field takes a value of its type.
LEMMA TaskFields ==
    ASSUME NEW r \in TaskType
    PROVE  /\ \A x \in States : [r EXCEPT !.state = x] \in TaskType
           /\ \A x \in Streams \cup {NoStream} : [r EXCEPT !.target = x] \in TaskType
           /\ \A x \in Seq(Nat) : [r EXCEPT !.at = x] \in TaskType
           /\ \A x \in SUBSET Nat : [r EXCEPT !.todo = x] \in TaskType
           /\ \A x \in BOOLEAN : [r EXCEPT !.failed = x] \in TaskType
           /\ \A x \in Seq(CellType) : [r EXCEPT !.got = x] \in TaskType
<1>1. \A x \in States : [r EXCEPT !.state = x] \in TaskType
    BY DEF TaskType, States
<1>2. \A x \in Streams \cup {NoStream} : [r EXCEPT !.target = x] \in TaskType
    BY DEF TaskType
<1>3. \A x \in Seq(Nat) : [r EXCEPT !.at = x] \in TaskType
    BY DEF TaskType
<1>4. \A x \in SUBSET Nat : [r EXCEPT !.todo = x] \in TaskType
    BY DEF TaskType
<1>5. \A x \in BOOLEAN : [r EXCEPT !.failed = x] \in TaskType
    BY DEF TaskType
<1>6. \A x \in Seq(CellType) : [r EXCEPT !.got = x] \in TaskType
    BY DEF TaskType
<1> QED
    BY <1>1, <1>2, <1>3, <1>4, <1>5, <1>6

\* Replacing one task by a typed one keeps all of them typed.
LEMMA TaskUpdate ==
    ASSUME TypeOK, NEW k \in Ids, NEW r \in TaskType
    PROVE  [task EXCEPT ![k] = r] \in [Ids -> TaskType]
BY DEF TypeOK

LEMMA RingStartType ==
    ASSUME TypeOK, TaskLinks, NEW k \in Ids, RingStart(k) PROVE TypeOK'
<1> DEFINE d == fd_table[task[k].fd]
           t == task[k]
           here == d # NoStream /\ Allowed(d, t.kind)
<1>1. t \in TaskType /\ d \in Streams \cup {NoStream}
    BY DEF TypeOK, TaskLinks, RingStart
<1>2. task' = [task EXCEPT ![k] = IF here
                                  THEN [[t EXCEPT !.state = "ring"] EXCEPT !.target = d]
                                  ELSE [[t EXCEPT !.state = "fallback"] EXCEPT !.todo = {}]]
    BY DEF RingStart
<1> HIDE DEF d, here, t
<1>3. [[t EXCEPT !.state = "ring"] EXCEPT !.target = d] \in TaskType
    <2>1. [t EXCEPT !.state = "ring"] \in TaskType
        BY <1>1, TaskFields DEF States
    <2> QED
        BY <2>1, <1>1, TaskFields
<1>4. [[t EXCEPT !.state = "fallback"] EXCEPT !.todo = {}] \in TaskType
    <2>1. [t EXCEPT !.state = "fallback"] \in TaskType
        BY <1>1, TaskFields DEF States
    <2> QED
        BY <2>1, TaskFields
<1>5. task' \in [Ids -> TaskType]
    BY <1>2, <1>3, <1>4, TaskUpdate
<1> QED
    BY <1>5 DEF TypeOK, RingStart

LEMMA RingRefusedType ==
    ASSUME TypeOK, NEW k \in Ids, RingRefused(k) PROVE TypeOK'
<1> DEFINE t == task[k]
<1>1. t \in TaskType
    BY DEF TypeOK
<1>2. task' = [task EXCEPT ![k] = [[t EXCEPT !.state = "fallback"] EXCEPT !.todo = {}]]
    BY DEF RingRefused
<1> HIDE DEF t
<1>3. [t EXCEPT !.state = "fallback"] \in TaskType
    BY <1>1, TaskFields DEF States
<1>4. [[t EXCEPT !.state = "fallback"] EXCEPT !.todo = {}] \in TaskType
    BY <1>3, TaskFields
<1>5. task' \in [Ids -> TaskType]
    BY <1>2, <1>4, TaskUpdate
<1> QED
    BY <1>5 DEF RingRefused, TypeOK

\* A task that has a target has one of the streams.
LEMMA TargetType ==
    ASSUME TypeOK, NEW k \in Ids, task[k].target # NoStream
    PROVE  /\ task[k].target \in Streams
           /\ stream[task[k].target] \in StreamType
           /\ content[stream[task[k].target].file] \in Seq(CellType)
           /\ stream[task[k].target].file \in Files
           /\ stream[task[k].target].pos \in Nat
<1>1. task[k].target \in Streams
    BY DEF TypeOK, TaskType
<1>2. stream[task[k].target] \in StreamType
    BY <1>1 DEF TypeOK
<1> QED
    BY <1>1, <1>2 DEF TypeOK, StreamType

LEMMA IssueType ==
    ASSUME TypeOK, NEW k \in Ids, Issue(k) PROVE TypeOK'
<1> DEFINE p == IF task[k].kind = "pread" THEN Len(task[k].at)
                ELSE stream[task[k].target].pos
<1>1. p \in Nat
    <2>1. task[k].at \in Seq(Nat)
        BY DEF TypeOK, TaskType
    <2> QED
        BY <2>1, TargetType DEF Issue
<1>2. task' = [task EXCEPT ![k] = [task[k] EXCEPT !.at = Append(task[k].at, p)]]
    BY DEF Issue
<1>3. task[k] \in TaskType /\ task[k].at \in Seq(Nat)
    BY DEF TypeOK, TaskType
<1> HIDE DEF p
<1>4. Append(task[k].at, p) \in Seq(Nat)
    BY <1>1, <1>3
<1>5. [task[k] EXCEPT !.at = Append(task[k].at, p)] \in TaskType
    BY <1>3, <1>4, TaskFields
<1>6. task' \in [Ids -> TaskType]
    BY <1>2, <1>5, TaskUpdate
<1> QED
    BY <1>6 DEF Issue, TypeOK

LEMMA PerformAreadType ==
    ASSUME TypeOK, NEW k \in Ids, PerformAread(k) PROVE TypeOK'
<1> DEFINE got == ReadAt(content[stream[task[k].target].file], 0, task[k].n)
<1>1. task[k].n \in Nat
    BY DEF TypeOK, TaskType
<1>2. got \in Seq(CellType)
    BY <1>1, TargetType, ReadAtType DEF PerformAread
<1>3. task' = [task EXCEPT ![k] = [[task[k] EXCEPT !.todo = {}] EXCEPT !.got = got]]
    BY DEF PerformAread
<1> HIDE DEF got
<1>4. [task[k] EXCEPT !.todo = {}] \in TaskType
    BY TaskFields DEF TypeOK
<1>5. [[task[k] EXCEPT !.todo = {}] EXCEPT !.got = got] \in TaskType
    BY <1>2, <1>4, TaskFields
<1>6. task' \in [Ids -> TaskType]
    BY <1>3, <1>5, TaskUpdate
<1> QED
    BY <1>6 DEF PerformAread, TypeOK

LEMMA PerformFailsType ==
    ASSUME TypeOK, NEW k \in Ids, NEW i, PerformFails(k, i) PROVE TypeOK'
<1> DEFINE rest == task[k].todo \ {i}
<1>1. task[k] \in TaskType /\ rest \in SUBSET Nat
    BY DEF TypeOK, TaskType
<1>2. task' = [task EXCEPT ![k] = [[task[k] EXCEPT !.todo = rest] EXCEPT !.failed = TRUE]]
    BY DEF PerformFails
<1> HIDE DEF rest
<1>3. [task[k] EXCEPT !.todo = rest] \in TaskType
    BY <1>1, TaskFields
<1>4. [[task[k] EXCEPT !.todo = rest] EXCEPT !.failed = TRUE] \in TaskType
    BY <1>3, TaskFields
<1>5. task' \in [Ids -> TaskType]
    BY <1>2, <1>4, TaskUpdate
<1> QED
    BY <1>5 DEF PerformFails, TypeOK

LEMMA RingEndType ==
    ASSUME TypeOK, NEW k \in Ids, RingEnd(k) PROVE TypeOK'
<1> DEFINE x == IF task[k].failed THEN "fallback" ELSE "ok"
<1>1. task' = [task EXCEPT ![k] = [task[k] EXCEPT !.state = x]]
    BY DEF RingEnd
<1>2. x \in States
    BY DEF States
<1> HIDE DEF x
<1>3. [task[k] EXCEPT !.state = x] \in TaskType
    BY <1>2, TaskFields DEF TypeOK
<1>4. task' \in [Ids -> TaskType]
    BY <1>1, <1>3, TaskUpdate
<1> QED
    BY <1>4 DEF RingEnd, TypeOK

LEMMA RingInterruptedType ==
    ASSUME TypeOK, NEW k \in Ids, RingInterrupted(k) PROVE TypeOK'
<1>1. task' = [task EXCEPT ![k] = [[task[k] EXCEPT !.state = "fallback"] EXCEPT !.failed = TRUE]]
    BY DEF RingInterrupted
<1>2. [task[k] EXCEPT !.state = "fallback"] \in TaskType
    BY TaskFields DEF TypeOK, States
<1>3. [[task[k] EXCEPT !.state = "fallback"] EXCEPT !.failed = TRUE] \in TaskType
    BY <1>2, TaskFields
<1>4. task' \in [Ids -> TaskType]
    BY <1>1, <1>3, TaskUpdate
<1> QED
    BY <1>4 DEF RingInterrupted, TypeOK

LEMMA FallbackType ==
    ASSUME TypeOK, NEW k \in Ids, Fallback(k) PROVE TypeOK'
<1> DEFINE f == stream[task[k].stream].file
           wanted == IF task[k].kind = "aread" /\ task[k].n = ReadCap
                     THEN Len(content[f]) ELSE task[k].n
           got == IF task[k].kind = "write" THEN <<>> ELSE ReadAt(content[f], 0, wanted)
           after == content[f] \o Cells(k, task[k].n)
<1>1. f \in Files
    BY DEF TypeOK, TaskType, StreamType
<1>2. content[f] \in Seq(CellType) /\ task[k].n \in Nat /\ k \in Nat
    BY <1>1 DEF TypeOK, TaskType, Ids
<1>3. wanted \in Nat
    BY <1>2
<1>4. got \in Seq(CellType)
    <2>1. <<>> \in Seq(CellType)
        OBVIOUS
    <2>2. ReadAt(content[f], 0, wanted) \in Seq(CellType)
        BY <1>2, <1>3, ReadAtType
    <2> QED
        BY <2>1, <2>2
<1>5. after \in Seq(CellType)
    <2>1. Cells(k, task[k].n) \in Seq(CellType)
        BY <1>2, CellsType
    <2> HIDE DEF f
    <2> QED
        BY <2>1, <1>2
<1>6. /\ content' = IF task[k].kind = "write" THEN [content EXCEPT ![f] = after] ELSE content
      /\ task' = [task EXCEPT ![k] = [[task[k] EXCEPT !.state = "ok"] EXCEPT !.got = got]]
    BY DEF Fallback
<1> HIDE DEF f, wanted, got, after
<1>7. content' \in [Files -> Seq(CellType)]
    BY <1>1, <1>5, <1>6 DEF TypeOK
<1>8. [task[k] EXCEPT !.state = "ok"] \in TaskType
    BY TaskFields DEF TypeOK, States
<1>9. [[task[k] EXCEPT !.state = "ok"] EXCEPT !.got = got] \in TaskType
    BY <1>4, <1>8, TaskFields
<1>10. task' \in [Ids -> TaskType]
    BY <1>6, <1>9, TaskUpdate
<1> QED
    BY <1>7, <1>10 DEF Fallback, TypeOK

LEMMA PerformType ==
    ASSUME TypeOK, TaskLinks, NEW k \in Ids, NEW i \in 1 .. MaxBatch, Perform(k, i)
    PROVE  TypeOK'
<1> DEFINE s == task[k].target
           f == stream[s].file
           p == task[k].at[i]
           rest == task[k].todo \ {i}
           got == ReadAt(content[f], p, 1)
           cell == <<k, i>>
<1>1. /\ task[k] \in TaskType /\ task[k].at \in Seq(Nat) /\ rest \in SUBSET Nat
      /\ task[k].got \in Seq(CellType)
    BY DEF TypeOK, TaskType
<1>2. i \in Nat \ {0} /\ k \in Nat /\ cell \in CellType
    BY BoundsAssumption DEF Ids, CellType
<1>3. i <= Len(task[k].at)
    BY DEF Perform
<1>4. task[k].at # <<>>
    BY <1>1, <1>2, <1>3
<1>5. p \in Nat
    BY <1>1, <1>2, <1>3
<1>6. s # NoStream
    BY <1>4 DEF TaskLinks
<1>7. s \in Streams /\ stream[s] \in StreamType /\ f \in Files
      /\ content[f] \in Seq(CellType)
    BY <1>6, TargetType
<1>8. [task[k] EXCEPT !.todo = rest] \in TaskType
    BY <1>1, TaskFields
<1>9. UNCHANGED <<fd_table, ops>>
    BY DEF Perform
<1>10. CASE task[k].kind = "write"
    <2> DEFINE w == WritePos(s, p)
               after == WriteAt(content[f], w, cell)
    <2>1. w \in Nat
        BY <1>5, <1>7, WritePosType
    <2>2. content' = [content EXCEPT ![f] = after]
        BY <1>10 DEF Perform
    <2>3. stream' = [stream EXCEPT ![s].pos = w + 1]
        BY <1>10 DEF Perform
    <2>4. task' = [task EXCEPT ![k] = [task[k] EXCEPT !.todo = rest]]
        BY <1>10 DEF Perform
    <2> HIDE DEF w, cell, p, s, rest, f
    <2>5. after \in Seq(CellType)
        BY <2>1, <1>2, <1>7, WriteAtType
    <2> HIDE DEF after
    <2>6. content' \in [Files -> Seq(CellType)]
        BY <2>2, <2>5, <1>7 DEF TypeOK
    <2>7. stream' \in [Streams -> StreamType]
        <3>1. w + 1 \in Nat
            BY <2>1
        <3> QED
            BY <3>1, <2>3 DEF TypeOK, StreamType
    <2>8. task' \in [Ids -> TaskType]
        BY <2>4, <1>8, TaskUpdate
    <2> QED
        BY <2>6, <2>7, <2>8, <1>9 DEF TypeOK
<1>11. CASE task[k].kind = "read"
    <2> DEFINE q == p + Len(got)
               all == task[k].got \o got
    <2>1. stream' = [stream EXCEPT ![s].pos = q]
        BY <1>11 DEF Perform
    <2>2. task' = [task EXCEPT ![k] = [[task[k] EXCEPT !.todo = rest] EXCEPT !.got = all]]
        BY <1>11 DEF Perform
    <2>3. content' = content
        BY <1>11 DEF Perform
    <2> HIDE DEF p, s, rest, f
    <2>4. got \in Seq(CellType)
        BY <1>5, <1>7, ReadAtType
    <2> HIDE DEF got
    <2>5. q \in Nat
        BY <2>4, <1>5
    <2>6. all \in Seq(CellType)
        BY <2>4, <1>1
    <2> HIDE DEF q, all
    <2>7. stream' \in [Streams -> StreamType]
        BY <2>1, <2>5 DEF TypeOK, StreamType
    <2>8. [[task[k] EXCEPT !.todo = rest] EXCEPT !.got = all] \in TaskType
        BY <2>6, <1>8, TaskFields
    <2>9. task' \in [Ids -> TaskType]
        BY <2>2, <2>8, TaskUpdate
    <2> QED
        BY <2>3, <2>7, <2>9, <1>9 DEF TypeOK
<1>12. CASE task[k].kind = "pread"
    <2> DEFINE all == task[k].got \o got
    <2>1. task' = [task EXCEPT ![k] = [[task[k] EXCEPT !.todo = rest] EXCEPT !.got = all]]
        BY <1>12 DEF Perform
    <2>2. content' = content /\ stream' = stream
        BY <1>12 DEF Perform
    <2> HIDE DEF p, s, rest, f
    <2>3. got \in Seq(CellType)
        BY <1>5, <1>7, ReadAtType
    <2> HIDE DEF got
    <2>4. all \in Seq(CellType)
        BY <2>3, <1>1
    <2> HIDE DEF all
    <2>5. [[task[k] EXCEPT !.todo = rest] EXCEPT !.got = all] \in TaskType
        BY <2>4, <1>8, TaskFields
    <2>6. task' \in [Ids -> TaskType]
        BY <2>1, <2>5, TaskUpdate
    <2> QED
        BY <2>2, <2>6, <1>9 DEF TypeOK
<1> QED
    BY <1>10, <1>11, <1>12 DEF Perform

LEMMA SpliceType ==
    ASSUME TypeOK, TaskLinks, NEW k \in Ids, Splice(k) PROVE TypeOK'
<1> DEFINE d == fd_table[task[k].fd]
           p == WritePos(d, stream[d].pos)
           f == stream[d].file
           after == WriteAt(content[f], p, <<k, 1>>)
<1>1. task[k] \in TaskType
    BY DEF TypeOK
<1>2. d \in Streams \cup {NoStream}
    BY DEF TypeOK, TaskLinks, Splice
<1>3. UNCHANGED <<fd_table, ops>>
    BY DEF Splice
<1>4. CASE /\ task' = [task EXCEPT ![k] = [[task[k] EXCEPT !.state = "ok"] EXCEPT !.n = 0]]
           /\ UNCHANGED <<content, stream>>
    <2>1. [task[k] EXCEPT !.state = "ok"] \in TaskType
        BY <1>1, TaskFields DEF States
    <2>2. [[task[k] EXCEPT !.state = "ok"] EXCEPT !.n = 0] \in TaskType
        BY <2>1 DEF TaskType
    <2>3. task' \in [Ids -> TaskType]
        BY <1>4, <2>2, TaskUpdate
    <2> QED
        BY <1>3, <1>4, <2>3 DEF TypeOK
<1>5. CASE /\ task' = [task EXCEPT ![k] = [task[k] EXCEPT !.state = "error"]]
           /\ UNCHANGED <<content, stream>>
    <2>1. [task[k] EXCEPT !.state = "error"] \in TaskType
        BY <1>1, TaskFields DEF States
    <2>2. task' \in [Ids -> TaskType]
        BY <1>5, <2>1, TaskUpdate
    <2> QED
        BY <1>3, <1>5, <2>2 DEF TypeOK
<1>6. CASE /\ d # NoStream
           /\ task' = [task EXCEPT ![k] = [task[k] EXCEPT !.state = "ok"]]
           /\ content' = [content EXCEPT ![f] = after]
           /\ stream' = [stream EXCEPT ![d].pos = p + 1]
    <2>1. d \in Streams /\ stream[d] \in StreamType
        BY <1>2, <1>6 DEF TypeOK
    <2>2. f \in Files /\ stream[d].pos \in Nat
        BY <2>1 DEF StreamType
    <2>3. p \in Nat
        BY <2>1, <2>2, WritePosType
    <2>4. content[f] \in Seq(CellType) /\ <<k, 1>> \in CellType
        BY <2>2 DEF TypeOK, CellType, Ids
    <2>5. [task[k] EXCEPT !.state = "ok"] \in TaskType
        BY <1>1, TaskFields DEF States
    <2>6. task' \in [Ids -> TaskType]
        BY <1>6, <2>5, TaskUpdate
    <2> HIDE DEF p, f, d
    <2>7. after \in Seq(CellType)
        BY <2>3, <2>4, WriteAtType
    <2> HIDE DEF after
    <2>8. content' \in [Files -> Seq(CellType)]
        BY <1>6, <2>2, <2>7 DEF TypeOK
    <2>9. stream' \in [Streams -> StreamType]
        <3>1. p + 1 \in Nat
            BY <2>3
        <3> QED
            BY <1>6, <3>1 DEF TypeOK, StreamType
    <2> QED
        BY <1>3, <2>6, <2>8, <2>9 DEF TypeOK
<1> QED
    BY <1>4, <1>5, <1>6 DEF Splice

----------------------------------------------------------------------------
(* The descriptor table. *)

LEMMA NewExact ==
    ASSUME TypeOK, FdTableExact, NEW s \in Streams, NEW f \in Files, NEW m \in Modes,
           new(s, f, m)
    PROVE  FdTableExact'
<1>1. PICK d \in Fds :
          /\ IsNextFd(d)
          /\ fd_table' = [fd_table EXCEPT ![d] = s]
          /\ stream' = [stream EXCEPT ![s] =
                [state |-> "open", file |-> f, opts |-> Options(m), fd |-> d, pos |-> 0,
                 seeked |-> FALSE]]
    BY DEF new
<1>2. /\ fd_table \in [Fds -> Streams \cup {NoStream}]
      /\ fd_table[d] = NoStream
      /\ stream[s].state = "none"
      /\ DOMAIN stream = Streams
    BY <1>1 DEF TypeOK, IsNextFd, new
<1>3. stream'[s].state = "open" /\ stream'[s].fd = d /\ fd_table'[d] = s
    BY <1>1, <1>2
<1>4. \A t \in Streams \ {s} : stream'[t] = stream[t]
    BY <1>1, <1>2
<1>5. \A e \in Fds \ {d} : fd_table'[e] = fd_table[e]
    BY <1>1, <1>2
<1>6. ASSUME NEW t \in Streams, stream'[t].state = "open"
      PROVE  stream'[t].fd \in Fds /\ fd_table'[stream'[t].fd] = t
    <2>1. CASE t = s
        BY <2>1, <1>3
    <2>2. CASE t # s
        <3>1. stream[t].fd \in Fds /\ fd_table[stream[t].fd] = t
            BY <2>2, <1>4, <1>6 DEF FdTableExact
        <3>2. stream[t].fd # d
            BY <3>1, <1>2, StreamAssumption
        <3> QED
            BY <2>2, <3>1, <3>2, <1>4, <1>5
    <2> QED
        BY <2>1, <2>2
<1>7. ASSUME NEW e \in Fds, fd_table'[e] # NoStream
      PROVE  stream'[fd_table'[e]].state = "open" /\ stream'[fd_table'[e]].fd = e
    <2>1. CASE e = d
        BY <2>1, <1>3
    <2>2. CASE e # d
        <3>1. fd_table[e] \in Streams /\ fd_table[e] # NoStream
            BY <2>2, <1>2, <1>5, <1>7
        <3>2. stream[fd_table[e]].state = "open" /\ stream[fd_table[e]].fd = e
            BY <3>1 DEF FdTableExact
        <3>3. fd_table[e] # s
            BY <3>2, <1>2
        <3> QED
            BY <2>2, <3>1, <3>2, <3>3, <1>4, <1>5
    <2> QED
        BY <2>1, <2>2
<1> QED
    BY <1>6, <1>7 DEF FdTableExact

LEMMA CloseExact ==
    ASSUME TypeOK, FdTableExact, NEW s \in Streams, close(s)
    PROVE  FdTableExact'
<1> DEFINE d == stream[s].fd
<1>1. d \in Fds /\ fd_table[d] = s
    BY DEF close, FdTableExact
<1>2. /\ fd_table \in [Fds -> Streams \cup {NoStream}]
      /\ stream \in [Streams -> StreamType]
    BY DEF TypeOK
<1>3. stream'[s].state = "closed"
    BY <1>2 DEF close, StreamType
<1>4. \A t \in Streams \ {s} : stream'[t] = stream[t]
    BY <1>2 DEF close
<1>5. fd_table'[d] = NoStream /\ \A e \in Fds \ {d} : fd_table'[e] = fd_table[e]
    BY <1>1, <1>2 DEF close
<1>6. ASSUME NEW t \in Streams, stream'[t].state = "open"
      PROVE  stream'[t].fd \in Fds /\ fd_table'[stream'[t].fd] = t
    <2>1. t # s
        BY <1>3, <1>6
    <2>2. stream[t].fd \in Fds /\ fd_table[stream[t].fd] = t
        BY <2>1, <1>4, <1>6 DEF FdTableExact
    <2>3. stream[t].fd # d
        BY <2>1, <2>2, <1>1
    <2> QED
        BY <2>1, <2>2, <2>3, <1>4, <1>5
<1>7. ASSUME NEW e \in Fds, fd_table'[e] # NoStream
      PROVE  stream'[fd_table'[e]].state = "open" /\ stream'[fd_table'[e]].fd = e
    <2>1. e # d
        BY <1>5, <1>7
    <2>2. fd_table'[e] = fd_table[e] /\ fd_table[e] \in Streams
        BY <2>1, <1>2, <1>5, <1>7
    <2>3. stream[fd_table[e]].state = "open" /\ stream[fd_table[e]].fd = e
        BY <2>2, <1>7 DEF FdTableExact
    <2>4. fd_table[e] # s
        BY <2>1, <2>3
    <2> QED
        BY <2>2, <2>3, <2>4, <1>4
<1> QED
    BY <1>6, <1>7 DEF FdTableExact

\* Every other step leaves the table, and what it says of the streams, alone.
LEMMA SameExact ==
    ASSUME TypeOK, FdTableExact, fd_table' = fd_table,
           \A s \in Streams : /\ stream'[s].state = stream[s].state
                              /\ stream'[s].fd = stream[s].fd
    PROVE  FdTableExact'
<1>1. \A d \in Fds : fd_table[d] # NoStream => fd_table[d] \in Streams
    BY DEF TypeOK
<1> QED
    BY <1>1 DEF FdTableExact

\* A new offset of one stream is no change of its state and descriptor.
LEMMA MovedExact ==
    ASSUME TypeOK, FdTableExact, NEW s \in Streams, NEW p, fd_table' = fd_table,
           \/ stream' = [stream EXCEPT ![s].pos = p]
           \/ stream' = [stream EXCEPT ![s].pos = p, ![s].seeked = TRUE]
    PROVE  FdTableExact'
<1>1. stream \in [Streams -> StreamType]
    BY DEF TypeOK
<1>2. \A t \in Streams : stream'[t].state = stream[t].state /\ stream'[t].fd = stream[t].fd
    BY <1>1 DEF StreamType
<1> QED
    BY <1>2, SameExact

----------------------------------------------------------------------------
(* What links a task to the table. *)

Linked(r) == /\ r.state = "queued" => r.fd \in Fds
             /\ r.at # <<>> => r.target # NoStream

LEMMA LinkUpdate ==
    ASSUME TypeOK, TaskLinks, NEW k \in Ids, NEW r, Linked(r),
           task' = [task EXCEPT ![k] = r]
    PROVE  TaskLinks'
<1>1. \A j \in Ids : task'[j] = IF j = k THEN r ELSE task[j]
    BY DEF TypeOK
<1> QED
    BY <1>1 DEF TaskLinks, Linked

LEMMA StartedLinks ==
    ASSUME TypeOK, TaskLinks, ops < MaxOps, NEW r, Linked(r), Started(r)
    PROVE  TaskLinks'
<1>1. ops + 1 \in Ids
    BY BoundsAssumption DEF TypeOK, Ids
<1> QED
    BY <1>1, LinkUpdate DEF Started

LEMMA EndedLinks ==
    ASSUME NEW s, NEW kind, NEW n, NEW got PROVE Linked(Ended(s, kind, n, got))
<1>1. /\ Ended(s, kind, n, got).state = "ok"
      /\ Ended(s, kind, n, got).at = <<>>
    BY DEF Ended, NoTask
<1> QED
    BY <1>1 DEF Linked

LEMMA SpawnLinks ==
    ASSUME TypeOK, FdTableExact, TaskLinks, NEW s \in Streams, NEW kind, NEW n,
           Spawn(s, kind, n)
    PROVE  TaskLinks'
<1> DEFINE r == [NoTask EXCEPT !.state = "queued", !.kind = kind, !.stream = s, !.n = n,
                               !.fd = stream[s].fd, !.todo = 1 .. n]
<1>1. r.fd = stream[s].fd /\ r.at = <<>>
    BY DEF NoTask
<1>2. stream[s].fd \in Fds
    BY DEF Spawn, MayStart, FdTableExact
<1> HIDE DEF r
<1>3. Linked(r)
    BY <1>1, <1>2 DEF Linked
<1> QED
    BY <1>3, StartedLinks DEF Spawn, MayStart, r

LEMMA AspliceLinks ==
    ASSUME TypeOK, FdTableExact, TaskLinks, NEW s \in Streams, NEW u \in Streams,
           asplice(s, u)
    PROVE  TaskLinks'
<1> DEFINE r == [NoTask EXCEPT !.state = "queued", !.kind = "splice", !.stream = u, !.n = 1,
                               !.fd = stream[u].fd, !.from = stream[s].file]
<1>1. r.fd = stream[u].fd /\ r.at = <<>>
    BY DEF NoTask
<1>2. stream[u].fd \in Fds
    BY DEF asplice, MayStart, FdTableExact
<1> HIDE DEF r
<1>3. Linked(r)
    BY <1>1, <1>2 DEF Linked
<1> QED
    BY <1>3, StartedLinks DEF asplice, MayStart, r

\* The steps of a task that is no longer queued resolve no number.
LEMMA WorkerLinks ==
    ASSUME TypeOK, TaskLinks, NEW k \in Ids, Worker(k) PROVE TaskLinks'
<1> DEFINE t == task[k]
<1>1. DOMAIN task = Ids /\ t \in TaskType
    BY DEF TypeOK
<1>2. Linked(t)
    BY DEF TaskLinks, Linked
<1>3. CASE RingStart(k)
    <2> DEFINE d == fd_table[t.fd]
               here == d # NoStream /\ Allowed(d, t.kind)
               r == IF here THEN [[t EXCEPT !.state = "ring"] EXCEPT !.target = d]
                    ELSE [[t EXCEPT !.state = "fallback"] EXCEPT !.todo = {}]
    <2>1. task' = [task EXCEPT ![k] = r]
        BY <1>3 DEF RingStart
    <2> HIDE DEF t
    <2>2. r.state # "queued" /\ (here => r.target # NoStream)
          /\ (~here => r.target = t.target) /\ r.at = t.at
        BY <1>1 DEF TaskType
    <2> HIDE DEF r, here
    <2>3. Linked(r)
        BY <2>2, <1>2 DEF Linked
    <2> QED
        BY <2>1, <2>3, LinkUpdate
<1>4. ASSUME NEW x \in {"fallback", "ok", "error"},
             \E r : /\ task' = [task EXCEPT ![k] = r]
                    /\ r.state = x /\ r.at = t.at /\ r.target = t.target
      PROVE  TaskLinks'
    <2>1. PICK r : /\ task' = [task EXCEPT ![k] = r]
                   /\ r.state = x /\ r.at = t.at /\ r.target = t.target
        BY <1>4
    <2>2. Linked(r)
        BY <2>1, <1>2 DEF Linked
    <2> QED
        BY <2>1, <2>2, LinkUpdate
<1>5. CASE RingRefused(k)
    <2> DEFINE r == [[t EXCEPT !.state = "fallback"] EXCEPT !.todo = {}]
    <2>1. task' = [task EXCEPT ![k] = r]
        BY <1>5 DEF RingRefused
    <2>2. r.state = "fallback" /\ r.at = t.at /\ r.target = t.target
        BY <1>1 DEF TaskType
    <2> HIDE DEF r
    <2> QED
        BY <2>1, <2>2, <1>4
<1>6. CASE RingEnd(k)
    <2> DEFINE x == IF t.failed THEN "fallback" ELSE "ok"
               r == [t EXCEPT !.state = x]
    <2>1. task' = [task EXCEPT ![k] = r]
        BY <1>6 DEF RingEnd
    <2>2. r.state = x /\ r.at = t.at /\ r.target = t.target
        BY <1>1 DEF TaskType
    <2>3. x \in {"fallback", "ok"}
        OBVIOUS
    <2> HIDE DEF r, x
    <2> QED
        BY <2>1, <2>2, <2>3, <1>4
<1>7. CASE RingInterrupted(k)
    <2> DEFINE r == [[t EXCEPT !.state = "fallback"] EXCEPT !.failed = TRUE]
    <2>1. task' = [task EXCEPT ![k] = r]
        BY <1>7 DEF RingInterrupted
    <2>2. r.state = "fallback" /\ r.at = t.at /\ r.target = t.target
        BY <1>1 DEF TaskType
    <2> HIDE DEF r
    <2> QED
        BY <2>1, <2>2, <1>4
<1>8. CASE Fallback(k)
    <2>1. PICK g : task' = [task EXCEPT ![k] = [[t EXCEPT !.state = "ok"] EXCEPT !.got = g]]
        BY <1>8 DEF Fallback
    <2> DEFINE r == [[t EXCEPT !.state = "ok"] EXCEPT !.got = g]
    <2>2. r.state = "ok" /\ r.at = t.at /\ r.target = t.target
        BY <1>1 DEF TaskType
    <2> HIDE DEF r
    <2> QED
        BY <2>1, <2>2, <1>4 DEF r
<1>9. CASE Splice(k)
    <2>1. PICK r \in { [[t EXCEPT !.state = "ok"] EXCEPT !.n = 0], [t EXCEPT !.state = "error"],
                       [t EXCEPT !.state = "ok"] } : task' = [task EXCEPT ![k] = r]
        BY <1>9 DEF Splice
    <2>2. r.state \in {"ok", "error"} /\ r.at = t.at /\ r.target = t.target
        BY <1>1 DEF TaskType
    <2> QED
        BY <2>1, <2>2, <1>4
<1> QED
    BY <1>3, <1>5, <1>6, <1>7, <1>8, <1>9 DEF Worker

LEMMA KernelLinks ==
    ASSUME TypeOK, TaskLinks, NEW k \in Ids, Kernel(k) PROVE TaskLinks'
<1> DEFINE t == task[k]
<1>1. DOMAIN task = Ids /\ t \in TaskType
    BY DEF TypeOK
<1>2. Linked(t)
    BY DEF TaskLinks, Linked
<1>3. CASE Issue(k)
    <2>1. PICK a : task' = [task EXCEPT ![k] = [t EXCEPT !.at = a]]
        BY <1>3 DEF Issue
    <2> DEFINE r == [t EXCEPT !.at = a]
    <2>2. r.state = t.state /\ r.fd = t.fd /\ r.target = t.target
        BY <1>1 DEF TaskType
    <2>3. t.target # NoStream
        BY <1>3 DEF Issue
    <2> HIDE DEF r, t
    <2>4. Linked(r)
        BY <2>2, <2>3, <1>2 DEF Linked
    <2> QED
        BY <2>1, <2>4, LinkUpdate DEF r
<1>4. ASSUME NEW r, task' = [task EXCEPT ![k] = r], r.state = t.state, r.fd = t.fd,
             r.target = t.target, r.at = t.at
      PROVE  TaskLinks'
    <2>1. Linked(r)
        BY <1>2, <1>4 DEF Linked
    <2> QED
        BY <2>1, <1>4, LinkUpdate
<1>5. CASE PerformAread(k)
    <2>1. PICK g : task' = [task EXCEPT ![k] = [[t EXCEPT !.todo = {}] EXCEPT !.got = g]]
        BY <1>5 DEF PerformAread
    <2> DEFINE r == [[t EXCEPT !.todo = {}] EXCEPT !.got = g]
    <2>2. r.state = t.state /\ r.fd = t.fd /\ r.target = t.target /\ r.at = t.at
        BY <1>1 DEF TaskType
    <2> HIDE DEF r, t
    <2> QED
        BY <2>1, <2>2, <1>4 DEF r
<1>6. ASSUME NEW i \in 1 .. MaxBatch, Perform(k, i) PROVE TaskLinks'
    <2> DEFINE rest == t.todo \ {i}
    <2>1. CASE t.kind = "write"
        <3> DEFINE r == [t EXCEPT !.todo = rest]
        <3>1. task' = [task EXCEPT ![k] = r]
            BY <1>6, <2>1 DEF Perform
        <3>2. r.state = t.state /\ r.fd = t.fd /\ r.target = t.target /\ r.at = t.at
            BY <1>1 DEF TaskType
        <3> HIDE DEF r, t
        <3> QED
            BY <3>1, <3>2, <1>4
    <2>2. CASE t.kind \in {"read", "pread"}
        <3>1. PICK g : task' = [task EXCEPT ![k] = [[t EXCEPT !.todo = rest] EXCEPT !.got = g]]
            BY <1>6, <2>2 DEF Perform
        <3> DEFINE r == [[t EXCEPT !.todo = rest] EXCEPT !.got = g]
        <3>2. r.state = t.state /\ r.fd = t.fd /\ r.target = t.target /\ r.at = t.at
            BY <1>1 DEF TaskType
        <3> HIDE DEF r, t
        <3> QED
            BY <3>1, <3>2, <1>4 DEF r
    <2> QED
        BY <1>6, <2>1, <2>2 DEF Perform
<1>7. ASSUME NEW i \in 1 .. MaxBatch, PerformFails(k, i) PROVE TaskLinks'
    <2> DEFINE r == [[t EXCEPT !.todo = t.todo \ {i}] EXCEPT !.failed = TRUE]
    <2>1. task' = [task EXCEPT ![k] = r]
        BY <1>7 DEF PerformFails
    <2>2. r.state = t.state /\ r.fd = t.fd /\ r.target = t.target /\ r.at = t.at
        BY <1>1 DEF TaskType
    <2> HIDE DEF r, t
    <2> QED
        BY <2>1, <2>2, <1>4
<1> QED
    BY <1>3, <1>5, <1>6, <1>7 DEF Kernel

----------------------------------------------------------------------------
(* The invariant, and what follows from it. *)

\* TypeOK alone is not inductive: the type of fd_table'[task[k].fd] needs TaskLinks,
\* and TaskLinks needs FdTableExact when a task captures the descriptor of its stream.
IInv == TypeOK /\ FdTableExact /\ TaskLinks

LEMMA InitInv == Init => IInv
<1> SUFFICES ASSUME Init PROVE IInv
    OBVIOUS
<1>1. TypeOK
    BY InitType
<1>2. FdTableExact
    BY DEF Init, FdTableExact, NotOpened
<1>3. TaskLinks
    BY DEF Init, TaskLinks, NoTask
<1> QED
    BY <1>1, <1>2, <1>3 DEF IInv

LEMMA CallerKeepsInv ==
    ASSUME IInv, NEW s \in Streams, Caller(s) PROVE IInv'
<1>1. TypeOK /\ FdTableExact /\ TaskLinks
    BY DEF IInv
<1>2. ASSUME NEW f \in Files, NEW m \in Modes, new(s, f, m) PROVE IInv'
    <2>1. TypeOK' /\ FdTableExact'
        BY <1>1, <1>2, NewType, NewExact
    <2>2. TaskLinks'
        BY <1>1, <1>2 DEF new, TaskLinks
    <2> QED
        BY <2>1, <2>2 DEF IInv
<1>3. CASE close(s)
    <2>1. TypeOK' /\ FdTableExact'
        BY <1>1, <1>3, CloseType, CloseExact
    <2>2. TaskLinks'
        BY <1>1, <1>3 DEF close, TaskLinks
    <2> QED
        BY <2>1, <2>2 DEF IInv
<1>4. CASE read(s)
    <2>1. TypeOK'
        BY <1>1, <1>4, ReadType
    <2>2. PICK p : stream' = [stream EXCEPT ![s].pos = p] /\ fd_table' = fd_table
        BY <1>4 DEF read
    <2>3. FdTableExact'
        BY <1>1, <2>2, MovedExact
    <2>4. PICK g : Started(Ended(s, "read", 1, g)) /\ ops < MaxOps
        BY <1>4 DEF read, MayStart
    <2>5. TaskLinks'
        BY <1>1, <2>4, EndedLinks, StartedLinks
    <2> QED
        BY <2>1, <2>3, <2>5 DEF IInv
<1>5. CASE write(s)
    <2>1. TypeOK'
        BY <1>1, <1>5, WriteType
    <2>2. PICK p : stream' = [stream EXCEPT ![s].pos = p] /\ fd_table' = fd_table
        BY <1>5 DEF write
    <2>3. FdTableExact'
        BY <1>1, <2>2, MovedExact
    <2>4. Started(Ended(s, "write", 1, <<>>)) /\ ops < MaxOps
        BY <1>5 DEF write, MayStart
    <2>5. TaskLinks'
        BY <1>1, <2>4, EndedLinks, StartedLinks
    <2> QED
        BY <2>1, <2>3, <2>5 DEF IInv
<1>6. CASE seek(s)
    <2>1. TypeOK'
        BY <1>1, <1>6, SeekType
    <2>2. stream' = [stream EXCEPT ![s].pos = 0, ![s].seeked = TRUE] /\ fd_table' = fd_table
        BY <1>6 DEF seek
    <2>3. FdTableExact'
        BY <1>1, <2>2, MovedExact
    <2>4. TaskLinks'
        BY <1>1, <1>6 DEF seek, TaskLinks
    <2> QED
        BY <2>1, <2>3, <2>4 DEF IInv
<1>7. ASSUME NEW kind \in {"read", "write", "aread", "pread"}, NEW n \in Nat, Spawn(s, kind, n)
      PROVE  IInv'
    <2>1. TypeOK'
        BY <1>1, <1>7, SpawnType
    <2>2. FdTableExact'
        BY <1>1, <1>7, SameExact DEF Spawn
    <2>3. TaskLinks'
        BY <1>1, <1>7, SpawnLinks
    <2> QED
        BY <2>1, <2>2, <2>3 DEF IInv
<1>8. CASE aread(s)
    <2>1. PICK n \in {1, ReadCap} : Spawn(s, "aread", n)
        BY <1>8 DEF aread
    <2>2. n \in Nat
        BY BoundsAssumption
    <2> QED
        BY <2>1, <2>2, <1>7
<1>9. CASE awrite(s)
    BY <1>9, <1>7 DEF awrite
<1>10. CASE aread_batch(s)
    <2>1. PICK n \in 1 .. MaxBatch : Spawn(s, "read", n) \/ Spawn(s, "pread", n)
        BY <1>10 DEF aread_batch
    <2> QED
        BY <2>1, <1>7
<1>11. CASE awrite_batch(s)
    <2>1. PICK n \in 1 .. MaxBatch : Spawn(s, "write", n)
        BY <1>11 DEF awrite_batch
    <2> QED
        BY <2>1, <1>7
<1>12. ASSUME NEW u \in Streams, asplice(s, u) PROVE IInv'
    <2>1. TypeOK'
        BY <1>1, <1>12, AspliceType
    <2>2. FdTableExact'
        BY <1>1, <1>12, SameExact DEF asplice
    <2>3. TaskLinks'
        BY <1>1, <1>12, AspliceLinks
    <2> QED
        BY <2>1, <2>2, <2>3 DEF IInv
<1> QED
    BY <1>2, <1>3, <1>4, <1>5, <1>6, <1>8, <1>9, <1>10, <1>11, <1>12 DEF Caller

LEMMA WorkerKeepsInv ==
    ASSUME IInv, NEW k \in Ids, Worker(k) PROVE IInv'
<1>1. TypeOK /\ FdTableExact /\ TaskLinks
    BY DEF IInv
<1>2. TypeOK'
    BY <1>1, RingStartType, RingRefusedType, RingEndType, RingInterruptedType, FallbackType,
       SpliceType DEF Worker
<1>3. FdTableExact'
    <2>1. CASE UNCHANGED <<stream, fd_table>>
        BY <1>1, <2>1 DEF FdTableExact
    <2>2. CASE Splice(k) /\ ~UNCHANGED stream
        <3> DEFINE d == fd_table[task[k].fd]
        <3>1. d # NoStream /\ (\E p : stream' = [stream EXCEPT ![d].pos = p])
            BY <2>2 DEF Splice
        <3>2. d \in Streams
            BY <1>1, <2>2, <3>1 DEF TypeOK, TaskLinks, Splice
        <3>3. fd_table' = fd_table
            BY <2>2 DEF Splice
        <3> HIDE DEF d
        <3> QED
            BY <1>1, <3>1, <3>2, <3>3, MovedExact
    <2> QED
        BY <2>1, <2>2 DEF Worker, RingStart, RingRefused, RingEnd, RingInterrupted, Fallback,
                          Splice
<1> QED
    BY <1>1, <1>2, <1>3, WorkerLinks DEF IInv

LEMMA KernelKeepsInv ==
    ASSUME IInv, NEW k \in Ids, Kernel(k) PROVE IInv'
<1>1. TypeOK /\ FdTableExact /\ TaskLinks
    BY DEF IInv
<1>2. TypeOK'
    BY <1>1, IssueType, PerformAreadType, PerformType, PerformFailsType DEF Kernel
<1>3. FdTableExact'
    <2>1. CASE UNCHANGED <<stream, fd_table>>
        BY <1>1, <2>1 DEF FdTableExact
    <2>2. ASSUME NEW i \in 1 .. MaxBatch, Perform(k, i), ~UNCHANGED stream
          PROVE  FdTableExact'
        <3>1. task[k].at # <<>>
            <4>1. i <= Len(task[k].at)
                BY <2>2 DEF Perform
            <4>2. task[k].at \in Seq(Nat)
                BY <1>1 DEF TypeOK, TaskType
            <4> QED
                BY <4>1, <4>2, BoundsAssumption
        <3>2. task[k].target \in Streams
            BY <1>1, <3>1, TargetType DEF TaskLinks
        <3>3. PICK p : stream' = [stream EXCEPT ![task[k].target].pos = p]
            BY <2>2 DEF Perform
        <3>4. fd_table' = fd_table
            BY <2>2 DEF Perform
        <3> QED
            BY <1>1, <3>2, <3>3, <3>4, MovedExact
    <2>3. ASSUME NEW i \in 1 .. MaxBatch, Perform(k, i), UNCHANGED stream
          PROVE  FdTableExact'
        BY <2>1, <2>3 DEF Perform
    <2> QED
        BY <2>1, <2>2, <2>3 DEF Kernel, Issue, PerformAread, PerformFails
<1> QED
    BY <1>1, <1>2, <1>3, KernelLinks DEF IInv

LEMMA NextKeepsInv == IInv /\ [Next]_vars => IInv'
<1> SUFFICES ASSUME IInv, [Next]_vars PROVE IInv'
    OBVIOUS
<1>1. CASE UNCHANGED vars
    <2>1. TypeOK'
        BY <1>1 DEF IInv, TypeOK, vars
    <2>2. FdTableExact'
        BY <1>1 DEF IInv, FdTableExact, vars
    <2>3. TaskLinks'
        BY <1>1 DEF IInv, TaskLinks, vars
    <2> QED
        BY <2>1, <2>2, <2>3 DEF IInv
<1> QED
    BY <1>1, CallerKeepsInv, WorkerKeepsInv, KernelKeepsInv DEF Next

\* In every behaviour the state is well formed, for any number of streams, files,
\* descriptors and operations and whatever the ring's calls come to.
THEOREM TypeCorrect == Spec => []TypeOK
<1>1. IInv => TypeOK
    BY DEF IInv
<1> QED
    BY InitInv, NextKeepsInv, <1>1, PTL DEF Spec

\* close releases the descriptor of its stream and no other, and new takes one that
\* nobody owns: no descriptor leaks, and two open streams never share one.
THEOREM DescriptorsAreExact == Spec => []FdTableExact
<1>1. IInv => FdTableExact
    BY DEF IInv
<1> QED
    BY InitInv, NextKeepsInv, <1>1, PTL DEF Spec

=============================================================================

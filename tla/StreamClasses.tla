--------------------------- MODULE StreamClasses ----------------------------
(***************************************************************************)
(* Which code an asynchronous method reaches: the metaclass and the base   *)
(* class of py_native_io/base.py, and patch_stream, wrap_stream and        *)
(* ensure_async_stream of py_native_io/patch.py.                           *)
(*                                                                         *)
(* A program has classes of its own, some under AsyncIOBase, and streams   *)
(* of them; its threads call the streams' methods and patch the streams,   *)
(* which changes the classes under each other.  A method is the way it is  *)
(* defined; Python finds it in the instance, then along the MRO.           *)
(***************************************************************************)
EXTENDS Naturals, Sequences

CONSTANTS
    Callers, Patchers,   \* the threads that call methods, and those that patch
    Calls,               \* the names they call
    Streams,
    Worlds     \* the programs: their classes, and the class of each stream

Threads == Callers \cup Patchers

Async == [read |-> "aread", write |-> "awrite", close |-> "aclose", flush |-> "aflush"]
Batch == [read |-> "aread_batch", write |-> "awrite_batch"]
Sync  == DOMAIN Async
AsyncNames == {Async[o] : o \in Sync}
BatchNames == {Batch[o] : o \in DOMAIN Batch}
Names == Sync \cup AsyncNames \cup BatchNames \cup {"asplice"}

\* The operation that a name is a form of; asplice starts by reading.
Operation(n) ==
    CHOOSE o \in Sync : n \in {o, Async[o]} \/ (o \in DOMAIN Batch /\ n = Batch[o])
                        \/ (o = "read" /\ n = "asplice")

\* How a method is defined: "io" by hand, it does the work; "auto" in a thread, by the
\* class's own synchronous method; "thread" in a thread, by self's; "bridge" in a new
\* event loop, by self's asynchronous one; "each" by self's asynchronous one, for each
\* item; "splice" by self's aread; "stub" refuses, or does nothing.
Ways == {"none", "io", "auto", "thread", "bridge", "each", "splice", "stub"}

ASSUME CallAssumption == Calls \subseteq Names

ASSUME WorldAssumption == \A w \in Worlds :
    /\ "AsyncIOBase" \notin DOMAIN w.mro          \* the classes of the program,
    /\ \A c \in DOMAIN w.mro :                    \* each with its MRO
           /\ w.mro[c] \in Seq(DOMAIN w.mro \cup {"AsyncIOBase"})
           /\ w.mro[c] # <<>> /\ w.mro[c][1] = c
    /\ w.body \in [DOMAIN w.mro -> SUBSET Names]   \* the names its body defines
    /\ w.class \in [Streams -> DOMAIN w.mro]       \* the class of each stream
    /\ w.immutable \subseteq DOMAIN w.mro          \* classes that take no attributes
    /\ w.slotted \subseteq Streams                 \* instances that take none

VARIABLES
    world,
    class,     \* [class][name]: the class dictionaries
    own,       \* [stream][name]: the instance dictionaries
    thread     \* what each thread is doing

vars == <<world, class, own, thread>>

Nothing == [n \in Names |-> "none"]
Idle == [do |-> "idle"]

----------------------------------------------------------------------------
(* Classes and their methods. *)

AsyncIOBase ==
    [n \in Names |-> CASE n \in {"read", "write"}   -> "bridge"
                       [] n \in {"close", "flush"}  -> "io"      \* io.IOBase's
                       [] n \in AsyncNames          -> "thread"
                       [] n \in BatchNames          -> "each"
                       [] n = "asplice"             -> "splice"]

\* Mutant: a wrapper is not made when the class inherits one.
MetaByInheritance(body, inherited) ==
    [n \in Names |->
        IF n \in body THEN "io"
        ELSE IF n \in AsyncNames /\ Operation(n) \in body /\ n \notin inherited THEN "auto"
        ELSE IF n \in BatchNames /\ Async[Operation(n)] \in body THEN "each"
        ELSE "none"]

\* Mutant: a wrapper is made whether or not the body has the synchronous method.
MetaAlways(body, inherited) ==
    [n \in Names |->
        IF n \in body THEN "io"
        ELSE IF n \in AsyncNames THEN "thread"
        ELSE "none"]

\* AsyncIOBaseMeta.__new__ looks at the namespace of the body, which its own wrappers
\* are not put into: an "auto" aread brings no aread_batch.
AsyncIOBaseMeta(body, inherited) ==
    [n \in Names |->
        IF n \in body THEN "io"
        ELSE IF n \in AsyncNames /\ Operation(n) \in body THEN "auto"
        ELSE IF n \in BatchNames /\ Async[Operation(n)] \in body THEN "each"
        ELSE "none"]

\* A class without the metaclass has what its body defines.
Plain(body) == [n \in Names |-> IF n \in body THEN "io" ELSE "none"]

Managed(w, c) == c = "AsyncIOBase" \/ \E i \in DOMAIN w.mro[c] : w.mro[c][i] = "AsyncIOBase"

Inherited(w, c) ==
    UNION {IF d = "AsyncIOBase" THEN {} ELSE w.body[d] \cup {Async[o] : o \in Sync \cap w.body[d]}
             : d \in {w.mro[c][i] : i \in 2..Len(w.mro[c])}}

Defined(w, c) ==
    IF c = "AsyncIOBase" THEN AsyncIOBase
    ELSE IF Managed(w, c) THEN AsyncIOBaseMeta(w.body[c], Inherited(w, c))
    ELSE Plain(w.body[c])

\* Places in the MRO of c whose class has the name; the first of them.
Where(c, n) == {i \in DOMAIN world.mro[c] : class[world.mro[c][i]][n] # "none"}
Found(c, n) == Where(c, n) # {}
First(c, n) == CHOOSE i \in Where(c, n) : \A j \in Where(c, n) : i <= j

hasattr(s, n) == own[s][n] # "none" \/ Found(world.class[s], n)

getattr(s, n) ==
    LET c == world.class[s]
    IN  IF own[s][n] # "none" THEN [way |-> own[s][n], by |-> c]
        ELSE IF Found(c, n) THEN [way |-> class[world.mro[c][First(c, n)]][n],
                                  by |-> world.mro[c][First(c, n)]]
        ELSE [way |-> "none", by |-> c]

\* isinstance(stream, AsyncIOStream): the protocol is checked by name.
AsyncIOStream(s) == \A n \in AsyncNames \cup {"asplice"} : hasattr(s, n)

----------------------------------------------------------------------------
(* AsyncStreamAdapter: what its method n does with the stream s. *)

Adapter(s, n) ==
    IF n = "asplice" THEN "splice"
    ELSE IF hasattr(s, n) THEN "inner"
    ELSE IF n \in BatchNames THEN "each"
    ELSE IF n \in {"flush", "aflush"} /\ ~hasattr(s, "flush") THEN "nothing"
    ELSE IF n \in AsyncNames THEN "inner thread" ELSE "none"

Init ==
    /\ world \in Worlds
    /\ class = [c \in DOMAIN world.mro \cup {"AsyncIOBase"} |-> Defined(world, c)]
    /\ own = [s \in Streams |-> Nothing]
    /\ thread = [t \in Threads |-> Idle]

----------------------------------------------------------------------------
(* Calls.  A frame knows its stream, whether it runs on the adapter of the *)
(* stream, the name being called, and whether its thread runs a loop.      *)

Do(t, record) ==
    /\ thread' = [thread EXCEPT ![t] = record]
    /\ UNCHANGED <<world, class, own>>

\* An asynchronous method is called in a loop, a synchronous one there or elsewhere.
Call(t, s, adapter, n, loop) ==
    /\ t \in Callers /\ thread[t] = Idle
    /\ n \notin Sync => loop
    /\ adapter => ~AsyncIOStream(s)
    /\ Do(t, [do |-> "call", stream |-> s, adapter |-> adapter, name |-> n, loop |-> loop,
              asked |-> n, asked_in |-> loop])

Method(f) ==
    IF f.adapter THEN [way |-> Adapter(f.stream, f.name), by |-> "AsyncStreamAdapter"]
    ELSE getattr(f.stream, f.name)

Runs(t, way) == thread[t].do = "call" /\ Method(thread[t]).way = way

End(t, result, by) ==
    Do(t, [do |-> "ended", stream |-> thread[t].stream, asked |-> thread[t].asked,
           loop |-> thread[t].asked_in, result |-> result, by |-> by])

Goto(t, n, loop) == Do(t, [thread[t] EXCEPT !.name = n, !.loop = loop])

Work(t) ==
    /\ Runs(t, "io") \/ Runs(t, "auto")
    /\ End(t, "done", Method(thread[t]).by)

\* await asyncio.to_thread(self.read, size)
ToThread(t) ==
    /\ Runs(t, "thread")
    /\ Goto(t, Operation(thread[t].name), FALSE)

\* AsyncIOBase.read and write: asyncio.run, or an error where a loop is running.
BridgeToLoop(t) ==
    /\ Runs(t, "bridge")
    /\ IF thread[t].loop THEN End(t, "RuntimeError", "AsyncIOBase")
       ELSE Goto(t, Async[thread[t].name], TRUE)

ForEach(t) ==
    /\ Runs(t, "each")
    /\ Goto(t, Async[Operation(thread[t].name)], TRUE)

Splice(t) ==
    /\ Runs(t, "splice")
    /\ Goto(t, "aread", TRUE)

\* The adapter's delegation to the stream inside it.
Delegate(t) ==
    \/ /\ Runs(t, "inner")
       /\ Do(t, [thread[t] EXCEPT !.adapter = FALSE])
    \/ /\ Runs(t, "inner thread")
       /\ Do(t, [thread[t] EXCEPT !.adapter = FALSE, !.loop = FALSE,
                                  !.name = Operation(thread[t].name)])

Refuse(t) ==
    \/ /\ Runs(t, "none")
       /\ End(t, "AttributeError", Method(thread[t]).by)
    \/ /\ Runs(t, "stub") \/ Runs(t, "nothing")
       /\ End(t, "stub", Method(thread[t]).by)

Run(t) == \/ Work(t) \/ ToThread(t) \/ BridgeToLoop(t) \/ ForEach(t) \/ Splice(t)
          \/ Delegate(t) \/ Refuse(t)

Return(t) ==
    /\ thread[t].do \in {"ended", "patched", "raised"}
    /\ Do(t, Idle)

----------------------------------------------------------------------------
(* Patching a stream in place: seven methods, each put into the class and  *)
(* into the instance, then stubs for what the class still lacks.           *)

Methods == << [name |-> "aread",        way |-> "thread", needs |-> {"read"}],
              [name |-> "aread_batch",  way |-> "each",   needs |-> {"aread", "read"}],
              [name |-> "awrite",       way |-> "thread", needs |-> {"write"}],
              [name |-> "awrite_batch", way |-> "each",   needs |-> {"awrite", "write"}],
              [name |-> "aclose",       way |-> "thread", needs |-> {"close"}],
              [name |-> "aflush",       way |-> "thread", needs |-> {"flush"}],
              [name |-> "asplice",      way |-> "splice", needs |-> {}] >>
Stubs == <<"aread", "awrite", "aclose", "aflush", "asplice">>

\* ensure_async_stream(s) and patch_stream(s).  With in_place=False a stream that does
\* not conform is wrapped, which changes nothing: see Call, with adapter.
patch_stream(t, s) ==
    /\ t \in Patchers /\ thread[t] = Idle
    /\ ~AsyncIOStream(s)
    /\ Do(t, [do |-> "methods", stream |-> s, at |-> 1, found |-> FALSE])

\* Mutant: a method the stream has already is replaced as well.
MissingOrNot(s) == {i \in DOMAIN Methods : \E n \in Methods[i].needs : hasattr(s, n)}

\* hasattr(stream, "read") and not hasattr(stream, "aread"), and the like.
Missing(s) == {i \in DOMAIN Methods :
    /\ Methods[i].needs = {} \/ \E n \in Methods[i].needs : hasattr(s, n)
    /\ ~hasattr(s, Methods[i].name)}

\* Mutant: a stub is wanted when the instance's dictionary lacks the method.
MissingInInstance(s) == {i \in DOMAIN Stubs : own[s][Stubs[i]] = "none"}

\* Mutant: the stubs of close and flush are forgotten.
MissingOfTwo(s) == {i \in 1..2 : ~Found(world.class[s], Stubs[i])}

\* not hasattr(cls, "aread")
MissingInClass(s) == {i \in DOMAIN Stubs : ~Found(world.class[s], Stubs[i])}

\* What is there stays there, so the checks that skip a method are made in one step with
\* the check that finds one missing; another thread may add it before Assign does.
Find(t, part, missing, next) ==
    LET f     == thread[t]
        later == {i \in missing : i >= f.at}
    IN  /\ f.do = part /\ ~f.found
        /\ Do(t, IF later = {} THEN [f EXCEPT !.do = next, !.at = 1]
                 ELSE [f EXCEPT !.found = TRUE, !.at = CHOOSE i \in later : \A j \in later : i <= j])

Check(t) ==
    /\ thread[t].do = "methods"
    /\ Find(t, "methods", Missing(thread[t].stream), "stubs")

CheckStub(t) ==
    /\ thread[t].do = "stubs"
    /\ Find(t, "stubs", MissingInClass(thread[t].stream), "patched")

\* Mutant: the next method is taken for one found missing.
SkipToFound(f) == [f EXCEPT !.at = @ + 1]

Skip(f) == [f EXCEPT !.at = @ + 1, !.found = FALSE]

\* An error of the class assignment is suppressed.
AssignToClass(s, n, way) ==
    class' = IF world.class[s] \in world.immutable THEN class
             ELSE [class EXCEPT ![world.class[s]][n] = way]

\* An error of the instance assignment is raised.
Assign(t) ==
    LET f == thread[t]
        m == Methods[f.at]
    IN  /\ f.do = "methods" /\ f.found
        /\ AssignToClass(f.stream, m.name, m.way)
        /\ \/ /\ f.stream \in world.slotted
              /\ thread' = [thread EXCEPT ![t].do = "raised"]
              /\ own' = own
           \/ /\ f.stream \notin world.slotted
              /\ thread' = [thread EXCEPT ![t] = Skip(f)]
              /\ own' = [own EXCEPT ![f.stream][m.name] = m.way]
        /\ UNCHANGED world

AssignStub(t) ==
    LET f == thread[t]
    IN  /\ f.do = "stubs" /\ f.found
        /\ AssignToClass(f.stream, Stubs[f.at], "stub")
        /\ thread' = [thread EXCEPT ![t] = Skip(f)]
        /\ UNCHANGED <<world, own>>

Next == \E t \in Threads :
    \/ \E s \in Streams, adapter \in BOOLEAN, n \in Calls, loop \in BOOLEAN :
           Call(t, s, adapter, n, loop)
    \/ Run(t) \/ Return(t)
    \/ \E s \in Streams : patch_stream(t, s)
    \/ Check(t) \/ Assign(t) \/ CheckStub(t) \/ AssignStub(t)

\* A call that can go on does: threads of the pool and event loops run.
Spec == Init /\ [][Next]_vars /\ \A t \in Threads : WF_vars(Run(t))
----------------------------------------------------------------------------
(* Properties. *)

\* The dictionaries hold definitions, and every thread is in a step of the code.
TypeOK ==
    /\ world \in Worlds
    /\ class \in [DOMAIN world.mro \cup {"AsyncIOBase"} -> [Names -> Ways]]
    /\ own \in [Streams -> [Names -> Ways]]
    /\ \A t \in Threads :
           LET f == thread[t] IN
           \/ f = Idle
           \/ /\ f.do \in {"call", "ended", "methods", "stubs", "patched", "raised"}
              /\ f.stream \in Streams
              /\ f.do = "methods" /\ f.found => f.at \in DOMAIN Methods
              /\ f.do = "stubs" /\ f.found => f.at \in DOMAIN Stubs

Ended(t) == thread[t].do = "ended"
Of(t) == world.class[thread[t].stream]
Form(t) == Operation(thread[t].asked)

\* The foremost class that defines an operation by hand, in either form.
Body(d) == IF d = "AsyncIOBase" THEN Sync ELSE world.body[d]
Byhand(c, o) == {i \in DOMAIN world.mro[c] : {o, Async[o]} \cap Body(world.mro[c][i]) # {}}
Foremost(c, o) ==
    world.mro[c][CHOOSE i \in Byhand(c, o) : \A j \in Byhand(c, o) : i <= j]

\* Patching a stream of a mixin put the asynchronous form into a class ahead of all those
\* that define the operation by hand.
Overtaken(c, o) == \E i \in DOMAIN world.mro[c] :
    class[world.mro[c][i]][Async[o]] # "none" /\ \A j \in Byhand(c, o) : i < j

\* All forms of an operation do the work of the foremost class that defines it, through
\* wrappers, threads and loops; except the synchronous form of a class that has only the
\* asynchronous one, a mixin that the metaclass never saw or that was patched and comes
\* first, and a batch or splice written by hand.
FormsAgree == \A t \in Threads :
    Ended(t) /\ thread[t].result = "done" /\ Managed(world, Of(t)) =>
        LET d == Foremost(Of(t), Form(t))
        IN  \/ thread[t].by = d
            \/ thread[t].asked \in Sync /\ thread[t].asked \notin Body(d)
            \/ ~Managed(world, d) \/ Overtaken(Of(t), Form(t))
            \/ /\ thread[t].asked \in BatchNames \cup {"asplice"}
               /\ thread[t].asked \in Body(thread[t].by)

\* A synchronous read called in a running loop raises RuntimeError, on every stream under
\* AsyncIOBase, as README.md says: none blocks the loop.
SyncReadRefused == \A t \in Threads :
    Ended(t) /\ Managed(world, Of(t)) /\ thread[t].asked = "read" /\ thread[t].loop =>
        thread[t].result = "RuntimeError"

\* A stub answers for an operation that the stream does not have, or where patching a
\* stream of an ancestor, which did not have it, left the stub to be inherited.
StubsForMissing == \A t \in Threads :
    Ended(t) /\ thread[t].result = "stub" =>
        \/ ~hasattr(thread[t].stream, Form(t))
        \/ thread[t].by # Of(t)

\* A patched stream conforms, whatever other threads patch meanwhile, unless its class
\* takes no attributes and an operation is missing.
PatchedConform == \A t \in Threads :
    thread[t].do = "patched" =>
        \/ AsyncIOStream(thread[t].stream)
        \/ Of(t) \in world.immutable /\ \E o \in Sync : ~hasattr(thread[t].stream, o)

\* Patching never replaces a method that a class brought, for the patched stream or for
\* another one, but for those that inherit the patched class ahead of that class.
BroughtMethodsKept == [][\A s \in Streams, n \in Names :
    getattr(s, n).way \in {"io", "auto"} =>
        \/ getattr(s, n)' = getattr(s, n)
        \/ getattr(s, n).by # getattr(s, n).by' /\ getattr(s, n).by' # world.class[s]]_vars

\* A call ends, through threads and loops, if any class defines its operation; in a class
\* that defines neither form, read and aread call each other without end.
Answerable(t) ==
    \/ ~Managed(world, Of(t))
    \/ Form(t) \in {"close", "flush"}
    \/ Foremost(Of(t), Form(t)) # "AsyncIOBase"
CallsEnd == \A t \in Threads :
    thread[t].do = "call" /\ Answerable(t) ~> thread[t].do # "call"

=============================================================================

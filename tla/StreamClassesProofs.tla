------------------------ MODULE StreamClassesProofs -------------------------
(***************************************************************************)
(* Proofs about StreamClasses: for every program, whatever its classes and *)
(* their MROs, and every number of threads, calls and patches.             *)
(*                                                                         *)
(* The invariant follows the dictionaries: patching adds to the classes    *)
(* that the metaclass did not make, only where they had nothing, and never *)
(* a synchronous method.  A call is then traced from the name that was     *)
(* asked for to the one it has come to, and a patch by what it has behind  *)
(* it.                                                                     *)
(***************************************************************************)
EXTENDS StreamClasses, WellFoundedInduction, TLAPS

----------------------------------------------------------------------------
(* The invariant. *)

Classes(w) == DOMAIN w.mro \cup {"AsyncIOBase"}

CallFrame == [do : {"call"}, stream : Streams, adapter : BOOLEAN, name : Names,
              loop : BOOLEAN, asked : Names, asked_in : BOOLEAN]
EndFrame == [do : {"ended"}, stream : Streams, asked : Names, loop : BOOLEAN,
             result : {"done", "RuntimeError", "AttributeError", "stub"},
             by : Classes(world) \cup {"AsyncStreamAdapter"}]
PatchFrame == [do : {"methods", "stubs", "patched", "raised"}, stream : Streams,
               at : Nat, found : BOOLEAN]
Frames == {Idle} \cup CallFrame \cup EndFrame \cup PatchFrame

TypeInv ==
    /\ world \in Worlds
    /\ class \in [Classes(world) -> [Names -> Ways]]
    /\ own \in [Streams -> [Names -> Ways]]
    /\ thread \in [Threads -> Frames]

\* What a patch may have put where class d had nothing: the base's own way, or a stub
\* where the operation is missing.
Patch(d, n) ==
    /\ ~Managed(world, d) /\ n \notin Sync
    /\ Defined(world, d)[n] = "none"
    /\ \/ class[d][n] = AsyncIOBase[n]
       \/ class[d][n] = "stub" /\ ~Found(d, Operation(n))

ClassInv == \A d \in Classes(world), n \in Names :
    class[d][n] = Defined(world, d)[n] \/ Patch(d, n)

\* The class of a stream has what the stream has, if it takes attributes.
Kept(s, n) ==
    /\ n \notin Sync /\ ~Managed(world, world.class[s])
    /\ own[s][n] = AsyncIOBase[n]
    /\ world.class[s] \in world.immutable \/ class[world.class[s]][n] # "none"

OwnInv == \A s \in Streams, n \in Names : own[s][n] = "none" \/ Kept(s, n)

\* A call that must end with an error, as only the base answers it, in a loop.
MustRaise(s, n, loop) ==
    loop /\ n \in {"read", "write"} /\ getattr(s, n).by = "AsyncIOBase"

\* A call that goes to a thread ran into the base's wrapper: nothing before it is defined by
\* hand, or a mixin that was not made by the metaclass answers.
Wrapped(c, o) ==
    \/ Foremost(c, o) = "AsyncIOBase"
    \/ ~Managed(world, Foremost(c, o))
    \/ Overtaken(c, o)

Traced(f) ==
    /\ Operation(f.name) = Operation(f.asked)
    /\ f.name \in Sync /\ f.loop => f.asked = f.name /\ f.asked_in
    /\ f.name \notin Sync \cup AsyncNames => f.asked = f.name
    /\ Managed(world, world.class[f.stream]) =>
           /\ ~f.adapter
           /\ MustRaise(f.stream, f.asked, f.asked_in) => f.name = f.asked /\ f.loop
           /\ f.name \in Sync /\ f.asked \notin Sync =>
                  Wrapped(world.class[f.stream], Operation(f.asked))

\* Which class did the work.
Agrees(f) ==
    LET d == Foremost(world.class[f.stream], Operation(f.asked))
    IN  \/ f.by = d
        \/ f.asked \in Sync /\ f.asked \notin Body(d)
        \/ ~Managed(world, d) \/ Overtaken(world.class[f.stream], Operation(f.asked))
        \/ f.asked \in BatchNames \cup {"asplice"} /\ f.asked \in Body(f.by)

Answered(f) ==
    /\ Managed(world, world.class[f.stream]) =>
           /\ f.result = "RuntimeError" <=> MustRaise(f.stream, f.asked, f.loop)
           /\ f.result = "done" => Agrees(f)
    /\ f.result = "stub" =>
           ~hasattr(f.stream, Operation(f.asked)) \/ f.by # world.class[f.stream]

\* The stream has method i, if it has the operation at all.
Provided(s, i) ==
    hasattr(s, Operation(Methods[i].name)) \/ Methods[i].needs = {} => hasattr(s, Methods[i].name)

\* Nothing along the MRO of the stream's class brings n.
Unbrought(s, n) == \A i \in DOMAIN world.mro[world.class[s]] :
    class[world.mro[world.class[s]][i]][n] \notin {"io", "auto"}

\* A stub is wanted for n, and there is nothing else.
Wanting(s, n) ==
    /\ Unbrought(s, n)
    /\ world.class[s] \in world.immutable \/ ~Found(world.class[s], Operation(n))

Settled(s, n) == world.class[s] \in world.immutable \/ Found(world.class[s], n)

Patching(f) ==
    LET s == f.stream
    IN  /\ ~Managed(world, world.class[s])
        /\ f.do = "methods" => \A i \in DOMAIN Methods : i < f.at => Provided(s, i)
        /\ f.do = "methods" /\ f.found => f.at \in DOMAIN Methods /\ Unbrought(s, Methods[f.at].name)
        /\ f.do \in {"stubs", "patched"} => \A i \in DOMAIN Methods : Provided(s, i)
        /\ f.do = "stubs" => \A i \in DOMAIN Stubs : i < f.at => Settled(s, Stubs[i])
        /\ f.do = "stubs" /\ f.found => f.at \in DOMAIN Stubs /\ Wanting(s, Stubs[f.at])
        /\ f.do = "patched" => \A i \in DOMAIN Stubs : Settled(s, Stubs[i])

Sound(f) ==
    /\ f.do = "call" => Traced(f)
    /\ f.do = "ended" => Answered(f)
    /\ f.do \in {"methods", "stubs", "patched"} => Patching(f)

FrameInv == \A t \in Threads : Sound(thread[t])

Inv == TypeInv /\ ClassInv /\ OwnInv /\ FrameInv

----------------------------------------------------------------------------
(* Names and numbers. *)

LEMMA SyncIs == Sync = {"read", "write", "close", "flush"}
    BY DEF Sync, Async

LEMMA AsyncIs ==
    /\ Async["read"] = "aread" /\ Async["write"] = "awrite"
    /\ Async["close"] = "aclose" /\ Async["flush"] = "aflush"
    BY DEF Async

LEMMA BatchIs ==
    /\ DOMAIN Batch = {"read", "write"}
    /\ Batch["read"] = "aread_batch" /\ Batch["write"] = "awrite_batch"
    BY DEF Batch

LEMMA NamesAre ==
    /\ AsyncNames = {"aread", "awrite", "aclose", "aflush"}
    /\ BatchNames = {"aread_batch", "awrite_batch"}
    /\ Names = {"read", "write", "close", "flush", "aread", "awrite", "aclose", "aflush",
                "aread_batch", "awrite_batch", "asplice"}
<1>1. AsyncNames = {"aread", "awrite", "aclose", "aflush"}
    BY SyncIs, AsyncIs DEF AsyncNames
<1>2. BatchNames = {"aread_batch", "awrite_batch"}
    BY BatchIs DEF BatchNames
<1> QED
    BY <1>1, <1>2, SyncIs DEF Names

\* Every name is a form of one operation.
FormOf(o, n) == n \in {o, Async[o]} \/ (o \in DOMAIN Batch /\ n = Batch[o])
                \/ (o = "read" /\ n = "asplice")

LEMMA OperationOfForm ==
    ASSUME NEW o \in Sync, NEW n \in Names, FormOf(o, n)
    PROVE  Operation(n) = o
<1>1. \A x \in Sync : FormOf(x, n) => x = o
    BY SyncIs, AsyncIs, BatchIs, NamesAre DEF FormOf
<1>2. Operation(n) = CHOOSE x \in Sync : FormOf(x, n)
    BY DEF Operation, FormOf
<1> QED
    BY <1>1, <1>2

LEMMA EveryFormOfOne == \A n \in Names : Operation(n) \in Sync /\ FormOf(Operation(n), n)
<1> SUFFICES ASSUME NEW n \in Names PROVE Operation(n) \in Sync /\ FormOf(Operation(n), n)
    OBVIOUS
<1>1. \E x \in Sync : FormOf(x, n)
    BY SyncIs, AsyncIs, BatchIs, NamesAre DEF FormOf
<1> QED
    BY <1>1, OperationOfForm

LEMMA Forms ==
    /\ \A o \in Sync : Operation(o) = o /\ Async[o] \in AsyncNames /\ Operation(Async[o]) = o
    /\ \A n \in AsyncNames : Operation(n) \in Sync /\ Async[Operation(n)] = n
    /\ \A n \in BatchNames : Operation(n) \in DOMAIN Batch
    /\ Operation("asplice") = "read"
<1>1. \A o \in Sync : o \in Names /\ Async[o] \in AsyncNames /\ Async[o] \in Names
    BY SyncIs, AsyncIs, NamesAre
<1>2. \A o \in Sync : Operation(o) = o /\ Operation(Async[o]) = o
    BY <1>1, OperationOfForm DEF FormOf
<1>3. \A n \in AsyncNames : Operation(n) \in Sync /\ Async[Operation(n)] = n
    BY <1>2 DEF AsyncNames
<1>4. \A n \in BatchNames : Operation(n) \in DOMAIN Batch
    BY OperationOfForm, NamesAre, SyncIs, BatchIs DEF FormOf
<1>5. Operation("asplice") = "read"
    BY OperationOfForm, NamesAre, SyncIs DEF FormOf
<1> QED
    BY <1>1, <1>2, <1>3, <1>4, <1>5

LEMMA Kinds ==
    /\ Sync \subseteq Names /\ AsyncNames \subseteq Names /\ BatchNames \subseteq Names
    /\ "asplice" \in Names
    /\ \A n \in Names : n \in Sync \/ n \in AsyncNames \/ n \in BatchNames \/ n = "asplice"
    /\ \A n \in Sync : n \notin AsyncNames /\ n \notin BatchNames /\ n # "asplice"
    /\ \A n \in AsyncNames : n \notin BatchNames /\ n # "asplice"
    /\ "asplice" \notin BatchNames
    BY SyncIs, NamesAre

LEMMA Less == \A a, b \in Nat : a < b => <<a, b>> \in OpToRel(<, Nat)
    BY DEF OpToRel

\* A set of numbers has a least one.
LEMMA LeastOf ==
    ASSUME NEW T, T \subseteq Nat, T # {}
    PROVE  \E i \in T : \A j \in T : i <= j
<1>1. PICK i \in T : \A j \in T : ~(<<j, i>> \in OpToRel(<, Nat))
    BY NatLessThanWellFounded, WFMin
<1>2. \A j \in T : ~(j < i)
    BY <1>1, Less
<1>3. \A j \in T : i <= j
    BY <1>2
<1> QED
    BY <1>3

\* The least one, as the model chooses it.
LEMMA ChosenLeast ==
    ASSUME NEW T, T \subseteq Nat, T # {}
    PROVE  LET k == CHOOSE i \in T : \A j \in T : i <= j
           IN  k \in T /\ \A j \in T : k <= j
    BY LeastOf

LEMMA LeastIs ==
    ASSUME NEW T, T \subseteq Nat, NEW k \in T, \A j \in T : k <= j
    PROVE  (CHOOSE i \in T : \A j \in T : i <= j) = k
<1>1. \A i \in T : (\A j \in T : i <= j) => i = k
    OBVIOUS
<1> QED
    BY <1>1

----------------------------------------------------------------------------
(* Classes. *)

LEMMA BaseIs ==
    /\ \A n \in {"read", "write"} : AsyncIOBase[n] = "bridge"
    /\ \A n \in {"close", "flush"} : AsyncIOBase[n] = "io"
    /\ \A n \in AsyncNames : AsyncIOBase[n] = "thread"
    /\ \A n \in BatchNames : AsyncIOBase[n] = "each"
    /\ AsyncIOBase["asplice"] = "splice"
    BY NamesAre DEF AsyncIOBase

LEMMA BaseType == AsyncIOBase \in [Names -> Ways]
<1>1. \A n \in Names : AsyncIOBase[n] \in Ways
    BY BaseIs, Kinds, SyncIs DEF Ways
<1> QED
    BY <1>1 DEF AsyncIOBase

LEMMA WorldIs ==
    ASSUME NEW w \in Worlds
    PROVE  /\ "AsyncIOBase" \notin DOMAIN w.mro
           /\ \A c \in DOMAIN w.mro :
                  /\ DOMAIN w.mro[c] \subseteq Nat /\ 1 \in DOMAIN w.mro[c] /\ w.mro[c][1] = c
                  /\ \A i \in DOMAIN w.mro[c] : 1 <= i /\ w.mro[c][i] \in Classes(w)
           /\ w.body \in [DOMAIN w.mro -> SUBSET Names]
           /\ w.class \in [Streams -> DOMAIN w.mro]
<1>1. /\ "AsyncIOBase" \notin DOMAIN w.mro
      /\ \A c \in DOMAIN w.mro :
             /\ w.mro[c] \in Seq(DOMAIN w.mro \cup {"AsyncIOBase"})
             /\ w.mro[c] # <<>> /\ w.mro[c][1] = c
      /\ w.body \in [DOMAIN w.mro -> SUBSET Names]
      /\ w.class \in [Streams -> DOMAIN w.mro]
    BY WorldAssumption
<1>2. ASSUME NEW c \in DOMAIN w.mro
      PROVE  /\ DOMAIN w.mro[c] \subseteq Nat /\ 1 \in DOMAIN w.mro[c]
             /\ \A i \in DOMAIN w.mro[c] : 1 <= i /\ w.mro[c][i] \in Classes(w)
    <2>1. w.mro[c] \in Seq(DOMAIN w.mro \cup {"AsyncIOBase"}) /\ w.mro[c] # <<>>
        BY <1>1
    <2> DEFINE m == w.mro[c]
    <2> HIDE DEF m
    <2>2. m \in Seq(DOMAIN w.mro \cup {"AsyncIOBase"}) /\ m # <<>>
        BY <2>1 DEF m
    <2>3. DOMAIN m = 1..Len(m) /\ Len(m) \in Nat /\ Len(m) > 0
        BY <2>2
    <2>4. \A i \in DOMAIN m : m[i] \in DOMAIN w.mro \cup {"AsyncIOBase"}
        BY <2>2
    <2> QED
        BY <2>3, <2>4 DEF m, Classes
<1> QED
    BY <1>1, <1>2

\* What a class has before anything is patched.
LEMMA DefinedIs ==
    ASSUME NEW w \in Worlds, NEW d \in DOMAIN w.mro, NEW n \in Names
    PROVE  /\ n \in w.body[d] => Defined(w, d)[n] = "io"
           /\ n \notin w.body[d] =>
                  \/ Defined(w, d)[n] = "none"
                  \/ /\ Defined(w, d)[n] = "auto" /\ Managed(w, d)
                     /\ n \in AsyncNames /\ Operation(n) \in w.body[d]
                  \/ Defined(w, d)[n] = "each" /\ Managed(w, d) /\ n \in BatchNames
           /\ Managed(w, d) /\ n \in AsyncNames /\ Operation(n) \in w.body[d] =>
                  Defined(w, d)[n] \in {"io", "auto"}
<1>1. d # "AsyncIOBase"
    BY WorldIs
<1>2. CASE Managed(w, d)
    <2>1. Defined(w, d)[n] = AsyncIOBaseMeta(w.body[d], Inherited(w, d))[n]
        BY <1>1, <1>2 DEF Defined
    <2> QED
        BY <1>2, <2>1 DEF AsyncIOBaseMeta
<1>3. CASE ~Managed(w, d)
    <2>1. Defined(w, d)[n] = Plain(w.body[d])[n]
        BY <1>1, <1>3 DEF Defined
    <2> QED
        BY <1>3, <2>1 DEF Plain
<1> QED
    BY <1>2, <1>3

LEMMA BaseDefined == \A w : Defined(w, "AsyncIOBase") = AsyncIOBase /\ Managed(w, "AsyncIOBase")
    BY DEF Defined, Managed

LEMMA DefinedType ==
    ASSUME NEW w \in Worlds, NEW d \in Classes(w)
    PROVE  Defined(w, d) \in [Names -> Ways]
<1>1. CASE d = "AsyncIOBase"
    BY <1>1, BaseDefined, BaseType
<1>2. CASE d \in DOMAIN w.mro
    <2>1. \A n \in Names : Defined(w, d)[n] \in Ways
        BY <1>2, DefinedIs DEF Ways
    <2>2. d # "AsyncIOBase"
        BY <1>2, WorldIs
    <2>3. Defined(w, d) = [n \in Names |-> Defined(w, d)[n]]
        <3>1. CASE Managed(w, d)
            BY <2>2, <3>1 DEF Defined, AsyncIOBaseMeta
        <3>2. CASE ~Managed(w, d)
            BY <2>2, <3>2 DEF Defined, Plain
        <3> QED
            BY <3>1, <3>2
    <2> QED
        BY <2>1, <2>3
<1> QED
    BY <1>1, <1>2 DEF Classes

\* The synchronous methods are those defined by hand, and the base's.
LEMMA SyncDefined ==
    ASSUME NEW w \in Worlds, NEW d \in Classes(w), NEW n \in Sync
    PROVE  /\ d = "AsyncIOBase" => Defined(w, d)[n] = (IF n \in {"read", "write"} THEN "bridge" ELSE "io")
           /\ d # "AsyncIOBase" => Defined(w, d)[n] = (IF n \in w.body[d] THEN "io" ELSE "none")
<1>1. CASE d = "AsyncIOBase"
    BY <1>1, BaseDefined, BaseIs, SyncIs
<1>2. CASE d # "AsyncIOBase"
    BY <1>2, DefinedIs, Kinds DEF Classes
<1> QED
    BY <1>1, <1>2

----------------------------------------------------------------------------
(* Finding methods. *)

Mro(c) == world.mro[c]

\* Place k is the first along the MRO of c that has n.
FirstAt(c, n, k) ==
    /\ k \in DOMAIN Mro(c) /\ class[Mro(c)[k]][n] # "none"
    /\ \A j \in DOMAIN Mro(c) : class[Mro(c)[j]][n] # "none" => k <= j

LEMMA FirstFound ==
    ASSUME TypeInv, NEW c \in DOMAIN world.mro, NEW n, Found(c, n)
    PROVE  FirstAt(c, n, First(c, n))
<1>1. Where(c, n) \subseteq Nat /\ Where(c, n) # {}
    BY WorldIs DEF TypeInv, Where, Found
<1>2. First(c, n) \in Where(c, n) /\ \A j \in Where(c, n) : First(c, n) <= j
    BY <1>1, ChosenLeast DEF First
<1> QED
    BY <1>2 DEF FirstAt, Where, Mro

LEMMA FirstIs ==
    ASSUME TypeInv, NEW c \in DOMAIN world.mro, NEW n, NEW k, FirstAt(c, n, k)
    PROVE  Found(c, n) /\ First(c, n) = k
<1>1. Where(c, n) \subseteq Nat
    BY WorldIs DEF TypeInv, Where
<1>2. k \in Where(c, n) /\ \A j \in Where(c, n) : k <= j
    BY DEF FirstAt, Where, Mro
<1> QED
    BY <1>1, <1>2, LeastIs DEF First, Found

\* The foremost class that defines an operation.
ForemostAt(c, o, k) ==
    /\ k \in DOMAIN Mro(c) /\ {o, Async[o]} \cap Body(Mro(c)[k]) # {}
    /\ \A j \in DOMAIN Mro(c) : {o, Async[o]} \cap Body(Mro(c)[j]) # {} => k <= j
    /\ Foremost(c, o) = Mro(c)[k]
    /\ Byhand(c, o) = {j \in DOMAIN Mro(c) : {o, Async[o]} \cap Body(Mro(c)[j]) # {}}

LEMMA ForemostFound ==
    ASSUME world \in Worlds, NEW c \in DOMAIN world.mro, Managed(world, c), NEW o \in Sync
    PROVE  \E k : ForemostAt(c, o, k)
<1>1. PICK i \in DOMAIN world.mro[c] : world.mro[c][i] = "AsyncIOBase"
    BY WorldIs DEF Managed
<1>2. i \in Byhand(c, o)
    BY <1>1 DEF Byhand, Body
<1>3. Byhand(c, o) \subseteq Nat
    BY WorldIs DEF Byhand
<1> DEFINE k == CHOOSE x \in Byhand(c, o) : \A j \in Byhand(c, o) : x <= j
<1>4. k \in Byhand(c, o) /\ \A j \in Byhand(c, o) : k <= j
    BY <1>2, <1>3, ChosenLeast
<1>5. Foremost(c, o) = Mro(c)[k]
    BY DEF Foremost, Mro
<1> HIDE DEF k
<1>6. ForemostAt(c, o, k)
    BY <1>4, <1>5 DEF ForemostAt, Byhand, Mro
<1> QED
    BY <1>6

\* The synchronous methods that a class has are settled by its world.
LEMMA SyncOf ==
    ASSUME TypeInv, ClassInv, NEW d \in Classes(world), NEW n \in Sync
    PROVE  /\ d = "AsyncIOBase" => class[d][n] = (IF n \in {"read", "write"} THEN "bridge" ELSE "io")
           /\ d # "AsyncIOBase" => class[d][n] = (IF n \in world.body[d] THEN "io" ELSE "none")
           /\ class[d][n] # "none" <=> n \in Body(d)
<1>1. class[d][n] = Defined(world, d)[n]
    BY Kinds DEF ClassInv, Patch
<1>2. /\ d = "AsyncIOBase" => class[d][n] = (IF n \in {"read", "write"} THEN "bridge" ELSE "io")
      /\ d # "AsyncIOBase" => class[d][n] = (IF n \in world.body[d] THEN "io" ELSE "none")
    BY <1>1, SyncDefined DEF TypeInv
<1> QED
    BY <1>2 DEF Body

\* What the metaclass made stays as it made it.
LEMMA ManagedOf ==
    ASSUME ClassInv, NEW d \in Classes(world), Managed(world, d), NEW n \in Names
    PROVE  class[d][n] = Defined(world, d)[n]
    BY DEF ClassInv, Patch

LEMMA BaseOf ==
    ASSUME ClassInv, NEW n \in Names
    PROVE  class["AsyncIOBase"][n] = AsyncIOBase[n]
    BY ManagedOf, BaseDefined DEF Classes

\* Streams under AsyncIOBase have all methods.
LEMMA ManagedConforms ==
    ASSUME TypeInv, ClassInv, NEW s \in Streams, Managed(world, world.class[s])
    PROVE  (\A n \in Names : Found(world.class[s], n)) /\ AsyncIOStream(s)
<1>1. world.class[s] \in DOMAIN world.mro
    BY WorldIs DEF TypeInv
<1>2. PICK i \in DOMAIN world.mro[world.class[s]] : world.mro[world.class[s]][i] = "AsyncIOBase"
    BY <1>1, WorldIs DEF Managed, TypeInv
<1>3. \A n \in Names : class["AsyncIOBase"][n] # "none"
    BY BaseOf, BaseIs, Kinds, SyncIs
<1>4. \A n \in Names : Found(world.class[s], n)
    BY <1>2, <1>3 DEF Found, Where
<1> QED
    BY <1>4, Kinds DEF AsyncIOStream, hasattr

----------------------------------------------------------------------------
(* Which way a method is found to be defined. *)

\* What an entry n of the dictionary of class d says of n and d.
LEMMA EntryIs ==
    ASSUME TypeInv, ClassInv, NEW d \in Classes(world), NEW n \in Names
    PROVE  LET way == class[d][n]
           IN  /\ way \in Ways
               /\ way \in {"thread", "auto"} => n \in AsyncNames
               /\ way = "bridge" <=> n \in {"read", "write"} /\ d = "AsyncIOBase"
               /\ way = "each" => n \in BatchNames
               /\ way = "splice" => n = "asplice"
               /\ way = "io" => n \in Body(d)
               /\ way = "stub" => n \notin Sync /\ d # "AsyncIOBase" /\ ~Found(d, Operation(n))
<1>1. class[d][n] \in Ways
    BY DEF TypeInv
<1>2. CASE d = "AsyncIOBase"
    <2>1. class[d][n] = AsyncIOBase[n]
        BY <1>2, BaseOf
    <2> QED
        BY <1>1, <1>2, <2>1, BaseIs, Kinds, SyncIs DEF Body
<1>3. CASE d # "AsyncIOBase"
    <2>1. d \in DOMAIN world.mro
        BY <1>3 DEF Classes
    <2>2. CASE class[d][n] = Defined(world, d)[n]
        <3>1. class[d][n] \in {"io", "none", "auto", "each"}
            BY <2>1, <2>2, DefinedIs DEF TypeInv
        <3>2. /\ class[d][n] = "io" => n \in world.body[d]
              /\ class[d][n] = "auto" => n \in AsyncNames
              /\ class[d][n] = "each" => n \in BatchNames
            BY <2>1, <2>2, DefinedIs DEF TypeInv
        <3> QED
            BY <1>1, <1>3, <3>1, <3>2 DEF Body
    <2>3. CASE Patch(d, n)
        <3>1. /\ n \notin Sync
              /\ class[d][n] = "stub" \/ class[d][n] = AsyncIOBase[n]
              /\ class[d][n] = "stub" /\ AsyncIOBase[n] # "stub" => ~Found(d, Operation(n))
            BY <2>3 DEF Patch
        <3>2. n \notin {"read", "write"}
            BY <3>1, SyncIs
        <3> QED
            BY <1>1, <1>3, <3>1, <3>2, BaseIs, Kinds
    <2> QED
        BY <2>2, <2>3 DEF ClassInv
<1> QED
    BY <1>2, <1>3

LEMMA StreamClass ==
    ASSUME TypeInv, NEW s \in Streams
    PROVE  world.class[s] \in DOMAIN world.mro /\ world.class[s] # "AsyncIOBase"
    BY WorldIs DEF TypeInv

\* A method is found in the instance, or at the first place, or nowhere.
LEMMA GetattrIs ==
    ASSUME TypeInv, NEW s \in Streams, NEW n
    PROVE  LET c == world.class[s] IN
           \/ own[s][n] # "none" /\ getattr(s, n) = [way |-> own[s][n], by |-> c]
           \/ /\ own[s][n] = "none"
              /\ \E k : /\ FirstAt(c, n, k)
                        /\ getattr(s, n) = [way |-> class[Mro(c)[k]][n], by |-> Mro(c)[k]]
           \/ /\ own[s][n] = "none" /\ ~Found(c, n)
              /\ getattr(s, n) = [way |-> "none", by |-> c]
<1> DEFINE c == world.class[s]
<1>1. CASE own[s][n] # "none"
    BY <1>1 DEF getattr
<1>2. CASE own[s][n] = "none" /\ Found(c, n)
    <2>1. FirstAt(c, n, First(c, n))
        BY <1>2, StreamClass, FirstFound
    <2>2. getattr(s, n) = [way |-> class[Mro(c)[First(c, n)]][n], by |-> Mro(c)[First(c, n)]]
        BY <1>2 DEF getattr, Mro
    <2> QED
        BY <1>2, <2>1, <2>2
<1>3. CASE own[s][n] = "none" /\ ~Found(c, n)
    BY <1>3 DEF getattr
<1> QED
    BY <1>1, <1>2, <1>3

LEMMA MroClass ==
    ASSUME TypeInv, NEW c \in DOMAIN world.mro, NEW k \in DOMAIN Mro(c)
    PROVE  k \in Nat /\ Mro(c)[k] \in Classes(world)
    BY WorldIs DEF TypeInv, Mro

LEMMA GetattrWays ==
    ASSUME TypeInv, ClassInv, OwnInv, NEW s \in Streams, NEW n \in Names
    PROVE  LET a == getattr(s, n)
           IN  /\ a.way \in Ways /\ a.by \in Classes(world)
               /\ a.way \in {"thread", "auto"} => n \in AsyncNames
               /\ a.way = "bridge" <=> n \in {"read", "write"} /\ a.by = "AsyncIOBase"
               /\ a.way = "each" => n \in BatchNames
               /\ a.way = "splice" => n = "asplice"
               /\ a.way = "io" => n \in Body(a.by)
               /\ a.way = "stub" => ~hasattr(s, Operation(n)) \/ a.by # world.class[s]
<1> DEFINE c == world.class[s]
<1>1. c \in DOMAIN world.mro /\ c # "AsyncIOBase" /\ c \in Classes(world)
    BY StreamClass DEF Classes
<1>2. CASE own[s][n] # "none"
    <2>1. getattr(s, n) = [way |-> own[s][n], by |-> c]
        BY <1>2, GetattrIs
    <2>2. n \notin Sync /\ own[s][n] = AsyncIOBase[n]
        BY <1>2 DEF OwnInv, Kept
    <2>3. own[s][n] \in Ways
        BY DEF TypeInv
    <2>4. n \notin {"read", "write"}
        BY <2>2, SyncIs
    <2> QED
        BY <1>1, <2>1, <2>2, <2>3, <2>4, BaseIs, Kinds
<1>3. CASE own[s][n] = "none" /\ ~Found(c, n)
    <2>1. getattr(s, n) = [way |-> "none", by |-> c]
        BY <1>3 DEF getattr
    <2> QED
        BY <1>1, <2>1 DEF Ways
<1>4. CASE own[s][n] = "none" /\ Found(c, n)
    <2>1. PICK k : FirstAt(c, n, k) /\ getattr(s, n) = [way |-> class[Mro(c)[k]][n], by |-> Mro(c)[k]]
        BY <1>4, GetattrIs
    <2>2. k \in DOMAIN Mro(c)
        BY <2>1 DEF FirstAt
    <2>3. PICK d \in Classes(world) : d = Mro(c)[k]
        BY <1>1, <2>2, MroClass
    <2>4. getattr(s, n).way = class[d][n] /\ getattr(s, n).by = d
        BY <2>1, <2>3
    <2>5. class[d][n] = "stub" => ~hasattr(s, Operation(n)) \/ d # c
        <3>1. class[d][n] = "stub" => ~Found(d, Operation(n))
            BY EntryIs
        <3>2. own[s][Operation(n)] = "none"
            BY EveryFormOfOne, Kinds DEF OwnInv, Kept
        <3> QED
            BY <3>1, <3>2 DEF hasattr
    <2> QED
        BY <2>4, <2>5, EntryIs
<1> QED
    BY <1>2, <1>3, <1>4

\* The adapter runs no code of a class; it goes on by other names, or gives up.
LEMMA AdapterWays ==
    ASSUME NEW s, NEW n \in Names
    PROVE  LET way == Adapter(s, n)
           IN  /\ way \in {"splice", "inner", "each", "nothing", "inner thread", "none"}
               /\ way = "splice" => n = "asplice"
               /\ way = "each" => n \in BatchNames
               /\ way = "nothing" => ~hasattr(s, Operation(n))
               /\ way = "inner thread" => n \in AsyncNames
<1>1. Operation("flush") = "flush" /\ Operation("aflush") = "flush"
    BY Forms, SyncIs, AsyncIs
<1> QED
    BY <1>1 DEF Adapter

LEMMA MethodWays ==
    ASSUME TypeInv, ClassInv, OwnInv, NEW f \in CallFrame
    PROVE  LET m == Method(f)
               n == f.name
           IN  /\ m.by \in Classes(world) \cup {"AsyncStreamAdapter"}
               /\ m.way \in {"io", "auto", "thread", "bridge", "stub"} =>
                      ~f.adapter /\ m = getattr(f.stream, n)
               /\ m.way \in {"inner", "inner thread", "nothing"} => f.adapter
               /\ m.way \in {"thread", "auto", "inner thread"} => n \in AsyncNames
               /\ m.way = "bridge" => n \in {"read", "write"} /\ m.by = "AsyncIOBase"
               /\ m.way = "each" => n \in BatchNames
               /\ m.way = "splice" => n = "asplice"
               /\ m.way \in {"stub", "nothing"} =>
                      ~hasattr(f.stream, Operation(n)) \/ m.by # world.class[f.stream]
<1>1. f.stream \in Streams /\ f.name \in Names /\ f.adapter \in BOOLEAN
    BY DEF CallFrame
<1>2. CASE f.adapter
    <2>1. PICK w : w = Adapter(f.stream, f.name)
        OBVIOUS
    <2>2. Method(f) = [way |-> w, by |-> "AsyncStreamAdapter"]
        BY <1>2, <2>1 DEF Method
    <2>3. Method(f).way = w /\ Method(f).by = "AsyncStreamAdapter"
        BY <2>2
    <2>4. /\ w \in {"splice", "inner", "each", "nothing", "inner thread", "none"}
          /\ w = "splice" => f.name = "asplice"
          /\ w = "each" => f.name \in BatchNames
          /\ w = "nothing" => ~hasattr(f.stream, Operation(f.name))
          /\ w = "inner thread" => f.name \in AsyncNames
        BY <1>1, <2>1, AdapterWays
    <2> QED
        BY <1>2, <2>3, <2>4
<1>3. CASE ~f.adapter
    <2>1. Method(f) = getattr(f.stream, f.name)
        BY <1>3 DEF Method
    <2>2. PICK w, d : Method(f).way = w /\ Method(f).by = d
        OBVIOUS
    <2>3. /\ w \in Ways /\ d \in Classes(world)
          /\ w \in {"thread", "auto"} => f.name \in AsyncNames
          /\ w = "bridge" => f.name \in {"read", "write"} /\ d = "AsyncIOBase"
          /\ w = "each" => f.name \in BatchNames
          /\ w = "splice" => f.name = "asplice"
          /\ w = "stub" => ~hasattr(f.stream, Operation(f.name)) \/ d # world.class[f.stream]
        BY <1>1, <2>1, <2>2, GetattrWays
    <2>4. w \notin {"inner", "inner thread", "nothing"}
        BY <2>3 DEF Ways
    <2> QED
        BY <1>3, <2>1, <2>2, <2>3, <2>4
<1> QED
    BY <1>1, <1>2, <1>3

LEMMA ManagedOwn ==
    ASSUME OwnInv, NEW s \in Streams, Managed(world, world.class[s]), NEW n \in Names
    PROVE  own[s][n] = "none"
    BY DEF OwnInv, Kept

\* Under AsyncIOBase every method is found along the MRO.
LEMMA ManagedAt ==
    ASSUME TypeInv, ClassInv, OwnInv, NEW s \in Streams, Managed(world, world.class[s]),
           NEW n \in Names
    PROVE  \E k : /\ FirstAt(world.class[s], n, k)
                  /\ getattr(s, n).way = class[Mro(world.class[s])[k]][n]
                  /\ getattr(s, n).by = Mro(world.class[s])[k]
<1>1. own[s][n] = "none" /\ Found(world.class[s], n)
    BY ManagedOwn, ManagedConforms
<1> QED
    BY <1>1, GetattrIs

\* The class that comes first with the asynchronous form is the foremost one, or the base,
\* unless a class that the metaclass did not make comes in between.
LEMMA AsyncPlace ==
    ASSUME TypeInv, ClassInv, NEW c \in DOMAIN world.mro, NEW o \in Sync,
           NEW k, FirstAt(c, Async[o], k), NEW p, ForemostAt(c, o, p)
    PROVE  \/ Overtaken(c, o)
           \/ ~Managed(world, Mro(c)[p])
           \/ k = p /\ Mro(c)[p] = "AsyncIOBase" /\ class[Mro(c)[k]][Async[o]] = "thread"
           \/ k = p /\ class[Mro(c)[k]][Async[o]] \in {"io", "auto"}
<1>1. k \in DOMAIN Mro(c) /\ p \in DOMAIN Mro(c) /\ k \in Nat /\ p \in Nat
    BY MroClass DEF FirstAt, ForemostAt
<1>2. CASE k < p
    <2>1. \A j \in Byhand(c, o) : j \in Nat /\ p <= j
        BY MroClass DEF ForemostAt
    <2>2. \A j \in Byhand(c, o) : k < j
        BY <1>1, <1>2, <2>1
    <2> QED
        BY <1>1, <2>2 DEF Overtaken, FirstAt, Mro
<1>3. CASE ~(k < p) /\ Managed(world, Mro(c)[p])
    <2> DEFINE d == Mro(c)[p]
    <2>1. d \in Classes(world)
        BY <1>1, MroClass
    <2>2. Async[o] \in Names /\ Async[o] \in AsyncNames /\ Operation(Async[o]) = o
        BY Forms, Kinds
    <2>3. CASE d = "AsyncIOBase"
        <3>1. class[d][Async[o]] = "thread"
            BY <2>2, <2>3, BaseOf, BaseIs
        <3>2. k <= p
            BY <1>1, <3>1 DEF FirstAt
        <3>3. k = p
            BY <1>1, <1>3, <3>2
        <3> QED
            BY <2>3, <3>1, <3>3
    <2>4. CASE d # "AsyncIOBase"
        <3>1. d \in DOMAIN world.mro /\ Body(d) = world.body[d]
            BY <2>1, <2>4 DEF Classes, Body
        <3>2. {o, Async[o]} \cap world.body[d] # {}
            BY <3>1 DEF ForemostAt
        <3>3. Defined(world, d)[Async[o]] \in {"io", "auto"}
            BY <1>3, <2>2, <3>1, <3>2, DefinedIs DEF TypeInv
        <3>4. class[d][Async[o]] \in {"io", "auto"}
            BY <1>3, <2>1, <2>2, <3>3, ManagedOf
        <3>5. k <= p
            BY <1>1, <3>4 DEF FirstAt
        <3>6. k = p
            BY <1>1, <1>3, <3>5
        <3> QED
            BY <3>4, <3>6
    <2> QED
        BY <2>3, <2>4
<1> QED
    BY <1>2, <1>3

LEMMA ThreadWrapped ==
    ASSUME TypeInv, ClassInv, OwnInv, NEW s \in Streams, Managed(world, world.class[s]),
           NEW n \in AsyncNames, getattr(s, n).way = "thread"
    PROVE  Wrapped(world.class[s], Operation(n))
<1> DEFINE c == world.class[s]
           o == Operation(n)
<1>1. o \in Sync /\ Async[o] = n /\ n \in Names /\ c \in DOMAIN world.mro
    BY Forms, Kinds, StreamClass
<1>2. PICK k : FirstAt(c, n, k) /\ getattr(s, n).way = class[Mro(c)[k]][n]
    BY <1>1, ManagedAt
<1>3. PICK p : ForemostAt(c, o, p)
    BY <1>1, ForemostFound DEF TypeInv
<1>4. class[Mro(c)[k]][n] = "thread"
    BY <1>2
<1>5. \/ Overtaken(c, o) \/ ~Managed(world, Mro(c)[p])
      \/ Mro(c)[p] = "AsyncIOBase"
    BY <1>1, <1>2, <1>3, <1>4, AsyncPlace
<1>6. Foremost(c, o) = Mro(c)[p]
    BY <1>3 DEF ForemostAt
<1> QED
    BY <1>5, <1>6 DEF Wrapped

\* The synchronous form is found in the foremost class if that has it.
LEMMA SyncPlace ==
    ASSUME TypeInv, ClassInv, NEW c \in DOMAIN world.mro, NEW o \in Sync,
           NEW k, FirstAt(c, o, k), NEW p, ForemostAt(c, o, p), o \in Body(Mro(c)[p])
    PROVE  k = p
<1>1. k \in DOMAIN Mro(c) /\ p \in DOMAIN Mro(c) /\ k \in Nat /\ p \in Nat
    BY MroClass DEF FirstAt, ForemostAt
<1>2. Mro(c)[k] \in Classes(world) /\ Mro(c)[p] \in Classes(world)
    BY <1>1, MroClass
<1>3. o \in Body(Mro(c)[k])
    BY <1>2, SyncOf DEF FirstAt
<1>4. p <= k
    BY <1>1, <1>3 DEF ForemostAt
<1>5. class[Mro(c)[p]][o] # "none"
    BY <1>2, SyncOf
<1>6. k <= p
    BY <1>1, <1>5 DEF FirstAt
<1> QED
    BY <1>1, <1>4, <1>6

----------------------------------------------------------------------------
(* The steps of a call. *)

Ending(f, result, by) ==
    [do |-> "ended", stream |-> f.stream, asked |-> f.asked, loop |-> f.asked_in,
     result |-> result, by |-> by]

Renamed(f, n, loop) == [f EXCEPT !.name = n, !.loop = loop]

LEMMA RenamedIs ==
    ASSUME NEW f \in CallFrame, NEW n \in Names, NEW loop \in BOOLEAN
    PROVE  LET g == Renamed(f, n, loop)
           IN  /\ g \in CallFrame /\ g.do = "call" /\ g.name = n /\ g.loop = loop
               /\ g.stream = f.stream /\ g.adapter = f.adapter
               /\ g.asked = f.asked /\ g.asked_in = f.asked_in
    BY DEF Renamed, CallFrame

LEMMA EndingIs ==
    ASSUME NEW f \in CallFrame,
           NEW result \in {"done", "RuntimeError", "AttributeError", "stub"},
           NEW by \in Classes(world) \cup {"AsyncStreamAdapter"}
    PROVE  LET g == Ending(f, result, by)
           IN  /\ g \in EndFrame /\ g.do = "ended" /\ g.result = result /\ g.by = by
               /\ g.stream = f.stream /\ g.asked = f.asked /\ g.loop = f.asked_in
    BY DEF Ending, CallFrame, EndFrame

\* A call that must raise an error is still at the base's bridge.
LEMMA RaisesAtBridge ==
    ASSUME TypeInv, ClassInv, OwnInv, NEW f \in CallFrame, Traced(f),
           Managed(world, world.class[f.stream]),
           MustRaise(f.stream, f.asked, f.asked_in)
    PROVE  Method(f).way = "bridge" /\ f.loop
<1>1. f.stream \in Streams /\ f.name \in Names /\ f.asked \in Names
    BY DEF CallFrame
<1>2. ~f.adapter /\ f.name = f.asked /\ f.loop
    BY DEF Traced
<1>3. f.asked \in {"read", "write"} /\ getattr(f.stream, f.asked).by = "AsyncIOBase"
    BY DEF MustRaise
<1>4. getattr(f.stream, f.name).way = "bridge"
    BY <1>1, <1>2, <1>3, GetattrWays
<1> QED
    BY <1>2, <1>4 DEF Method

LEMMA WorkAgrees ==
    ASSUME TypeInv, ClassInv, OwnInv, NEW f \in CallFrame, Traced(f),
           Managed(world, world.class[f.stream]), Method(f).way \in {"io", "auto"},
           NEW g, g.stream = f.stream, g.asked = f.asked, g.by = Method(f).by
    PROVE  Agrees(g)
<1> DEFINE s == f.stream
           c == world.class[s]
           n == f.name
           o == Operation(f.asked)
<1>1. s \in Streams /\ n \in Names /\ f.asked \in Names /\ c \in DOMAIN world.mro
    BY StreamClass DEF CallFrame
<1>2. Method(f) = getattr(s, n)
    BY MethodWays
<1>3. PICK k : FirstAt(c, n, k) /\ getattr(s, n).way = class[Mro(c)[k]][n]
                                /\ getattr(s, n).by = Mro(c)[k]
    BY <1>1, ManagedAt
<1>4. o \in Sync /\ Operation(n) = o
    BY <1>1, EveryFormOfOne DEF Traced
<1>5. PICK p : ForemostAt(c, o, p)
    BY <1>1, <1>4, ForemostFound DEF TypeInv
<1>6. Foremost(c, o) = Mro(c)[p]
    BY <1>5 DEF ForemostAt
<1>7. class[Mro(c)[k]][n] \in {"io", "auto"} /\ g.by = Mro(c)[k]
    BY <1>2, <1>3
<1>8. CASE n \in AsyncNames
    <2>1. n = Async[o]
        BY <1>4, <1>8, Forms
    <2>2. Overtaken(c, o) \/ ~Managed(world, Mro(c)[p]) \/ k = p
        BY <1>1, <1>3, <1>4, <1>5, <2>1, AsyncPlace
    <2> QED
        BY <1>6, <1>7, <2>2 DEF Agrees
<1>9. CASE n \in Sync
    <2>1. n = o
        BY <1>4, <1>9, Forms
    <2>2. CASE o \in Body(Mro(c)[p])
        <3>1. k = p
            BY <1>1, <1>3, <1>4, <1>5, <2>1, <2>2, SyncPlace
        <3> QED
            BY <1>6, <1>7, <3>1 DEF Agrees
    <2>3. CASE o \notin Body(Mro(c)[p]) /\ f.asked \in Sync
        <3>1. f.asked = o
            BY <2>3, Forms
        <3> QED
            BY <1>6, <2>3, <3>1 DEF Agrees
    <2>4. CASE o \notin Body(Mro(c)[p]) /\ f.asked \notin Sync
        <3>1. Wrapped(c, o)
            BY <1>9, <2>4 DEF Traced
        <3>2. Mro(c)[p] # "AsyncIOBase"
            BY <1>4, <2>4 DEF Body
        <3> QED
            BY <1>6, <3>1, <3>2 DEF Wrapped, Agrees
    <2> QED
        BY <2>2, <2>3, <2>4
<1>10. CASE n \notin Sync \cup AsyncNames
    <2>1. f.asked = n
        BY <1>10 DEF Traced
    <2>2. n \in BatchNames \cup {"asplice"}
        BY <1>1, <1>10, Kinds
    <2>3. Method(f).way = "io"
        BY <1>10, MethodWays
    <2>4. n \in Body(getattr(s, n).by)
        BY <1>1, <1>2, <2>3, GetattrWays
    <2> QED
        BY <1>3, <1>7, <2>1, <2>2, <2>4 DEF Agrees
<1> QED
    BY <1>8, <1>9, <1>10

\* What a step makes of a frame: it ends, or goes on by another name.
Goes(t, f, g) == g \in Frames /\ Sound(g) /\ Do(t, g)

LEMMA FrameIs ==
    ASSUME TypeInv, NEW t \in Threads
    PROVE  /\ thread[t] \in Frames
           /\ thread[t].do = "call" => thread[t] \in CallFrame
           /\ thread[t].do = "ended" => thread[t] \in EndFrame
           /\ thread[t].do \in {"methods", "stubs", "patched", "raised"} => thread[t] \in PatchFrame
    BY DEF TypeInv, Frames, Idle, CallFrame, EndFrame, PatchFrame

\* A call that ends, with a result that fits its way.
LEMMA EndSound ==
    ASSUME TypeInv, ClassInv, OwnInv, NEW f \in CallFrame, Traced(f),
           NEW result \in {"done", "RuntimeError", "AttributeError", "stub"},
           result = "done" => Method(f).way \in {"io", "auto"},
           result = "RuntimeError" <=> Method(f).way = "bridge",
           result = "RuntimeError" => f.loop,
           result = "stub" => Method(f).way \in {"stub", "nothing"}
    PROVE  LET g == Ending(f, result, Method(f).by) IN g \in Frames /\ Sound(g)
<1> DEFINE g == Ending(f, result, Method(f).by)
<1>1. Method(f).by \in Classes(world) \cup {"AsyncStreamAdapter"}
    BY MethodWays
<1>2. /\ g \in EndFrame /\ g.do = "ended" /\ g.result = result /\ g.by = Method(f).by
      /\ g.stream = f.stream /\ g.asked = f.asked /\ g.loop = f.asked_in
    BY <1>1, EndingIs
<1> HIDE DEF g
<1>3. ASSUME Managed(world, world.class[f.stream])
      PROVE  /\ result = "RuntimeError" <=> MustRaise(f.stream, f.asked, f.asked_in)
             /\ result = "done" => Agrees(g)
    <2>1. MustRaise(f.stream, f.asked, f.asked_in) => result = "RuntimeError"
        BY <1>3, RaisesAtBridge
    <2>2. ASSUME result = "RuntimeError" PROVE MustRaise(f.stream, f.asked, f.asked_in)
        <3>1. Method(f).way = "bridge" /\ f.loop
            BY <2>2
        <3>2. f.name \in {"read", "write"} /\ Method(f).by = "AsyncIOBase"
                /\ Method(f) = getattr(f.stream, f.name)
            BY <3>1, MethodWays
        <3>3. f.name \in Sync
            BY <3>2, SyncIs
        <3>4. f.asked = f.name /\ f.asked_in
            BY <3>1, <3>3 DEF Traced
        <3> QED
            BY <3>2, <3>4 DEF MustRaise
    <2>3. result = "done" => Agrees(g)
        BY <1>2, <1>3, WorkAgrees
    <2> QED
        BY <2>1, <2>2, <2>3
<1>4. result = "stub" =>
          ~hasattr(f.stream, Operation(f.asked)) \/ Method(f).by # world.class[f.stream]
    BY MethodWays DEF Traced
<1>5. Answered(g)
    BY <1>2, <1>3, <1>4 DEF Answered
<1>6. Sound(g)
    BY <1>2, <1>5 DEF Sound
<1> QED
    BY <1>2, <1>6 DEF Frames, g

LEMMA CallGoes ==
    ASSUME TypeInv, ClassInv, OwnInv, NEW t \in Threads, NEW s \in Streams,
           NEW adapter \in BOOLEAN, NEW n \in Calls, NEW loop \in BOOLEAN,
           Call(t, s, adapter, n, loop)
    PROVE  \E g : Goes(t, thread[t], g)
<1> DEFINE g == [do |-> "call", stream |-> s, adapter |-> adapter, name |-> n, loop |-> loop,
                 asked |-> n, asked_in |-> loop]
<1>1. n \in Names
    BY CallAssumption
<1>2. g \in CallFrame /\ g.do = "call" /\ g.stream = s /\ g.adapter = adapter /\ g.name = n
        /\ g.loop = loop /\ g.asked = n /\ g.asked_in = loop
    BY <1>1 DEF CallFrame
<1>3. Do(t, g)
    BY DEF Call
<1> HIDE DEF g
<1>4. Managed(world, world.class[s]) => ~adapter
    BY ManagedConforms DEF Call
<1>5. MustRaise(s, n, loop) => loop
    BY DEF MustRaise
<1>6. Traced(g)
    BY <1>2, <1>4, <1>5 DEF Traced
<1>7. Sound(g)
    BY <1>2, <1>6 DEF Sound
<1> QED
    BY <1>2, <1>3, <1>7 DEF Goes, Frames

\* A call that goes on under another name of its operation.
LEMMA RenamedSound ==
    ASSUME TypeInv, ClassInv, OwnInv, NEW f \in CallFrame, Traced(f),
           NEW n \in Names, NEW loop \in BOOLEAN,
           Operation(n) = Operation(f.name), n \in Sync => ~loop,
           n \in Sync \cup AsyncNames,
           ~(Method(f).way = "bridge" /\ f.loop),
           n \in Sync => Method(f).way = "thread"
    PROVE  LET g == Renamed(f, n, loop) IN g \in Frames /\ Sound(g)
<1> DEFINE g == Renamed(f, n, loop)
<1>1. /\ g \in CallFrame /\ g.do = "call" /\ g.name = n /\ g.loop = loop
      /\ g.stream = f.stream /\ g.adapter = f.adapter
      /\ g.asked = f.asked /\ g.asked_in = f.asked_in
    BY RenamedIs
<1> HIDE DEF g
<1>2. ASSUME Managed(world, world.class[f.stream])
      PROVE  /\ ~f.adapter /\ ~MustRaise(f.stream, f.asked, f.asked_in)
             /\ n \in Sync /\ f.asked \notin Sync =>
                    Wrapped(world.class[f.stream], Operation(f.asked))
    <2>1. ~MustRaise(f.stream, f.asked, f.asked_in)
        BY <1>2, RaisesAtBridge
    <2>2. ASSUME n \in Sync PROVE Wrapped(world.class[f.stream], Operation(f.asked))
        <3>1. Method(f).way = "thread"
            BY <2>2
        <3>2. f.name \in AsyncNames /\ getattr(f.stream, f.name).way = "thread"
            BY <3>1, MethodWays
        <3>3. f.stream \in Streams
            BY DEF CallFrame
        <3>4. Wrapped(world.class[f.stream], Operation(f.name))
            BY <1>2, <3>2, <3>3, ThreadWrapped
        <3> QED
            BY <3>4 DEF Traced
    <2> QED
        BY <1>2, <2>1, <2>2 DEF Traced
<1>3. Traced(g)
    BY <1>1, <1>2 DEF Traced
<1>4. Sound(g)
    BY <1>1, <1>3 DEF Sound
<1> QED
    BY <1>1, <1>4 DEF Frames, g

LEMMA RunGoes ==
    ASSUME TypeInv, ClassInv, OwnInv, NEW t \in Threads, Sound(thread[t]), Run(t)
    PROVE  \E g : Goes(t, thread[t], g)
<1> DEFINE f == thread[t]
<1>1. f.do = "call"
    BY DEF Run, Work, ToThread, BridgeToLoop, ForEach, Splice, Delegate, Refuse, Runs
<1>2. f \in CallFrame /\ Traced(f)
    BY <1>1, FrameIs DEF Sound
<1>3. ASSUME NEW result, End(t, result, Method(f).by) PROVE Do(t, Ending(f, result, Method(f).by))
    BY <1>3 DEF End, Ending
<1>4. ASSUME NEW n, NEW loop, Goto(t, n, loop) PROVE Do(t, Renamed(f, n, loop))
    BY <1>4 DEF Goto, Renamed
<1>5. ASSUME Work(t) PROVE \E g : Goes(t, f, g)
    <2>1. Method(f).way \in {"io", "auto"} /\ Do(t, Ending(f, "done", Method(f).by))
        BY <1>3, <1>5 DEF Work, Runs
    <2> QED
        BY <1>2, <2>1, EndSound DEF Goes
<1>6. ASSUME ToThread(t) PROVE \E g : Goes(t, f, g)
    <2>1. Method(f).way = "thread" /\ Do(t, Renamed(f, Operation(f.name), FALSE))
        BY <1>4, <1>6 DEF ToThread, Runs
    <2>2. f.name \in AsyncNames
        BY <1>2, <2>1, MethodWays
    <2>3. Operation(f.name) \in Sync /\ Operation(Operation(f.name)) = Operation(f.name)
        BY <2>2, Forms
    <2> QED
        BY <1>2, <2>1, <2>3, Kinds, RenamedSound DEF Goes
<1>7. ASSUME BridgeToLoop(t) PROVE \E g : Goes(t, f, g)
    <2>1. Method(f).way = "bridge"
        BY <1>7 DEF BridgeToLoop, Runs
    <2>2. Method(f).by = "AsyncIOBase" /\ f.name \in {"read", "write"}
        BY <1>2, <2>1, MethodWays
    <2>3. CASE f.loop
        <3>1. End(t, "RuntimeError", Method(f).by)
            BY <1>7, <2>2, <2>3 DEF BridgeToLoop
        <3>2. Do(t, Ending(f, "RuntimeError", Method(f).by))
            BY <1>3, <3>1
        <3> QED
            BY <1>2, <2>1, <2>3, <3>2, EndSound DEF Goes
    <2>4. CASE ~f.loop
        <3>1. Do(t, Renamed(f, Async[f.name], TRUE))
            BY <1>4, <1>7, <2>4 DEF BridgeToLoop
        <3>2. f.name \in Sync
            BY <2>2, SyncIs
        <3>3. Async[f.name] \in AsyncNames /\ Operation(Async[f.name]) = Operation(f.name)
            BY <3>2, Forms
        <3> QED
            BY <1>2, <2>1, <2>4, <3>1, <3>3, Kinds, RenamedSound DEF Goes
    <2> QED
        BY <2>3, <2>4
<1>8. ASSUME ForEach(t) PROVE \E g : Goes(t, f, g)
    <2>1. Method(f).way = "each" /\ Do(t, Renamed(f, Async[Operation(f.name)], TRUE))
        BY <1>4, <1>8 DEF ForEach, Runs
    <2>2. Operation(f.name) \in Sync
        BY <1>2, EveryFormOfOne DEF CallFrame
    <2>3. Async[Operation(f.name)] \in AsyncNames
            /\ Operation(Async[Operation(f.name)]) = Operation(f.name)
        BY <2>2, Forms
    <2> QED
        BY <1>2, <2>1, <2>3, Kinds, RenamedSound DEF Goes
<1>9. ASSUME Splice(t) PROVE \E g : Goes(t, f, g)
    <2>1. Method(f).way = "splice" /\ Do(t, Renamed(f, "aread", TRUE))
        BY <1>4, <1>9 DEF Splice, Runs
    <2>2. f.name = "asplice"
        BY <1>2, <2>1, MethodWays
    <2>3. "aread" \in AsyncNames /\ Operation("aread") = Operation(f.name)
        BY <2>2, Forms, NamesAre, AsyncIs, SyncIs
    <2> QED
        BY <1>2, <2>1, <2>3, Kinds, RenamedSound DEF Goes
<1>10. ASSUME Delegate(t) PROVE \E g : Goes(t, f, g)
    <2>1. Method(f).way \in {"inner", "inner thread"}
        BY <1>10 DEF Delegate, Runs
    <2>2. f.adapter
        BY <1>2, <2>1, MethodWays
    <2>3. ~Managed(world, world.class[f.stream])
        BY <1>2, <2>2 DEF Traced
    <2>4. CASE Method(f).way = "inner"
        <3> DEFINE g == [f EXCEPT !.adapter = FALSE]
        <3>1. Do(t, g)
            BY <1>10, <2>4 DEF Delegate, Runs
        <3>2. /\ g \in CallFrame /\ g.do = "call" /\ g.name = f.name /\ g.loop = f.loop
              /\ g.stream = f.stream /\ g.asked = f.asked /\ g.asked_in = f.asked_in
            BY <1>2 DEF CallFrame
        <3> HIDE DEF g
        <3>3. Traced(g)
            BY <1>2, <2>3, <3>2 DEF Traced
        <3>4. Sound(g)
            BY <3>2, <3>3 DEF Sound
        <3> QED
            BY <3>1, <3>2, <3>4 DEF Goes, Frames
    <2>5. CASE Method(f).way = "inner thread"
        <3> DEFINE g == [f EXCEPT !.adapter = FALSE, !.loop = FALSE, !.name = Operation(f.name)]
        <3>1. Do(t, g)
            BY <1>10, <2>5 DEF Delegate, Runs
        <3>2. f.name \in AsyncNames
            BY <1>2, <2>5, MethodWays
        <3>3. Operation(f.name) \in Sync /\ Operation(Operation(f.name)) = Operation(f.name)
                /\ Operation(f.name) \in Names
            BY <3>2, Forms, Kinds
        <3>4. /\ g \in CallFrame /\ g.do = "call" /\ g.name = Operation(f.name) /\ ~g.loop
              /\ g.stream = f.stream /\ g.asked = f.asked
            BY <1>2, <3>3 DEF CallFrame
        <3> HIDE DEF g
        <3>5. Traced(g)
            BY <1>2, <2>3, <3>3, <3>4 DEF Traced
        <3>6. Sound(g)
            BY <3>4, <3>5 DEF Sound
        <3> QED
            BY <3>1, <3>4, <3>6 DEF Goes, Frames
    <2> QED
        BY <2>1, <2>4, <2>5
<1>11. ASSUME Refuse(t) PROVE \E g : Goes(t, f, g)
    <2>1. CASE Method(f).way = "none"
        <3>1. Do(t, Ending(f, "AttributeError", Method(f).by))
            BY <1>3, <1>11, <2>1 DEF Refuse, Runs
        <3> QED
            BY <1>2, <2>1, <3>1, EndSound DEF Goes
    <2>2. CASE Method(f).way \in {"stub", "nothing"}
        <3>1. Do(t, Ending(f, "stub", Method(f).by))
            BY <1>3, <1>11, <2>2 DEF Refuse, Runs
        <3> QED
            BY <1>2, <2>2, <3>1, EndSound DEF Goes
    <2> QED
        BY <1>11, <2>1, <2>2 DEF Refuse, Runs
<1> QED
    BY <1>5, <1>6, <1>7, <1>8, <1>9, <1>10, <1>11 DEF Run

----------------------------------------------------------------------------
(* The steps of a patch. *)

LEMMA MethodsAre ==
    /\ DOMAIN Methods = 1..7
    /\ \A i \in DOMAIN Methods :
           /\ Methods[i].name \in Names \ Sync
           /\ Methods[i].way = AsyncIOBase[Methods[i].name]
           /\ Methods[i].needs = {} \/ Operation(Methods[i].name) \in Methods[i].needs
<1>1. /\ Operation("aread") = "read" /\ Operation("awrite") = "write"
      /\ Operation("aclose") = "close" /\ Operation("aflush") = "flush"
    BY Forms, SyncIs, AsyncIs
<1>2. Operation("aread_batch") = "read" /\ Operation("awrite_batch") = "write"
    BY OperationOfForm, NamesAre, SyncIs, BatchIs DEF FormOf
<1>3. DOMAIN Methods = 1..7
    BY DEF Methods
<1>4. /\ AsyncIOBase["aread"] = "thread" /\ AsyncIOBase["awrite"] = "thread"
      /\ AsyncIOBase["aclose"] = "thread" /\ AsyncIOBase["aflush"] = "thread"
      /\ AsyncIOBase["aread_batch"] = "each" /\ AsyncIOBase["awrite_batch"] = "each"
      /\ AsyncIOBase["asplice"] = "splice"
    BY BaseIs, NamesAre
<1>5. /\ Methods[1] = [name |-> "aread",        way |-> "thread", needs |-> {"read"}]
      /\ Methods[2] = [name |-> "aread_batch",  way |-> "each",   needs |-> {"aread", "read"}]
      /\ Methods[3] = [name |-> "awrite",       way |-> "thread", needs |-> {"write"}]
      /\ Methods[4] = [name |-> "awrite_batch", way |-> "each",   needs |-> {"awrite", "write"}]
      /\ Methods[5] = [name |-> "aclose",       way |-> "thread", needs |-> {"close"}]
      /\ Methods[6] = [name |-> "aflush",       way |-> "thread", needs |-> {"flush"}]
      /\ Methods[7] = [name |-> "asplice",      way |-> "splice", needs |-> {}]
    BY DEF Methods
<1>6. \A i \in DOMAIN Methods : i = 1 \/ i = 2 \/ i = 3 \/ i = 4 \/ i = 5 \/ i = 6 \/ i = 7
    BY <1>3
<1>7. ASSUME NEW i \in DOMAIN Methods
      PROVE  /\ Methods[i].name \in Names \ Sync
             /\ Methods[i].way = AsyncIOBase[Methods[i].name]
             /\ Methods[i].needs = {} \/ Operation(Methods[i].name) \in Methods[i].needs
    <2>1. Methods[i].name \in Names \ Sync
        BY <1>5, <1>6, NamesAre, SyncIs
    <2>2. Methods[i].way = AsyncIOBase[Methods[i].name]
        BY <1>4, <1>5, <1>6
    <2>3. Methods[i].needs = {} \/ Operation(Methods[i].name) \in Methods[i].needs
        BY <1>1, <1>2, <1>5, <1>6
    <2> QED
        BY <2>1, <2>2, <2>3
<1> QED
    BY <1>3, <1>7

LEMMA StubsAre ==
    /\ DOMAIN Stubs = 1..5
    /\ \A i \in DOMAIN Stubs : Stubs[i] \in Names \ Sync
    /\ \A i \in DOMAIN Stubs : \E j \in DOMAIN Methods : Methods[j].name = Stubs[i]
    /\ \A n \in AsyncNames \cup {"asplice"} : \E i \in DOMAIN Stubs : Stubs[i] = n
<1>1. /\ DOMAIN Stubs = 1..5
      /\ Stubs[1] = "aread" /\ Stubs[2] = "awrite" /\ Stubs[3] = "aclose"
      /\ Stubs[4] = "aflush" /\ Stubs[5] = "asplice"
    BY DEF Stubs
<1>2. \A i \in DOMAIN Stubs : i = 1 \/ i = 2 \/ i = 3 \/ i = 4 \/ i = 5
    BY <1>1
<1>3. /\ 1 \in DOMAIN Methods /\ 3 \in DOMAIN Methods /\ 5 \in DOMAIN Methods
      /\ 6 \in DOMAIN Methods /\ 7 \in DOMAIN Methods
      /\ Methods[1].name = "aread" /\ Methods[3].name = "awrite" /\ Methods[5].name = "aclose"
      /\ Methods[6].name = "aflush" /\ Methods[7].name = "asplice"
    BY DEF Methods
<1>4. 1 \in DOMAIN Stubs /\ 2 \in DOMAIN Stubs /\ 3 \in DOMAIN Stubs /\ 4 \in DOMAIN Stubs
        /\ 5 \in DOMAIN Stubs
    BY <1>1
<1>5. \A i \in DOMAIN Stubs : Stubs[i] \in Names \ Sync
    BY <1>1, <1>2, NamesAre, SyncIs
<1>6. \A i \in DOMAIN Stubs : \E j \in DOMAIN Methods : Methods[j].name = Stubs[i]
    BY <1>1, <1>2, <1>3
<1>7. \A n \in AsyncNames \cup {"asplice"} : \E i \in DOMAIN Stubs : Stubs[i] = n
    BY <1>1, <1>4, NamesAre
<1> QED
    BY <1>1, <1>5, <1>6, <1>7

LEMMA NotFoundUnbrought ==
    ASSUME NEW s, NEW n, ~Found(world.class[s], n)
    PROVE  Unbrought(s, n)
    BY DEF Found, Where, Unbrought

LEMMA NotMissingProvided ==
    ASSUME NEW s, NEW i \in DOMAIN Methods, i \notin Missing(s)
    PROVE  Provided(s, i)
    BY MethodsAre DEF Missing, Provided

\* A stream that has all it can have, and whose class lacks a stub's name, lacks the
\* operation; or else its class takes no attributes.
LEMMA LackingStub ==
    ASSUME TypeInv, OwnInv, NEW s \in Streams, \A i \in DOMAIN Methods : Provided(s, i),
           NEW j \in DOMAIN Stubs, ~Found(world.class[s], Stubs[j])
    PROVE  Wanting(s, Stubs[j])
<1> DEFINE n == Stubs[j]
<1>1. Unbrought(s, n)
    BY NotFoundUnbrought
<1>2. ASSUME Found(world.class[s], Operation(n)) PROVE world.class[s] \in world.immutable
    <2>1. PICK i \in DOMAIN Methods : Methods[i].name = n
        BY StubsAre
    <2>2. hasattr(s, Operation(n))
        BY <1>2 DEF hasattr
    <2>3. hasattr(s, n)
        BY <2>1, <2>2 DEF Provided
    <2>4. own[s][n] # "none"
        BY <2>3 DEF hasattr
    <2>5. n \in Names
        BY StubsAre
    <2>6. Kept(s, n)
        BY <2>4, <2>5 DEF OwnInv
    <2>7. world.class[s] \in DOMAIN world.mro
        BY StreamClass
    <2>8. 1 \in DOMAIN world.mro[world.class[s]] /\ world.mro[world.class[s]][1] = world.class[s]
        BY <2>7, WorldIs DEF TypeInv
    <2>9. class[world.class[s]][n] = "none"
        BY <2>8 DEF Found, Where
    <2> QED
        BY <2>6, <2>9 DEF Kept
<1> QED
    BY <1>1, <1>2 DEF Wanting

LEMMA PatchStreamGoes ==
    ASSUME TypeInv, ClassInv, OwnInv, NEW t \in Threads, NEW s \in Streams, patch_stream(t, s)
    PROVE  \E g : Goes(t, thread[t], g)
<1> DEFINE g == [do |-> "methods", stream |-> s, at |-> 1, found |-> FALSE]
<1>1. Do(t, g) /\ ~AsyncIOStream(s)
    BY DEF patch_stream
<1>2. g \in PatchFrame /\ g.do = "methods" /\ g.stream = s /\ g.at = 1 /\ ~g.found
    BY DEF PatchFrame
<1> HIDE DEF g
<1>3. ~Managed(world, world.class[s])
    BY <1>1, ManagedConforms
<1>4. \A i \in DOMAIN Methods : ~(i < 1)
    BY MethodsAre
<1>5. Patching(g)
    BY <1>2, <1>3, <1>4 DEF Patching
<1>6. Sound(g)
    BY <1>2, <1>5 DEF Sound
<1> QED
    BY <1>1, <1>2, <1>6 DEF Goes, Frames

\* What looking for the next missing one comes to.
LEMMA FindIs ==
    ASSUME NEW t \in Threads, thread[t] \in PatchFrame, NEW part, NEW missing,
           missing \subseteq Nat, NEW next \in {"stubs", "patched"}, Find(t, part, missing, next)
    PROVE  \E g \in PatchFrame :
               /\ Do(t, g) /\ g.stream = thread[t].stream
               /\ \/ /\ \A i \in missing : i < thread[t].at
                     /\ g.do = next /\ g.at = 1 /\ g.found = thread[t].found
                  \/ /\ g.do = thread[t].do /\ g.at \in missing /\ g.found
                     /\ thread[t].at <= g.at /\ \A i \in missing : i < g.at => i < thread[t].at
<1> DEFINE f == thread[t]
           later == {i \in missing : i >= f.at}
           k == CHOOSE i \in later : \A j \in later : i <= j
<1>1. f.at \in Nat
    BY DEF PatchFrame
<1>2. CASE later = {}
    <2> DEFINE g == [f EXCEPT !.do = next, !.at = 1]
    <2>1. Do(t, g)
        BY <1>2 DEF Find
    <2>2. g \in PatchFrame /\ g.do = next /\ g.at = 1 /\ g.found = f.found /\ g.stream = f.stream
        BY DEF PatchFrame
    <2>3. \A i \in missing : i < f.at
        BY <1>1, <1>2
    <2> QED
        BY <2>1, <2>2, <2>3
<1>3. CASE later # {}
    <2> DEFINE g == [f EXCEPT !.found = TRUE, !.at = k]
    <2>1. Do(t, g)
        BY <1>3 DEF Find
    <2>2. k \in later /\ \A j \in later : k <= j
        BY <1>3, ChosenLeast
    <2>3. k \in Nat
        BY <2>2
    <2> HIDE DEF k
    <2>4. g \in PatchFrame /\ g.do = f.do /\ g.at = k /\ g.found /\ g.stream = f.stream
        BY <2>3 DEF PatchFrame
    <2>5. \A i \in missing : i < k => i < f.at
        BY <1>1, <2>2, <2>3
    <2>6. f.at <= k /\ k \in missing
        BY <1>1, <2>2, <2>3
    <2> QED
        BY <2>1, <2>4, <2>5, <2>6
<1> QED
    BY <1>2, <1>3

LEMMA CheckGoes ==
    ASSUME TypeInv, NEW t \in Threads, Sound(thread[t]), Check(t)
    PROVE  \E g : Goes(t, thread[t], g)
<1> DEFINE f == thread[t]
           s == f.stream
<1>1. f.do = "methods" /\ ~f.found /\ Find(t, "methods", Missing(s), "stubs")
    BY DEF Check, Find
<1>2. f \in PatchFrame /\ Patching(f)
    BY <1>1, FrameIs DEF Sound
<1>3. Missing(s) \subseteq DOMAIN Methods /\ DOMAIN Methods \subseteq Nat
    BY MethodsAre DEF Missing
<1>4. PICK g \in PatchFrame :
          /\ Do(t, g) /\ g.stream = s
          /\ \/ /\ \A i \in Missing(s) : i < f.at
                /\ g.do = "stubs" /\ g.at = 1 /\ g.found = f.found
             \/ /\ g.do = f.do /\ g.at \in Missing(s) /\ g.found
                /\ f.at <= g.at /\ \A i \in Missing(s) : i < g.at => i < f.at
    BY <1>1, <1>2, <1>3, FindIs
<1>5. \A i \in DOMAIN Methods : i < f.at \/ i \notin Missing(s) => Provided(s, i)
    BY <1>1, <1>2, NotMissingProvided DEF Patching
<1>6. ~Managed(world, world.class[s])
    BY <1>2 DEF Patching
<1>7. CASE g.do = "stubs"
    <2>1. g.do # f.do
        BY <1>1, <1>7
    <2>2. (\A i \in Missing(s) : i < f.at) /\ g.at = 1 /\ ~g.found
        BY <1>1, <1>4, <2>1
    <2>3. \A i \in DOMAIN Methods : Provided(s, i)
        BY <1>5, <2>2
    <2>4. \A i \in DOMAIN Stubs : ~(i < 1)
        BY StubsAre
    <2>5. Patching(g)
        BY <1>4, <1>6, <1>7, <2>2, <2>3, <2>4 DEF Patching
    <2> QED
        BY <1>4, <1>7, <2>5 DEF Goes, Frames, Sound
<1>8. CASE g.do # "stubs"
    <2>1. /\ g.do = "methods" /\ g.at \in Missing(s) /\ g.found
          /\ \A i \in Missing(s) : i < g.at => i < f.at
        BY <1>1, <1>4, <1>8
    <2>2. \A i \in DOMAIN Methods : i < g.at => Provided(s, i)
        BY <1>5, <2>1
    <2>3. g.at \in DOMAIN Methods /\ ~hasattr(s, Methods[g.at].name)
        BY <2>1 DEF Missing
    <2>4. Unbrought(s, Methods[g.at].name)
        BY <2>3, NotFoundUnbrought DEF hasattr
    <2>5. Patching(g)
        BY <1>4, <1>6, <2>1, <2>2, <2>3, <2>4 DEF Patching
    <2> QED
        BY <1>4, <2>1, <2>5 DEF Goes, Frames, Sound
<1> QED
    BY <1>7, <1>8

LEMMA CheckStubGoes ==
    ASSUME TypeInv, OwnInv, NEW t \in Threads, Sound(thread[t]), CheckStub(t)
    PROVE  \E g : Goes(t, thread[t], g)
<1> DEFINE f == thread[t]
           s == f.stream
           lacking == MissingInClass(s)
<1>1. f.do = "stubs" /\ ~f.found /\ Find(t, "stubs", lacking, "patched")
    BY DEF CheckStub, Find
<1>2. f \in PatchFrame /\ Patching(f)
    BY <1>1, FrameIs DEF Sound
<1>3. lacking \subseteq DOMAIN Stubs /\ DOMAIN Stubs \subseteq Nat
    BY StubsAre DEF MissingInClass
<1>4. PICK g \in PatchFrame :
          /\ Do(t, g) /\ g.stream = s
          /\ \/ /\ \A i \in lacking : i < f.at
                /\ g.do = "patched" /\ g.at = 1 /\ g.found = f.found
             \/ /\ g.do = f.do /\ g.at \in lacking /\ g.found
                /\ f.at <= g.at /\ \A i \in lacking : i < g.at => i < f.at
    BY <1>1, <1>2, <1>3, FindIs
<1>5. \A i \in DOMAIN Stubs : i < f.at \/ i \notin lacking => Settled(s, Stubs[i])
    BY <1>1, <1>2 DEF Patching, MissingInClass, Settled
<1>6. ~Managed(world, world.class[s]) /\ \A i \in DOMAIN Methods : Provided(s, i)
    BY <1>1, <1>2 DEF Patching
<1>7. s \in Streams
    BY <1>2 DEF PatchFrame
<1>8. CASE g.do = "patched"
    <2>1. g.do # f.do
        BY <1>1, <1>8
    <2>2. \A i \in lacking : i < f.at
        BY <1>4, <2>1
    <2>3. \A i \in DOMAIN Stubs : Settled(s, Stubs[i])
        BY <1>5, <2>2
    <2>4. Patching(g)
        BY <1>4, <1>6, <1>8, <2>3 DEF Patching
    <2> QED
        BY <1>4, <1>8, <2>4 DEF Goes, Frames, Sound
<1>9. CASE g.do # "patched"
    <2>1. /\ g.do = "stubs" /\ g.at \in lacking /\ g.found
          /\ \A i \in lacking : i < g.at => i < f.at
        BY <1>1, <1>4, <1>9
    <2>2. \A i \in DOMAIN Stubs : i < g.at => Settled(s, Stubs[i])
        BY <1>5, <2>1
    <2>3. g.at \in DOMAIN Stubs /\ ~Found(world.class[s], Stubs[g.at])
        BY <2>1 DEF MissingInClass
    <2>4. Wanting(s, Stubs[g.at])
        BY <1>6, <1>7, <2>3, LackingStub
    <2>5. Patching(g)
        BY <1>4, <1>6, <2>1, <2>2, <2>3, <2>4 DEF Patching
    <2> QED
        BY <1>4, <2>1, <2>5 DEF Goes, Frames, Sound
<1> QED
    BY <1>8, <1>9

LEMMA ReturnGoes ==
    ASSUME NEW t \in Threads, Return(t)
    PROVE  \E g : Goes(t, thread[t], g)
<1>1. Do(t, Idle) /\ Idle \in Frames /\ Idle.do = "idle"
    BY DEF Return, Frames, Idle
<1>2. Sound(Idle)
    BY <1>1 DEF Sound
<1> QED
    BY <1>1, <1>2 DEF Goes

\* Where no dictionary changes, nothing that the frames are held to does.
LEMMA SoundUnchanged ==
    ASSUME UNCHANGED <<world, class, own>>, NEW f, Sound(f)
    PROVE  Sound(f)'
<1>1. \A c, n : Where(c, n)' = Where(c, n)
    BY DEF Where
<1>2. \A c, n : Found(c, n)' = Found(c, n) /\ First(c, n)' = First(c, n)
    BY <1>1 DEF Found, First
<1>3. \A s, n : hasattr(s, n)' = hasattr(s, n) /\ getattr(s, n)' = getattr(s, n)
    BY <1>2 DEF hasattr, getattr
<1>4. \A c, o : Byhand(c, o)' = Byhand(c, o)
    BY DEF Byhand, Body
<1>5. \A c, o : Foremost(c, o)' = Foremost(c, o) /\ Overtaken(c, o)' = Overtaken(c, o)
    BY <1>4 DEF Foremost, Overtaken
<1>6. \A s, n, loop : MustRaise(s, n, loop)' = MustRaise(s, n, loop)
    BY <1>3 DEF MustRaise
<1>7. \A c, o : Wrapped(c, o)' = Wrapped(c, o)
    BY <1>5 DEF Wrapped
<1>8. \A d : Body(d)' = Body(d)
    BY DEF Body
<1>9. Traced(f) => Traced(f)'
    BY <1>6, <1>7 DEF Traced
<1>10. Answered(f) => Answered(f)'
    <2>1. Agrees(f) => Agrees(f)'
        BY <1>5, <1>8 DEF Agrees
    <2> QED
        BY <1>3, <1>6, <2>1 DEF Answered
<1>11. Patching(f) => Patching(f)'
    <2>1. \A s, i : Provided(s, i)' = Provided(s, i)
        BY <1>3 DEF Provided
    <2>2. \A s, n : Unbrought(s, n)' = Unbrought(s, n)
        BY DEF Unbrought
    <2>3. \A s, n : Wanting(s, n)' = Wanting(s, n) /\ Settled(s, n)' = Settled(s, n)
        BY <1>2, <2>2 DEF Wanting, Settled
    <2> QED
        BY <2>1, <2>2, <2>3 DEF Patching
<1> QED
    BY <1>9, <1>10, <1>11 DEF Sound

----------------------------------------------------------------------------
(* What a step may do to the dictionaries. *)

\* Dictionaries grow: they lose no entry, gain no synchronous method, and what a class
\* brought stays as it was.
Grows ==
    /\ world' = world
    /\ \A d \in Classes(world), n \in Names :
           \/ class'[d][n] = class[d][n]
           \/ n \notin Sync /\ class[d][n] \notin {"io", "auto"}
                            /\ class'[d][n] \notin {"none", "io", "auto"}
    /\ \A s \in Streams, n \in Names :
           own'[s][n] = own[s][n] \/ (n \notin Sync /\ own'[s][n] # "none")

LEMMA GrowsFinds ==
    ASSUME world \in Worlds, Grows, NEW c \in DOMAIN world.mro
    PROVE  /\ \A n \in Names : Found(c, n) => Found(c, n)'
           /\ \A n \in Sync : Found(c, n)' = Found(c, n) /\ First(c, n)' = First(c, n)
           /\ \A n \in Sync, i \in DOMAIN world.mro[c] :
                  class'[world.mro[c][i]][n] = class[world.mro[c][i]][n]
<1>1. \A i \in DOMAIN world.mro[c] : world.mro[c][i] \in Classes(world)
    BY WorldIs
<1>2. world' = world
    BY DEF Grows
<1>3. \A n \in Names, i \in DOMAIN world.mro[c] :
          class[world.mro[c][i]][n] # "none" => class'[world.mro[c][i]][n] # "none"
    BY <1>1 DEF Grows
<1>4. \A n \in Sync, i \in DOMAIN world.mro[c] :
          class'[world.mro[c][i]][n] = class[world.mro[c][i]][n]
    BY <1>1, Kinds DEF Grows
<1>5. \A n \in Names : Found(c, n) => Found(c, n)'
    BY <1>2, <1>3 DEF Found, Where
<1>6. \A n \in Sync : Where(c, n)' = Where(c, n)
    BY <1>2, <1>4 DEF Where
<1>7. \A n \in Sync : Found(c, n)' = Found(c, n) /\ First(c, n)' = First(c, n)
    BY <1>6 DEF Found, First
<1> QED
    BY <1>4, <1>5, <1>7

LEMMA GrowsHas ==
    ASSUME TypeInv, Grows, NEW s \in Streams
    PROVE  /\ \A n \in Names : hasattr(s, n) => hasattr(s, n)'
           /\ \A n \in Sync : hasattr(s, n)' = hasattr(s, n) /\ getattr(s, n)' = getattr(s, n)
           /\ \A n \in Names : Unbrought(s, n) => Unbrought(s, n)'
<1> DEFINE c == world.class[s]
<1>1. c \in DOMAIN world.mro /\ world \in Worlds
    BY StreamClass DEF TypeInv
<1>2. world' = world
    BY DEF Grows
<1>3. \A n \in Names : own[s][n] # "none" => own'[s][n] # "none"
    BY DEF Grows
<1>4. \A n \in Sync : own'[s][n] = own[s][n]
    BY Kinds DEF Grows
<1>5. \A n \in Names : hasattr(s, n) => hasattr(s, n)'
    BY <1>1, <1>2, <1>3, GrowsFinds DEF hasattr
<1>6. ASSUME NEW n \in Sync PROVE hasattr(s, n)' = hasattr(s, n)
    <2>1. Found(c, n)' = Found(c, n)
        BY <1>1, <1>2, GrowsFinds
    <2> QED
        BY <1>2, <1>4, <2>1 DEF hasattr
<1>7. ASSUME NEW n \in Sync PROVE getattr(s, n)' = getattr(s, n)
    <2>1. Found(c, n)' = Found(c, n) /\ First(c, n)' = First(c, n)
        BY <1>1, <1>2, GrowsFinds
    <2>2. CASE Found(c, n)
        <3>1. First(c, n) \in DOMAIN world.mro[c]
            BY <1>1, <2>2, FirstFound DEF FirstAt, Mro
        <3>2. class'[world.mro[c][First(c, n)]][n] = class[world.mro[c][First(c, n)]][n]
            BY <1>1, <3>1, GrowsFinds
        <3> QED
            BY <1>2, <1>4, <2>1, <2>2, <3>2 DEF getattr
    <2>3. CASE ~Found(c, n)
        BY <1>2, <1>4, <2>1, <2>3 DEF getattr
    <2> QED
        BY <2>2, <2>3
<1>8. ASSUME NEW n \in Names, Unbrought(s, n) PROVE Unbrought(s, n)'
    <2>1. \A i \in DOMAIN world.mro[c] : world.mro[c][i] \in Classes(world)
        BY <1>1, WorldIs
    <2>2. \A i \in DOMAIN world.mro[c] : class'[world.mro[c][i]][n] \notin {"io", "auto"}
        BY <1>8, <2>1 DEF Grows, Unbrought
    <2> QED
        BY <1>2, <2>2 DEF Unbrought
<1> QED
    BY <1>5, <1>6, <1>7, <1>8

LEMMA GrowsForemost ==
    ASSUME TypeInv, Grows, NEW c \in DOMAIN world.mro, NEW o \in Sync
    PROVE  /\ Foremost(c, o)' = Foremost(c, o)
           /\ Overtaken(c, o) => Overtaken(c, o)'
           /\ \A d : Body(d)' = Body(d) /\ Managed(world', d) = Managed(world, d)
<1>1. world' = world
    BY DEF Grows
<1>2. Byhand(c, o)' = Byhand(c, o)
    BY <1>1 DEF Byhand, Body
<1>3. Foremost(c, o)' = Foremost(c, o)
    BY <1>1, <1>2 DEF Foremost
<1>4. Async[o] \in Names
    BY Forms, Kinds
<1>5. \A i \in DOMAIN world.mro[c] : world.mro[c][i] \in Classes(world)
    BY WorldIs DEF TypeInv
<1>6. \A i \in DOMAIN world.mro[c] :
          class[world.mro[c][i]][Async[o]] # "none" => class'[world.mro[c][i]][Async[o]] # "none"
    BY <1>4, <1>5 DEF Grows
<1>7. Overtaken(c, o) => Overtaken(c, o)'
    BY <1>1, <1>2, <1>6 DEF Overtaken
<1>8. \A d : Body(d)' = Body(d) /\ Managed(world', d) = Managed(world, d)
    BY <1>1 DEF Body
<1> QED
    BY <1>3, <1>7, <1>8

LEMMA GrowsSound ==
    ASSUME TypeInv, Grows, NEW f \in Frames, Sound(f)
    PROVE  Sound(f)'
<1>1. world' = world
    BY DEF Grows
<1>2. ASSUME NEW s \in Streams, NEW n \in Names, NEW loop
      PROVE  MustRaise(s, n, loop)' = MustRaise(s, n, loop)
    <2>1. n \in {"read", "write"} => n \in Sync
        BY SyncIs
    <2>2. n \in Sync => getattr(s, n)' = getattr(s, n)
        BY GrowsHas
    <2> QED
        BY <2>1, <2>2 DEF MustRaise
<1>3. ASSUME f.do = "call" PROVE Traced(f)'
    <2>1. f.stream \in Streams /\ f.asked \in Names
        BY <1>3 DEF Frames, Idle, CallFrame, EndFrame, PatchFrame
    <2>2. world.class[f.stream] \in DOMAIN world.mro /\ Operation(f.asked) \in Sync
        BY <2>1, StreamClass, EveryFormOfOne
    <2>3. Wrapped(world.class[f.stream], Operation(f.asked)) =>
              Wrapped(world.class[f.stream], Operation(f.asked))'
        BY <1>1, <2>2, GrowsForemost DEF Wrapped
    <2>4. MustRaise(f.stream, f.asked, f.asked_in)' = MustRaise(f.stream, f.asked, f.asked_in)
        BY <1>2, <2>1
    <2>5. Traced(f)
        BY <1>3 DEF Sound
    <2> QED
        BY <1>1, <2>3, <2>4, <2>5 DEF Traced
<1>4. ASSUME f.do = "ended" PROVE Answered(f)'
    <2>1. f.stream \in Streams /\ f.asked \in Names
        BY <1>4 DEF Frames, Idle, CallFrame, EndFrame, PatchFrame
    <2>2. world.class[f.stream] \in DOMAIN world.mro /\ Operation(f.asked) \in Sync
        BY <2>1, StreamClass, EveryFormOfOne
    <2>3. Agrees(f) => Agrees(f)'
        BY <1>1, <2>2, GrowsForemost DEF Agrees
    <2>4. MustRaise(f.stream, f.asked, f.loop)' = MustRaise(f.stream, f.asked, f.loop)
        BY <1>2, <2>1
    <2>5. hasattr(f.stream, Operation(f.asked))' = hasattr(f.stream, Operation(f.asked))
        BY <2>1, <2>2, GrowsHas
    <2>6. Answered(f)
        BY <1>4 DEF Sound
    <2> QED
        BY <1>1, <2>3, <2>4, <2>5, <2>6 DEF Answered
<1>5. ASSUME f.do \in {"methods", "stubs", "patched"} PROVE Patching(f)'
    <2> DEFINE s == f.stream
    <2>1. s \in Streams
        BY <1>5 DEF Frames, Idle, CallFrame, EndFrame, PatchFrame
    <2>2. world.class[s] \in DOMAIN world.mro /\ world \in Worlds
        BY <2>1, StreamClass DEF TypeInv
    <2>3. ASSUME NEW i \in DOMAIN Methods, Provided(s, i) PROVE Provided(s, i)'
        <3>1. Methods[i].name \in Names /\ Operation(Methods[i].name) \in Sync
            BY MethodsAre, EveryFormOfOne
        <3> QED
            BY <2>1, <2>3, <3>1, GrowsHas DEF Provided
    <2>4. ASSUME NEW i \in DOMAIN Methods, Unbrought(s, Methods[i].name)
          PROVE  Unbrought(s, Methods[i].name)'
        BY <2>1, <2>4, MethodsAre, GrowsHas
    <2>5. ASSUME NEW i \in DOMAIN Stubs
          PROVE  /\ Wanting(s, Stubs[i]) => Wanting(s, Stubs[i])'
                 /\ Settled(s, Stubs[i]) => Settled(s, Stubs[i])'
        <3>1. Stubs[i] \in Names /\ Operation(Stubs[i]) \in Sync
            BY StubsAre, EveryFormOfOne
        <3>2. Found(world.class[s], Operation(Stubs[i]))' = Found(world.class[s], Operation(Stubs[i]))
            BY <1>1, <2>2, <3>1, GrowsFinds
        <3>3. Wanting(s, Stubs[i]) => Wanting(s, Stubs[i])'
            BY <1>1, <2>1, <3>1, <3>2, GrowsHas DEF Wanting
        <3>4. Settled(s, Stubs[i]) => Settled(s, Stubs[i])'
            BY <1>1, <2>2, <3>1, GrowsFinds DEF Settled
        <3> QED
            BY <3>3, <3>4
    <2>6. Patching(f)
        BY <1>5 DEF Sound
    <2> QED
        BY <1>1, <2>3, <2>4, <2>5, <2>6 DEF Patching
<1> QED
    BY <1>3, <1>4, <1>5 DEF Sound

\* An assignment puts an entry for n into the dictionary of the stream's class, where
\* nothing was brought, and possibly into the stream's own.
Puts(s, n, way) ==
    /\ world' = world
    /\ AssignToClass(s, n, way)
    /\ (own' = own \/ own' = [own EXCEPT ![s][n] = way])

LEMMA PutsKeeps ==
    ASSUME TypeInv, ClassInv, OwnInv, NEW s \in Streams, NEW n \in Names \ Sync, NEW way,
           Puts(s, n, way), ~Managed(world, world.class[s]), Unbrought(s, n),
           \/ way = AsyncIOBase[n]
           \/ /\ way = "stub" /\ own' = own
              /\ world.class[s] \in world.immutable \/ ~Found(world.class[s], Operation(n))
    PROVE  /\ Grows /\ ClassInv' /\ OwnInv'
           /\ class' \in [Classes(world) -> [Names -> Ways]]
           /\ own' \in [Streams -> [Names -> Ways]]
<1> DEFINE c == world.class[s]
<1>1. c \in DOMAIN world.mro /\ c \in Classes(world) /\ world \in Worlds /\ world' = world
    BY StreamClass DEF Classes, TypeInv, Puts
<1>2. way \in Ways /\ way \notin {"none", "io", "auto"}
    BY BaseIs, Kinds DEF Ways
<1>3. class[c][n] \notin {"io", "auto"}
    BY <1>1, WorldIs DEF Unbrought
<1>4. class \in [Classes(world) -> [Names -> Ways]] /\ own \in [Streams -> [Names -> Ways]]
    BY DEF TypeInv
<1>5. /\ class' \in [Classes(world) -> [Names -> Ways]]
      /\ \A d \in Classes(world), m \in Names :
             class'[d][m] = IF d = c /\ m = n /\ c \notin world.immutable THEN way ELSE class[d][m]
    <2>1. CASE c \in world.immutable
        BY <1>4, <2>1 DEF Puts, AssignToClass
    <2>2. CASE c \notin world.immutable
        <3>1. class' = [class EXCEPT ![c][n] = way]
            BY <2>2 DEF Puts, AssignToClass
        <3> QED
            BY <1>1, <1>2, <1>4, <2>2, <3>1
    <2> QED
        BY <2>1, <2>2
<1>6. /\ own' \in [Streams -> [Names -> Ways]]
      /\ \/ own' = own
         \/ \A u \in Streams, m \in Names :
                own'[u][m] = IF u = s /\ m = n THEN way ELSE own[u][m]
    <2>1. CASE own' = own
        BY <1>4, <2>1
    <2>2. CASE own' = [own EXCEPT ![s][n] = way]
        BY <1>2, <1>4, <2>2
    <2> QED
        BY <2>1, <2>2 DEF Puts
<1>7. Grows
    <2>1. \A d \in Classes(world), m \in Names :
              \/ class'[d][m] = class[d][m]
              \/ m \notin Sync /\ class[d][m] \notin {"io", "auto"}
                               /\ class'[d][m] \notin {"none", "io", "auto"}
        BY <1>2, <1>3, <1>5
    <2>2. \A u \in Streams, m \in Names :
              own'[u][m] = own[u][m] \/ (m \notin Sync /\ own'[u][m] # "none")
        BY <1>2, <1>6
    <2> QED
        BY <1>1, <2>1, <2>2 DEF Grows
<1>8. ASSUME NEW d \in Classes(world), NEW m \in Names
      PROVE  (class[d][m] = Defined(world, d)[m] \/ Patch(d, m))'
    <2>1. CASE d = c /\ m = n /\ c \notin world.immutable
        <3>1. class'[c][n] = way
            BY <1>1, <1>5, <2>1
        <3>2. Defined(world, c)[n] = "none"
            <4>1. class[c][n] = Defined(world, c)[n] \/ Defined(world, c)[n] = "none"
                BY <1>1 DEF ClassInv, Patch
            <4>2. Defined(world, c)[n] \in {"io", "none"}
                BY <1>1, DefinedIs
            <4> QED
                BY <1>3, <4>1, <4>2
        <3>3. ~Found(c, Operation(n)) => ~Found(c, Operation(n))'
            BY <1>1, <1>7, EveryFormOfOne, GrowsFinds
        <3>4. class'[c][n] = AsyncIOBase[n] \/ (class'[c][n] = "stub" /\ ~Found(c, Operation(n))')
            BY <2>1, <3>1, <3>3
        <3>5. Patch(c, n)'
            BY <1>1, <3>2, <3>4 DEF Patch
        <3> QED
            BY <1>1, <2>1, <3>5
    <2>2. CASE ~(d = c /\ m = n /\ c \notin world.immutable)
        <3>1. class'[d][m] = class[d][m]
            BY <1>5, <2>2
        <3>2. CASE class[d][m] = Defined(world, d)[m]
            BY <1>1, <3>1, <3>2
        <3>3. CASE Patch(d, m)
            <4>1. d \in DOMAIN world.mro
                BY <3>3 DEF Patch, Managed, Classes
            <4>2. Found(d, Operation(m))' = Found(d, Operation(m))
                BY <1>1, <1>7, <4>1, EveryFormOfOne, GrowsFinds
            <4>3. Patch(d, m)'
                BY <1>1, <3>1, <3>3, <4>2 DEF Patch
            <4> QED
                BY <4>3
        <3> QED
            BY <3>2, <3>3 DEF ClassInv
    <2> QED
        BY <2>1, <2>2
<1>9. ASSUME NEW u \in Streams, NEW m \in Names
      PROVE  (own[u][m] = "none" \/ Kept(u, m))'
    <2>1. world.class[u] \in Classes(world)
        BY StreamClass DEF Classes
    <2>2. class[world.class[u]][m] # "none" => class'[world.class[u]][m] # "none"
        BY <1>7, <2>1 DEF Grows
    <2>3. CASE own'[u][m] = own[u][m]
        <3>1. CASE own[u][m] = "none"
            BY <2>3, <3>1
        <3>2. CASE Kept(u, m)
            <4>1. Kept(u, m)'
                BY <1>1, <2>2, <2>3, <3>2 DEF Kept
            <4> QED
                BY <4>1
        <3> QED
            BY <3>1, <3>2 DEF OwnInv
    <2>4. CASE own'[u][m] # own[u][m]
        <3>1. u = s /\ m = n /\ own'[u][m] = way /\ own' # own
            BY <1>6, <2>4
        <3>2. way = AsyncIOBase[n]
            BY <3>1
        <3>3. c \in world.immutable \/ class'[c][n] # "none"
            BY <1>1, <1>2, <1>5
        <3>4. Kept(u, m)'
            BY <1>1, <3>1, <3>2, <3>3 DEF Kept
        <3> QED
            BY <3>4
    <2> QED
        BY <2>3, <2>4
<1>10. ClassInv'
    BY <1>1, <1>8 DEF ClassInv
<1>11. OwnInv'
    BY <1>9 DEF OwnInv
<1> QED
    BY <1>5, <1>6, <1>7, <1>10, <1>11

LEMMA AssignPuts ==
    ASSUME TypeInv, NEW t \in Threads, Sound(thread[t]), Assign(t)
    PROVE  LET s == thread[t].stream
               m == Methods[thread[t].at]
           IN  /\ thread[t] \in PatchFrame /\ Patching(thread[t])
               /\ thread[t].do = "methods" /\ thread[t].found /\ thread[t].at \in DOMAIN Methods
               /\ Puts(s, m.name, m.way) /\ Unbrought(s, m.name)
               /\ \/ thread' = [thread EXCEPT ![t].do = "raised"]
                  \/ /\ thread' = [thread EXCEPT ![t] = Skip(thread[t])]
                     /\ own' = [own EXCEPT ![s][m.name] = m.way]
<1> DEFINE f == thread[t]
<1>1. f.do = "methods" /\ f.found
    BY DEF Assign
<1>2. f \in PatchFrame /\ Patching(f)
    BY <1>1, FrameIs DEF Sound
<1>3. f.at \in DOMAIN Methods /\ Unbrought(f.stream, Methods[f.at].name)
    BY <1>1, <1>2 DEF Patching
<1>4. /\ world' = world /\ AssignToClass(f.stream, Methods[f.at].name, Methods[f.at].way)
      /\ \/ thread' = [thread EXCEPT ![t].do = "raised"] /\ own' = own
         \/ /\ thread' = [thread EXCEPT ![t] = Skip(f)]
            /\ own' = [own EXCEPT ![f.stream][Methods[f.at].name] = Methods[f.at].way]
    BY DEF Assign
<1> QED
    BY <1>1, <1>2, <1>3, <1>4 DEF Puts

LEMMA AssignStubPuts ==
    ASSUME TypeInv, NEW t \in Threads, Sound(thread[t]), AssignStub(t)
    PROVE  LET s == thread[t].stream
               n == Stubs[thread[t].at]
           IN  /\ thread[t] \in PatchFrame /\ Patching(thread[t])
               /\ thread[t].do = "stubs" /\ thread[t].found /\ thread[t].at \in DOMAIN Stubs
               /\ Puts(s, n, "stub") /\ Wanting(s, n) /\ own' = own
               /\ thread' = [thread EXCEPT ![t] = Skip(thread[t])]
<1> DEFINE f == thread[t]
<1>1. f.do = "stubs" /\ f.found
    BY DEF AssignStub
<1>2. f \in PatchFrame /\ Patching(f)
    BY <1>1, FrameIs DEF Sound
<1>3. f.at \in DOMAIN Stubs /\ Wanting(f.stream, Stubs[f.at])
    BY <1>1, <1>2 DEF Patching
<1>4. /\ world' = world /\ own' = own /\ AssignToClass(f.stream, Stubs[f.at], "stub")
      /\ thread' = [thread EXCEPT ![t] = Skip(f)]
    BY DEF AssignStub
<1> QED
    BY <1>1, <1>2, <1>3, <1>4 DEF Puts

LEMMA SkipIs ==
    ASSUME NEW f \in PatchFrame
    PROVE  LET g == Skip(f)
           IN  /\ g \in PatchFrame /\ g.do = f.do /\ g.stream = f.stream
               /\ g.at = f.at + 1 /\ f.at \in Nat /\ g.found = FALSE
<1>1. PICK k \in Nat : k = f.at
    BY DEF PatchFrame
<1>2. Skip(f) = [f EXCEPT !.at = k + 1, !.found = FALSE] /\ k + 1 \in Nat
    BY <1>1 DEF Skip
<1> QED
    BY <1>1, <1>2 DEF PatchFrame

\* A step of one thread leaves what holds of the others.
LEMMA OneMoves ==
    ASSUME Inv, world' = world, ClassInv', OwnInv',
           class' \in [Classes(world) -> [Names -> Ways]],
           own' \in [Streams -> [Names -> Ways]],
           \A f \in Frames : Sound(f) => Sound(f)',
           NEW t \in Threads, NEW g \in Frames, Sound(g)', thread' = [thread EXCEPT ![t] = g]
    PROVE  Inv'
<1>1. Classes(world') = Classes(world) /\ Frames' = Frames
    BY DEF Frames, CallFrame, EndFrame, PatchFrame, Classes
<1>2. thread \in [Threads -> Frames] /\ world \in Worlds
    BY DEF Inv, TypeInv
<1>3. thread' \in [Threads -> Frames]
    BY <1>2
<1>4. TypeInv'
    BY <1>1, <1>2, <1>3 DEF TypeInv
<1>5. ASSUME NEW u \in Threads PROVE Sound(thread[u])'
    <2>1. CASE u = t
        <3>1. thread'[u] = g
            BY <1>2, <2>1
        <3> QED
            BY <3>1
    <2>2. CASE u # t
        <3>1. thread'[u] = thread[u] /\ thread[u] \in Frames
            BY <1>2, <2>2
        <3>2. Sound(thread[u])
            BY DEF Inv, FrameInv
        <3>3. PICK f \in Frames : f = thread[u]
            BY <3>1
        <3>4. Sound(f)'
            BY <3>2, <3>3
        <3>5. thread'[u] = f
            BY <3>1, <3>3
        <3> QED
            BY <3>4, <3>5
    <2> QED
        BY <2>1, <2>2
<1>6. FrameInv'
    BY <1>5 DEF FrameInv
<1> QED
    BY <1>4, <1>6 DEF Inv

LEMMA GoesKeeps ==
    ASSUME Inv, NEW t \in Threads, NEW g, Goes(t, thread[t], g)
    PROVE  Inv' /\ Grows
<1>1. /\ g \in Frames /\ Sound(g) /\ thread' = [thread EXCEPT ![t] = g]
      /\ UNCHANGED <<world, class, own>>
    BY DEF Goes, Do
<1>2. \A f \in Frames : Sound(f) => Sound(f)'
    BY <1>1, SoundUnchanged
<1>3. Sound(g)'
    BY <1>1, <1>2
<1>4. ClassInv'
    <2>1. \A c, n : Found(c, n)' = Found(c, n)
        BY <1>1 DEF Found, Where
    <2>2. \A d, n : Patch(d, n)' = Patch(d, n)
        BY <1>1, <2>1 DEF Patch
    <2> QED
        BY <1>1, <2>2 DEF Inv, ClassInv
<1>5. OwnInv'
    BY <1>1 DEF Inv, OwnInv, Kept
<1>6. class' \in [Classes(world) -> [Names -> Ways]] /\ own' \in [Streams -> [Names -> Ways]]
    BY <1>1 DEF Inv, TypeInv
<1>7. Inv'
    BY <1>1, <1>2, <1>3, <1>4, <1>5, <1>6, OneMoves
<1>8. Grows
    BY <1>1 DEF Grows
<1> QED
    BY <1>7, <1>8

LEMMA AssignKeeps ==
    ASSUME Inv, NEW t \in Threads, Assign(t)
    PROVE  Inv' /\ Grows
<1>1. TypeInv /\ ClassInv /\ OwnInv /\ Sound(thread[t])
    BY DEF Inv, FrameInv
<1>2. PICK f \in PatchFrame : f = thread[t]
    BY <1>1, AssignPuts
<1> DEFINE s == f.stream
           m == Methods[f.at]
<1>3. /\ Patching(f) /\ f.do = "methods" /\ f.at \in DOMAIN Methods
      /\ Puts(s, m.name, m.way) /\ Unbrought(s, m.name)
      /\ \/ thread' = [thread EXCEPT ![t].do = "raised"]
         \/ /\ thread' = [thread EXCEPT ![t] = Skip(f)]
            /\ own' = [own EXCEPT ![s][m.name] = m.way]
    BY <1>1, <1>2, AssignPuts
<1>4. s \in Streams /\ m.name \in Names \ Sync /\ m.way = AsyncIOBase[m.name]
    BY <1>3, MethodsAre DEF PatchFrame
<1>5. ~Managed(world, world.class[s])
    BY <1>3 DEF Patching
<1>6. /\ Grows /\ ClassInv' /\ OwnInv'
      /\ class' \in [Classes(world) -> [Names -> Ways]]
      /\ own' \in [Streams -> [Names -> Ways]]
    BY <1>1, <1>3, <1>4, <1>5, PutsKeeps
<1>7. \A x \in Frames : Sound(x) => Sound(x)'
    BY <1>1, <1>6, GrowsSound
<1>8. world' = world
    BY <1>6 DEF Grows
<1>9. CASE thread' = [thread EXCEPT ![t].do = "raised"]
    <2> DEFINE g == [f EXCEPT !.do = "raised"]
    <2>1. g \in PatchFrame /\ g.do = "raised"
        BY DEF PatchFrame
    <2>2. thread' = [thread EXCEPT ![t] = g]
        BY <1>2, <1>9
    <2> HIDE DEF g
    <2>3. g \in Frames /\ Sound(g)
        BY <2>1 DEF Frames, Sound
    <2>4. Inv'
        BY <1>6, <1>7, <1>8, <2>2, <2>3, OneMoves
    <2> QED
        BY <1>6, <2>4
<1>10. CASE /\ thread' = [thread EXCEPT ![t] = Skip(f)]
            /\ own' = [own EXCEPT ![s][m.name] = m.way]
    <2>1. PICK g \in PatchFrame : g = Skip(f)
        BY SkipIs
    <2>2. g.do = "methods" /\ g.stream = s /\ g.at = f.at + 1 /\ ~g.found /\ f.at \in Nat
        BY <1>3, <2>1, SkipIs
    <2>3. f \in Frames /\ Sound(f)
        BY <1>1, <1>2 DEF Frames
    <2>4. Patching(f)'
        BY <1>3, <1>7, <2>3 DEF Sound
    <2>5. own'[s][m.name] # "none"
        <3>1. own'[s][m.name] = m.way
            BY <1>1, <1>4, <1>10 DEF TypeInv
        <3> QED
            BY <1>4, <3>1, BaseIs, Kinds
    <2>6. \A i \in DOMAIN Methods : i < f.at + 1 => Provided(s, i)'
        <3> SUFFICES ASSUME NEW i \in DOMAIN Methods, i < f.at + 1 PROVE Provided(s, i)'
            OBVIOUS
        <3>1. CASE i = f.at
            <4>1. hasattr(s, Methods[i].name)'
                BY <2>5, <3>1 DEF hasattr
            <4> QED
                BY <4>1 DEF Provided
        <3>2. CASE i < f.at
            BY <1>3, <2>4, <3>2 DEF Patching
        <3>3. i < f.at \/ i = f.at
            BY <2>2, MethodsAre
        <3> QED
            BY <3>1, <3>2, <3>3
    <2>7. Patching(g)'
        BY <1>5, <1>8, <2>2, <2>6 DEF Patching
    <2>8. g \in Frames /\ Sound(g)'
        BY <2>2, <2>7 DEF Frames, Sound
    <2>9. thread' = [thread EXCEPT ![t] = g]
        BY <1>10, <2>1
    <2>10. Inv'
        BY <1>6, <1>7, <1>8, <2>8, <2>9, OneMoves
    <2> QED
        BY <1>6, <2>10
<1> QED
    BY <1>3, <1>9, <1>10

LEMMA AssignStubKeeps ==
    ASSUME Inv, NEW t \in Threads, AssignStub(t)
    PROVE  Inv' /\ Grows
<1>1. TypeInv /\ ClassInv /\ OwnInv /\ Sound(thread[t])
    BY DEF Inv, FrameInv
<1>2. PICK f \in PatchFrame : f = thread[t]
    BY <1>1, AssignStubPuts
<1> DEFINE s == f.stream
           n == Stubs[f.at]
<1>3. /\ Patching(f) /\ f.do = "stubs" /\ f.at \in DOMAIN Stubs
      /\ Puts(s, n, "stub") /\ Wanting(s, n) /\ own' = own
      /\ thread' = [thread EXCEPT ![t] = Skip(f)]
    BY <1>1, <1>2, AssignStubPuts
<1>4. s \in Streams /\ n \in Names \ Sync
    BY <1>3, StubsAre DEF PatchFrame
<1>5. ~Managed(world, world.class[s])
    BY <1>3 DEF Patching
<1>6. Unbrought(s, n)
        /\ (world.class[s] \in world.immutable \/ ~Found(world.class[s], Operation(n)))
    BY <1>3 DEF Wanting
<1>7. /\ Grows /\ ClassInv' /\ OwnInv'
      /\ class' \in [Classes(world) -> [Names -> Ways]]
      /\ own' \in [Streams -> [Names -> Ways]]
    BY <1>1, <1>3, <1>4, <1>5, <1>6, PutsKeeps
<1>8. \A x \in Frames : Sound(x) => Sound(x)'
    BY <1>1, <1>7, GrowsSound
<1>9. world' = world
    BY <1>7 DEF Grows
<1>10. PICK g \in PatchFrame : g = Skip(f)
    BY SkipIs
<1>11. g.do = "stubs" /\ g.stream = s /\ g.at = f.at + 1 /\ ~g.found /\ f.at \in Nat
    BY <1>3, <1>10, SkipIs
<1>12. f \in Frames /\ Sound(f)
    BY <1>1, <1>2 DEF Frames
<1>13. Patching(f)'
    BY <1>3, <1>8, <1>12 DEF Sound
<1>14. Settled(s, n)'
    <2>1. CASE world.class[s] \in world.immutable
        BY <1>9, <2>1 DEF Settled
    <2>2. CASE world.class[s] \notin world.immutable
        <3>1. world.class[s] \in DOMAIN world.mro /\ world \in Worlds
            BY <1>1, <1>4, StreamClass DEF TypeInv
        <3>2. class' = [class EXCEPT ![world.class[s]][n] = "stub"]
            BY <1>3, <2>2 DEF Puts, AssignToClass
        <3>3. class'[world.class[s]][n] = "stub"
            BY <1>1, <1>4, <3>1, <3>2 DEF TypeInv, Classes
        <3>4. 1 \in DOMAIN world.mro[world.class[s]]
                /\ world.mro[world.class[s]][1] = world.class[s]
            BY <3>1, WorldIs
        <3>5. Found(world.class[s], n)'
            BY <1>9, <3>3, <3>4 DEF Found, Where
        <3> QED
            BY <3>5 DEF Settled
    <2> QED
        BY <2>1, <2>2
<1>15. \A i \in DOMAIN Stubs : i < f.at + 1 => Settled(s, Stubs[i])'
    <2> SUFFICES ASSUME NEW i \in DOMAIN Stubs, i < f.at + 1 PROVE Settled(s, Stubs[i])'
        OBVIOUS
    <2>1. CASE i = f.at
        BY <1>14, <2>1
    <2>2. CASE i < f.at
        BY <1>3, <1>13, <2>2 DEF Patching
    <2>3. i < f.at \/ i = f.at
        BY <1>11, StubsAre
    <2> QED
        BY <2>1, <2>2, <2>3
<1>16. \A i \in DOMAIN Methods : Provided(s, i)'
    BY <1>3, <1>13 DEF Patching
<1>17. Patching(g)'
    BY <1>5, <1>9, <1>11, <1>15, <1>16 DEF Patching
<1>18. g \in Frames /\ Sound(g)'
    BY <1>11, <1>17 DEF Frames, Sound
<1>19. thread' = [thread EXCEPT ![t] = g]
    BY <1>3, <1>10
<1>20. Inv'
    BY <1>7, <1>8, <1>9, <1>18, <1>19, OneMoves
<1> QED
    BY <1>7, <1>20

----------------------------------------------------------------------------
(* The invariant holds. *)

LEMMA InitInv == Init => Inv
<1> SUFFICES ASSUME Init PROVE Inv
    OBVIOUS
<1>1. world \in Worlds
    BY DEF Init
<1>2. /\ class = [c \in Classes(world) |-> Defined(world, c)]
      /\ own = [s \in Streams |-> Nothing] /\ thread = [t \in Threads |-> Idle]
    BY DEF Init, Classes
<1>3. \A d \in Classes(world) : class[d] = Defined(world, d) /\ class[d] \in [Names -> Ways]
    BY <1>1, <1>2, DefinedType
<1>4. class \in [Classes(world) -> [Names -> Ways]]
    BY <1>2, <1>3
<1>5. \A s \in Streams, n \in Names : own[s][n] = "none"
    BY <1>2 DEF Nothing
<1>6. own \in [Streams -> [Names -> Ways]]
    BY <1>2 DEF Nothing, Ways
<1>7. thread \in [Threads -> Frames]
    BY <1>2 DEF Frames
<1>8. \A t \in Threads : thread[t].do = "idle"
    BY <1>2 DEF Idle
<1>9. FrameInv
    BY <1>8 DEF FrameInv, Sound
<1> QED
    BY <1>1, <1>3, <1>4, <1>5, <1>6, <1>7, <1>9 DEF Inv, TypeInv, ClassInv, OwnInv

\* Every step is one of a frame alone, or puts an entry into the dictionaries.
LEMMA StepOf ==
    ASSUME Inv, Next
    PROVE  \E t \in Threads :
               (\E g : Goes(t, thread[t], g)) \/ Assign(t) \/ AssignStub(t)
<1>1. PICK t \in Threads :
          \/ \E s \in Streams, adapter \in BOOLEAN, n \in Calls, loop \in BOOLEAN :
                 Call(t, s, adapter, n, loop)
          \/ Run(t) \/ Return(t)
          \/ \E s \in Streams : patch_stream(t, s)
          \/ Check(t) \/ Assign(t) \/ CheckStub(t) \/ AssignStub(t)
    BY DEF Next
<1>2. TypeInv /\ ClassInv /\ OwnInv /\ Sound(thread[t])
    BY DEF Inv, FrameInv
<1>3. CASE \E s \in Streams, adapter \in BOOLEAN, n \in Calls, loop \in BOOLEAN :
               Call(t, s, adapter, n, loop)
    BY <1>2, <1>3, CallGoes
<1>4. CASE Run(t)
    BY <1>2, <1>4, RunGoes
<1>5. CASE Return(t)
    BY <1>5, ReturnGoes
<1>6. CASE \E s \in Streams : patch_stream(t, s)
    BY <1>2, <1>6, PatchStreamGoes
<1>7. CASE Check(t)
    BY <1>2, <1>7, CheckGoes
<1>8. CASE CheckStub(t)
    BY <1>2, <1>8, CheckStubGoes
<1> QED
    BY <1>1, <1>3, <1>4, <1>5, <1>6, <1>7, <1>8

LEMMA NextInv ==
    ASSUME Inv, [Next]_vars
    PROVE  Inv'
<1>1. CASE Next
    BY <1>1, StepOf, GoesKeeps, AssignKeeps, AssignStubKeeps
<1>2. CASE UNCHANGED vars
    <2>1. UNCHANGED <<world, class, own>> /\ thread' = thread
        BY <1>2 DEF vars
    <2>2. ClassInv'
        <3>1. \A c, n : Found(c, n)' = Found(c, n)
            BY <2>1 DEF Found, Where
        <3>2. \A d, n : Patch(d, n)' = Patch(d, n)
            BY <2>1, <3>1 DEF Patch
        <3> QED
            BY <2>1, <3>2 DEF Inv, ClassInv
    <2>3. OwnInv'
        BY <2>1 DEF Inv, OwnInv, Kept
    <2>4. TypeInv'
        BY <2>1 DEF Inv, TypeInv, Frames, CallFrame, EndFrame, PatchFrame, Classes
    <2>5. ASSUME NEW t \in Threads PROVE Sound(thread[t])'
        <3>1. PICK f : f = thread[t] /\ Sound(f)
            BY DEF Inv, FrameInv
        <3>2. Sound(f)'
            BY <2>1, <3>1, SoundUnchanged
        <3>3. thread'[t] = f
            BY <2>1, <3>1
        <3> QED
            BY <3>2, <3>3
    <2>6. FrameInv'
        BY <2>5 DEF FrameInv
    <2> QED
        BY <2>2, <2>3, <2>4, <2>6 DEF Inv
<1> QED
    BY <1>1, <1>2

\* Inv holds: the dictionaries grow as the code lets them, and every call and every patch
\* has behind it what its thread has done.
THEOREM Invariance == Spec => []Inv
    BY InitInv, NextInv, PTL DEF Spec

\* TypeOK holds.
THEOREM TypeCorrect == Spec => []TypeOK
<1>1. Inv => TypeOK
    <2> SUFFICES ASSUME Inv PROVE TypeOK
        OBVIOUS
    <2>1. /\ world \in Worlds
          /\ class \in [DOMAIN world.mro \cup {"AsyncIOBase"} -> [Names -> Ways]]
          /\ own \in [Streams -> [Names -> Ways]]
        BY DEF Inv, TypeInv, Classes
    <2>2. ASSUME NEW t \in Threads
          PROVE  \/ thread[t] = Idle
                 \/ /\ thread[t].do \in {"call", "ended", "methods", "stubs", "patched", "raised"}
                    /\ thread[t].stream \in Streams
                    /\ thread[t].do = "methods" /\ thread[t].found => thread[t].at \in DOMAIN Methods
                    /\ thread[t].do = "stubs" /\ thread[t].found => thread[t].at \in DOMAIN Stubs
        <3>1. thread[t] \in Frames /\ Sound(thread[t])
            BY DEF Inv, TypeInv, FrameInv
        <3>2. thread[t].do \in {"methods", "stubs"} => Patching(thread[t])
            BY <3>1 DEF Sound
        <3>3. \/ thread[t] = Idle
              \/ /\ thread[t].do \in {"call", "ended", "methods", "stubs", "patched", "raised"}
                 /\ thread[t].stream \in Streams
            BY <3>1 DEF Frames, CallFrame, EndFrame, PatchFrame
        <3>4. /\ thread[t].do = "methods" /\ thread[t].found => thread[t].at \in DOMAIN Methods
              /\ thread[t].do = "stubs" /\ thread[t].found => thread[t].at \in DOMAIN Stubs
            BY <3>2 DEF Patching
        <3> QED
            BY <3>3, <3>4
    <2> QED
        BY <2>1, <2>2 DEF TypeOK
<1> QED
    BY <1>1, Invariance, PTL

\* FormsAgree holds: whichever form is called, the foremost class that defines the
\* operation does the work, outside the exceptions that the property names.
THEOREM WorkOfTheForemost == Spec => []FormsAgree
<1>1. Inv => FormsAgree
    BY DEF Inv, FrameInv, Sound, Answered, Agrees, FormsAgree, Ended, Of, Form
<1> QED
    BY <1>1, Invariance, PTL

\* StubsForMissing holds: a stub answers only for an operation that the stream does not
\* have, or where it was inherited from the class of a patched stream.
THEOREM StubsAnswer == Spec => []StubsForMissing
<1>1. Inv => StubsForMissing
    BY DEF Inv, FrameInv, Sound, Answered, StubsForMissing, Ended, Of, Form
<1> QED
    BY <1>1, Invariance, PTL

\* PatchedConform holds: whatever other threads patch, a patched stream has the methods of
\* the protocol, unless its class takes no attributes and it lacks an operation.
THEOREM PatchesComplete == Spec => []PatchedConform
<1>1. ASSUME Inv, NEW t \in Threads, thread[t].do = "patched"
      PROVE  \/ AsyncIOStream(thread[t].stream)
             \/ Of(t) \in world.immutable /\ \E o \in Sync : ~hasattr(thread[t].stream, o)
    <2> DEFINE s == thread[t].stream
    <2>1. Patching(thread[t])
        BY <1>1 DEF Inv, FrameInv, Sound
    <2>2. /\ \A i \in DOMAIN Methods : Provided(s, i)
          /\ \A i \in DOMAIN Stubs : Settled(s, Stubs[i])
        BY <1>1, <2>1 DEF Patching
    <2>3. CASE world.class[s] \notin world.immutable
        <3>1. \A n \in AsyncNames \cup {"asplice"} : Found(world.class[s], n)
            BY <2>2, <2>3, StubsAre DEF Settled
        <3> QED
            BY <3>1 DEF AsyncIOStream, hasattr
    <2>4. CASE \A o \in Sync : hasattr(s, o)
        <3>1. ASSUME NEW n \in AsyncNames \cup {"asplice"} PROVE hasattr(s, n)
            <4>1. PICK i \in DOMAIN Stubs : Stubs[i] = n
                BY StubsAre
            <4>2. PICK j \in DOMAIN Methods : Methods[j].name = n
                BY <4>1, StubsAre
            <4>3. n \in Names
                BY <4>1, StubsAre
            <4>4. hasattr(s, Operation(n))
                BY <2>4, <4>3, EveryFormOfOne
            <4> QED
                BY <2>2, <4>2, <4>4 DEF Provided
        <3> QED
            BY <3>1 DEF AsyncIOStream
    <2> QED
        BY <2>3, <2>4 DEF Of
<1>2. Inv => PatchedConform
    BY <1>1 DEF PatchedConform
<1> QED
    BY <1>2, Invariance, PTL

----------------------------------------------------------------------------
(* What classes brought is kept. *)

BroughtKept(u, m) ==
    getattr(u, m).way \in {"io", "auto"} =>
        \/ getattr(u, m)' = getattr(u, m)
        \/ getattr(u, m).by # getattr(u, m).by' /\ getattr(u, m).by' # world.class[u]

\* FirstIs, after a step.
LEMMA FirstAfter ==
    ASSUME world \in Worlds, world' = world, NEW c \in DOMAIN world.mro, NEW n,
           NEW k \in DOMAIN Mro(c), class'[Mro(c)[k]][n] # "none",
           \A j \in DOMAIN Mro(c) : class'[Mro(c)[j]][n] # "none" => k <= j
    PROVE  Found(c, n)' /\ First(c, n)' = k
<1> DEFINE T == {i \in DOMAIN Mro(c) : class'[Mro(c)[i]][n] # "none"}
<1>1. Where(c, n)' = T
    BY DEF Where, Mro
<1>2. T \subseteq Nat
    BY WorldIs DEF Mro
<1>3. k \in T /\ \A j \in T : k <= j
    OBVIOUS
<1> HIDE DEF T
<1>4. (CHOOSE i \in T : \A j \in T : i <= j) = k
    BY <1>2, <1>3, LeastIs
<1>5. First(c, n)' = k
    BY <1>1, <1>4 DEF First
<1> QED
    BY <1>1, <1>3, <1>5 DEF Found

\* A method that a class brought comes from a class, at the first place that has it.
LEMMA BroughtAt ==
    ASSUME TypeInv, OwnInv, NEW u \in Streams, NEW m \in Names,
           getattr(u, m).way \in {"io", "auto"}
    PROVE  /\ own[u][m] = "none"
           /\ \E k : /\ FirstAt(world.class[u], m, k)
                     /\ getattr(u, m) = [way |-> class[Mro(world.class[u])[k]][m],
                                         by |-> Mro(world.class[u])[k]]
<1>1. own[u][m] = "none"
    <2>1. ASSUME own[u][m] # "none" PROVE FALSE
        <3>1. m \notin Sync /\ own[u][m] = AsyncIOBase[m]
            BY <2>1 DEF OwnInv, Kept
        <3>2. getattr(u, m).way = AsyncIOBase[m]
            BY <2>1, <3>1 DEF getattr
        <3> QED
            BY <3>1, <3>2, BaseIs, Kinds
    <2> QED
        BY <2>1
<1>2. CASE ~Found(world.class[u], m)
    <2>1. getattr(u, m).way = "none"
        BY <1>1, <1>2 DEF getattr
    <2> QED
        BY <2>1
<1>3. CASE Found(world.class[u], m)
    BY <1>1, <1>3, GetattrIs
<1> QED
    BY <1>1, <1>2, <1>3

LEMMA PutsKept ==
    ASSUME TypeInv, OwnInv, NEW s \in Streams, NEW n \in Names, NEW way, way # "none",
           Puts(s, n, way), Unbrought(s, n), NEW u \in Streams, NEW m \in Names
    PROVE  BroughtKept(u, m)
<1> SUFFICES ASSUME getattr(u, m).way \in {"io", "auto"}
             PROVE  \/ getattr(u, m)' = getattr(u, m)
                    \/ /\ getattr(u, m).by # getattr(u, m).by'
                       /\ getattr(u, m).by' # world.class[u]
    BY DEF BroughtKept
<1>1. PICK c \in DOMAIN world.mro : c = world.class[u]
    BY StreamClass
<1>2. own[u][m] = "none"
    BY BroughtAt
<1>3. PICK k : /\ FirstAt(c, m, k)
               /\ getattr(u, m) = [way |-> class[Mro(c)[k]][m], by |-> Mro(c)[k]]
    BY <1>1, BroughtAt
<1>4. PICK p \in DOMAIN world.mro : p = world.class[s]
    BY StreamClass
<1>5. world' = world /\ world \in Worlds
    BY DEF Puts, TypeInv
<1>6. /\ k \in DOMAIN Mro(c) /\ \A j \in DOMAIN Mro(c) : class[Mro(c)[j]][m] # "none" => k <= j
      /\ class[Mro(c)[k]][m] \in {"io", "auto"}
    BY <1>3 DEF FirstAt
<1>7. DOMAIN Mro(c) \subseteq Nat /\ \A j \in DOMAIN Mro(c) : Mro(c)[j] \in Classes(world)
    BY <1>5, WorldIs DEF Mro
<1>8. class[p][n] \notin {"io", "auto"}
    <2>1. 1 \in DOMAIN world.mro[p] /\ world.mro[p][1] = p
        BY <1>5, WorldIs
    <2> QED
        BY <1>4, <2>1 DEF Unbrought
<1>9. m = n => c # p
    BY <1>3, <1>4, <1>6 DEF Unbrought, Mro
<1>10. own'[u][m] = "none"
    <2>1. ~(u = s /\ m = n)
        BY <1>1, <1>4, <1>9
    <2>2. CASE own' = own
        BY <1>2, <2>2
    <2>3. CASE own' = [own EXCEPT ![s][n] = way]
        BY <1>2, <2>1, <2>3 DEF TypeInv
    <2> QED
        BY <2>2, <2>3 DEF Puts
<1>11. \A d \in Classes(world) :
           class'[d][m] = IF d = p /\ m = n /\ p \notin world.immutable THEN way ELSE class[d][m]
    <2>1. class \in [Classes(world) -> [Names -> Ways]]
        BY DEF TypeInv
    <2>2. CASE p \in world.immutable
        BY <1>4, <2>2 DEF Puts, AssignToClass
    <2>3. CASE p \notin world.immutable
        <3>1. class' = [class EXCEPT ![p][n] = way]
            BY <1>4, <2>3 DEF Puts, AssignToClass
        <3> QED
            BY <2>1, <2>3, <3>1 DEF Classes
    <2> QED
        BY <2>2, <2>3
<1>12. ASSUME NEW i \in DOMAIN Mro(c), class'[Mro(c)[i]][m] # "none",
              \A j \in DOMAIN Mro(c) : class'[Mro(c)[j]][m] # "none" => i <= j
       PROVE  getattr(u, m)' = [way |-> class'[Mro(c)[i]][m], by |-> Mro(c)[i]]
    <2>1. Found(c, m)' /\ First(c, m)' = i
        BY <1>5, <1>12, FirstAfter
    <2> QED
        BY <1>1, <1>5, <1>10, <2>1 DEF getattr, Mro
<1>13. CASE \A j \in DOMAIN Mro(c) : class'[Mro(c)[j]][m] # "none" => k <= j
    <2>1. class'[Mro(c)[k]][m] = class[Mro(c)[k]][m]
        BY <1>6, <1>7, <1>8, <1>11
    <2>2. getattr(u, m)' = [way |-> class[Mro(c)[k]][m], by |-> Mro(c)[k]]
        BY <1>6, <1>12, <1>13, <2>1
    <2> QED
        BY <1>3, <2>2
<1>14. CASE ~\A j \in DOMAIN Mro(c) : class'[Mro(c)[j]][m] # "none" => k <= j
    <2> DEFINE T == {j \in DOMAIN Mro(c) : class'[Mro(c)[j]][m] # "none"}
    <2>1. PICK j \in T : ~(k <= j)
        BY <1>14
    <2>2. PICK i \in T : \A x \in T : i <= x
        BY <1>7, <2>1, LeastOf
    <2>3. i \in DOMAIN Mro(c) /\ class'[Mro(c)[i]][m] # "none" /\ ~(k <= i)
        BY <1>6, <1>7, <2>1, <2>2
    <2>4. class[Mro(c)[i]][m] = "none"
        BY <1>6, <2>3
    <2>5. Mro(c)[i] = p /\ m = n
        BY <1>7, <1>11, <2>3, <2>4
    <2>6. \A x \in DOMAIN Mro(c) : class'[Mro(c)[x]][m] # "none" => i <= x
        BY <2>2
    <2>7. getattr(u, m)' = [way |-> class'[Mro(c)[i]][m], by |-> Mro(c)[i]]
        BY <1>12, <2>3, <2>6
    <2>8. getattr(u, m).by' = p
        BY <2>5, <2>7
    <2>9. getattr(u, m).by # p
        BY <1>3, <1>6, <1>8, <2>5
    <2> QED
        BY <1>1, <1>9, <2>5, <2>8, <2>9
<1> QED
    BY <1>13, <1>14

\* BroughtMethodsKept holds: no step of a patch, or of anything else, replaces a method that
\* a class brought, but for streams that inherit the patched class ahead of that class.
THEOREM BroughtStays == Spec => BroughtMethodsKept
<1>1. ASSUME Inv, Next, NEW u \in Streams, NEW m \in Names PROVE BroughtKept(u, m)
    <2>1. PICK t \in Threads : (\E g : Goes(t, thread[t], g)) \/ Assign(t) \/ AssignStub(t)
        BY <1>1, StepOf
    <2>2. TypeInv /\ ClassInv /\ OwnInv /\ Sound(thread[t])
        BY <1>1 DEF Inv, FrameInv
    <2>3. CASE \E g : Goes(t, thread[t], g)
        <3>1. UNCHANGED <<world, class, own>>
            BY <2>3 DEF Goes, Do
        <3>2. getattr(u, m)' = getattr(u, m)
            BY <3>1 DEF getattr, Found, First, Where
        <3> QED
            BY <3>2 DEF BroughtKept
    <2>4. CASE Assign(t)
        <3>1. PICK f \in PatchFrame : f = thread[t]
            BY <2>2, <2>4, AssignPuts
        <3>2. /\ f.at \in DOMAIN Methods /\ Unbrought(f.stream, Methods[f.at].name)
              /\ Puts(f.stream, Methods[f.at].name, Methods[f.at].way)
            BY <2>2, <2>4, <3>1, AssignPuts
        <3>3. f.stream \in Streams /\ Methods[f.at].name \in Names /\ Methods[f.at].way # "none"
            BY <3>2, MethodsAre, BaseIs, Kinds DEF PatchFrame
        <3> QED
            BY <2>2, <3>2, <3>3, PutsKept
    <2>5. CASE AssignStub(t)
        <3>1. PICK f \in PatchFrame : f = thread[t]
            BY <2>2, <2>5, AssignStubPuts
        <3>2. /\ f.at \in DOMAIN Stubs /\ Wanting(f.stream, Stubs[f.at])
              /\ Puts(f.stream, Stubs[f.at], "stub")
            BY <2>2, <2>5, <3>1, AssignStubPuts
        <3>3. f.stream \in Streams /\ Stubs[f.at] \in Names /\ Unbrought(f.stream, Stubs[f.at])
            BY <3>2, StubsAre DEF PatchFrame, Wanting
        <3> QED
            BY <2>2, <3>2, <3>3, PutsKept
    <2> QED
        BY <2>1, <2>3, <2>4, <2>5
<1>2. Inv /\ [Next]_vars =>
          [\A s \in Streams, n \in Names :
              getattr(s, n).way \in {"io", "auto"} =>
                  \/ getattr(s, n)' = getattr(s, n)
                  \/ getattr(s, n).by # getattr(s, n).by' /\ getattr(s, n).by' # world.class[s]]_vars
    BY <1>1 DEF BroughtKept
<1> QED
    BY <1>2, Invariance, PTL DEF Spec, BroughtMethodsKept

=============================================================================

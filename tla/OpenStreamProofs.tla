-------------------------- MODULE OpenStreamProofs ---------------------------
(***************************************************************************)
(* Theorems about opening files, for every set of machines and every mode: *)
(* what the options are, which machines get native streams, and what opens *)
(* do to the files.                                                        *)
(***************************************************************************)
EXTENDS OpenStream, FiniteSetTheorems, TLAPS

FilesType == [Names -> FileStates]

Secure == host.release =>
    ~Older(host.kernel, <<5, 10>>) /\ host.ops = {"read", "write"}

\* The latest open is the outcome of its arguments, on the files as they were before.
Explained ==
    \/ last = NoOpen
    \/ /\ engine # "unset"
       /\ last.kind \in Kinds /\ last.mode \in SUBSET Chars /\ last.unbuffered \in BOOLEAN
       /\ last.before \in FilesType
       /\ fs = last.result.fs
       /\ \/ /\ last.by = "open"
             /\ last.result = patched_open(last.before, last.kind, last.mode, last.unbuffered)
          \/ /\ last.by = "FileIO"
             /\ last.result = FileIO(last.before, last.kind, last.mode)
          \/ /\ last.by = "makefile" /\ last.kind = "str"
             /\ last.result = patched_socket_makefile(last.before, last.mode, last.unbuffered)

IInv ==
    /\ host \in Hosts
    /\ engine \in {"unset", "native", "fallback"}
    /\ fs \in FilesType
    /\ engine = "native" => Secure
    /\ Explained

----------------------------------------------------------------------------
(* The raw stream. *)

\* An open through either engine leaves well-formed files.
LEMMA RawFiles ==
    ASSUME NEW files \in FilesType, NEW kind \in Kinds, NEW m
    PROVE  /\ NativeFileIO(files, kind, m).fs \in FilesType
           /\ PythonOpen(files, kind, m).fs \in FilesType
<1> USE DEF FilesType, Names, FileStates, Kinds
<1>1. \A name \in Names, wipe \in BOOLEAN : \A mode, by, units :
          Opened(files, name, wipe, mode, by, units).fs \in FilesType
    BY DEF Opened, Stream
<1>2. Refused(files).fs \in FilesType
    BY DEF Refused
<1>3. NativeFileIO(files, kind, m).fs \in FilesType
    <2>1. Options(m).truncate \in BOOLEAN
        BY DEF Options, configure_open_options, parse
    <2>2. \A name \in Names :
              Opened(files, name, Options(m).truncate, parse(m), "native", "bytes").fs \in FilesType
        BY <1>1, <2>1
    <2> QED
        BY <1>2, <2>2 DEF NativeFileIO
<1>4. PythonOpen(files, kind, m).fs \in FilesType
    <2> DEFINE caps == [readable |-> {"r", "+"} \cap m # {},
                        writable |-> {"w", "a", "x", "+"} \cap m # {}]
    <2>1. \/ PythonOpen(files, kind, m) = Refused(files)
          \/ PythonOpen(files, kind, m) = Stream(files, caps, "fallback", Units(m))
          \/ PythonOpen(files, kind, m) = Opened(files, "f", "w" \in m, caps, "fallback", Units(m))
        BY Zenon DEF PythonOpen
    <2>2. Opened(files, "f", "w" \in m, caps, "fallback", Units(m)).fs \in FilesType
        <3>1. ("w" \in m) \in BOOLEAN /\ "f" \in Names
            BY DEF Names
        <3> HIDE DEF caps, FilesType, Names
        <3> QED
            BY <1>1, <3>1, Zenon
    <2>3. Stream(files, caps, "fallback", Units(m)).fs \in FilesType
        BY DEF Stream
    <2> HIDE DEF caps, FilesType
    <2> QED
        BY <1>2, <2>1, <2>2, <2>3
<1> QED
    BY <1>3, <1>4

\* Each engine's streams say whose they are.
LEMMA RawBy ==
    ASSUME NEW files, NEW kind, NEW m
    PROVE  /\ PythonOpen(files, kind, m).by # "native"
           /\ create_default_file_io(files, kind, m).by = "native" => engine = "native"
           /\ FileIO(files, kind, m).by = "native" => engine = "native"
<1>1. PythonOpen(files, kind, m).by # "native"
    BY DEF PythonOpen, Opened, Stream, Refused
<1> QED
    BY <1>1, Zenon DEF create_default_file_io, FileIO

Fields(raw) ==
    /\ raw = [ok |-> raw.ok, by |-> raw.by, readable |-> raw.readable,
              writable |-> raw.writable, units |-> raw.units, fs |-> raw.fs]
    /\ raw.ok \in BOOLEAN

LEMMA RawFields ==
    ASSUME NEW files, NEW kind, NEW m, NEW mode, NEW by, NEW units
    PROVE  /\ Fields(Stream(files, mode, by, units))
           /\ Fields(NativeFileIO(files, kind, m)) /\ Fields(PythonOpen(files, kind, m))
           /\ Fields(create_default_file_io(files, kind, m))
<1>1. \A f, name, wipe, c, b, u : /\ Fields(Stream(f, c, b, u)) /\ Fields(Refused(f))
                                 /\ Fields(Opened(f, name, wipe, c, b, u))
    BY DEF Fields, Opened, Stream, Refused
<1>2. Fields(NativeFileIO(files, kind, m))
    BY <1>1, Zenon DEF NativeFileIO
<1>3. Fields(PythonOpen(files, kind, m))
    BY <1>1, Zenon DEF PythonOpen
<1> QED
    BY <1>1, <1>2, <1>3, Zenon DEF create_default_file_io

\* The wrapper opens nothing: it accepts the raw stream or refuses it.
LEMMA WrapKeeps ==
    ASSUME NEW raw, Fields(raw), NEW w, NEW m
    PROVE  /\ Wrap(raw, w, m).fs = raw.fs /\ Wrap(raw, w, m).by = raw.by
           /\ [raw EXCEPT !.ok = FALSE].fs = raw.fs /\ [raw EXCEPT !.ok = FALSE].by = raw.by
           /\ [raw EXCEPT !.ok = FALSE].ok = FALSE
BY DEF Wrap, Fields

LEMMA OpenKeeps ==
    ASSUME NEW files, NEW kind, NEW m, NEW u
    PROVE  LET raw == create_default_file_io(files, kind, raw_mode(m))
           IN  /\ patched_open(files, kind, m, u).fs = raw.fs
               /\ patched_open(files, kind, m, u).by = raw.by
<1> DEFINE raw == create_default_file_io(files, kind, raw_mode(m))
<1>1. Fields(raw)
    BY RawFields
<1> HIDE DEF raw
<1>2. patched_open(files, kind, m, u) \in {raw, Wrap(raw, Wrapper(m), m), [raw EXCEPT !.ok = FALSE]}
    BY Zenon DEF patched_open, raw
<1>3. /\ \A w : Wrap(raw, w, m).fs = raw.fs /\ Wrap(raw, w, m).by = raw.by
      /\ [raw EXCEPT !.ok = FALSE].fs = raw.fs /\ [raw EXCEPT !.ok = FALSE].by = raw.by
    BY <1>1, WrapKeeps
<1>4. patched_open(files, kind, m, u).fs = raw.fs /\ patched_open(files, kind, m, u).by = raw.by
    BY <1>2, <1>3, Zenon
<1> QED
    BY <1>4 DEF raw

LEMMA MakefileKeeps ==
    ASSUME NEW files, NEW m, NEW u
    PROVE  /\ patched_socket_makefile(files, m, u).fs = files
           /\ patched_socket_makefile(files, m, u).by = "socket"
<1> DEFINE raw == AsyncSocketIO(files, m)
<1>1. Fields(raw) /\ raw.fs = files /\ raw.by = "socket"
    BY DEF AsyncSocketIO, Fields, Stream
<1> HIDE DEF raw
<1>2. patched_socket_makefile(files, m, u) \in
          {raw, Wrap(raw, "writer", m), Wrap(raw, "reader", m), [raw EXCEPT !.ok = FALSE]}
    BY Zenon DEF patched_socket_makefile, raw
<1>3. /\ \A w : Wrap(raw, w, m).fs = raw.fs /\ Wrap(raw, w, m).by = raw.by
      /\ [raw EXCEPT !.ok = FALSE].fs = raw.fs /\ [raw EXCEPT !.ok = FALSE].by = raw.by
    BY <1>1, WrapKeeps
<1> QED
    BY <1>1, <1>2, <1>3, Zenon

----------------------------------------------------------------------------
(* The invariant. *)

LEMMA InitInv == Init => IInv
BY DEF Init, IInv, FilesType, Explained

\* Where the extension selects itself, the kernel was found to be good enough.
LEMMA SelectedSecure ==
    ASSUME host \in Hosts, DefaultFileIO = "native"
    PROVE  Secure
<1>1. is_linux_uring_secure_and_supported(host)
    BY DEF DefaultFileIO, is_kernel_ring_supported
<1>2. host.ops \in SUBSET {"read", "write"}
    BY HostAssumption
<1>3. host.release => ~Older(host.kernel, <<5, 10>>)
    BY <1>1, Zenon DEF is_linux_uring_secure_and_supported
<1>4. {"read", "write"} \subseteq host.ops
    BY <1>1, Zenon DEF is_linux_uring_secure_and_supported
<1> QED
    BY <1>2, <1>3, <1>4 DEF Secure

LEMMA StepInv == IInv /\ [Next]_vars => IInv'
<1> SUFFICES ASSUME IInv, [Next]_vars PROVE IInv'
    OBVIOUS
<1>1. CASE UNCHANGED vars
    <2>1. \A f, k, c, v : /\ patched_open(f, k, c, v)' = patched_open(f, k, c, v)
                          /\ FileIO(f, k, c)' = FileIO(f, k, c)
        BY <1>1 DEF vars, patched_open, FileIO, create_default_file_io
    <2> QED
        BY <1>1, <2>1 DEF vars, IInv, Secure, Explained
<1>2. CASE Import
    <2>1. engine' \in {"native", "fallback"} /\ engine = "unset" /\ UNCHANGED <<host, fs, last>>
        BY <1>2 DEF Import, DefaultFileIO
    <2>2. last = NoOpen
        BY <2>1 DEF IInv, Explained
    <2>3. engine' = "native" => Secure
        BY <1>2, SelectedSecure DEF Import, IInv
    <2> QED
        BY <2>1, <2>2, <2>3 DEF IInv, Explained, Secure
<1>3. CASE Elsewhere
    BY <1>3 DEF Elsewhere, IInv, Explained, Secure, FilesType
<1>4. ASSUME NEW by, NEW kind \in Kinds, NEW m \in SUBSET Chars, NEW u \in BOOLEAN, NEW result,
             Opens(by, kind, m, u, result),
             result.fs \in FilesType,
             \/ by = "open" /\ result = patched_open(fs, kind, m, u)
             \/ by = "FileIO" /\ result = FileIO(fs, kind, m)
             \/ by = "makefile" /\ kind = "str" /\ result = patched_socket_makefile(fs, m, u)
      PROVE  IInv'
    <2>1. /\ last' = [by |-> by, kind |-> kind, mode |-> m, unbuffered |-> u, before |-> fs,
                      result |-> result]
          /\ fs' = result.fs /\ UNCHANGED <<host, engine>> /\ engine # "unset"
        BY <1>4 DEF Opens
    <2>2. \A f, k, c, v : /\ patched_open(f, k, c, v)' = patched_open(f, k, c, v)
                          /\ FileIO(f, k, c)' = FileIO(f, k, c)
        BY <2>1 DEF patched_open, FileIO, create_default_file_io
    <2> QED
        BY <1>4, <2>1, <2>2 DEF IInv, Secure, Explained
<1>5. ASSUME NEW kind \in Kinds, NEW m \in SUBSET Chars, NEW u \in BOOLEAN, Open(kind, m, u)
      PROVE  IInv'
    <2>1. create_default_file_io(fs, kind, raw_mode(m)).fs \in FilesType
        BY RawFiles, Zenon DEF create_default_file_io, IInv
    <2> QED
        BY <1>4, <1>5, <2>1, OpenKeeps DEF Open
<1>6. ASSUME NEW kind \in Kinds, NEW m \in SUBSET Chars, OpenRaw(kind, m)
      PROVE  IInv'
    <2>1. FileIO(fs, kind, m).fs \in FilesType
        BY RawFiles, Zenon DEF FileIO, IInv
    <2> QED
        BY <1>4, <1>6, <2>1 DEF OpenRaw
<1>7. ASSUME NEW m \in SUBSET Chars, NEW u \in BOOLEAN, Makefile(m, u)
      PROVE  IInv'
    BY <1>4, <1>7, MakefileKeeps DEF Makefile, IInv, Kinds
<1> QED
    BY <1>1, <1>2, <1>3, <1>5, <1>6, <1>7 DEF Next

\* The latest outcome is what one of the constructors made of the files before it, and
\* the engine is native only on a machine that the check at import accepts.
THEOREM Invariance == Spec => []IInv
BY InitInv, StepInv, PTL DEF Spec

----------------------------------------------------------------------------
(* Theorems. *)

\* Whatever characters a mode is made of, std's OpenOptions accepts what it becomes.
THEOREM ModesAlwaysValid == Spec => []AlwaysValid
<1>1. AlwaysValid
    BY DEF AlwaysValid, ValidOptions, Options, configure_open_options, parse
<1> QED
    BY <1>1, PTL

\* A native stream runs on a kernel that the check at import accepts, whatever machines
\* there are; only the selection at import makes streams native.
THEOREM OnlySecureNative == Spec => []NativeIsSecure
<1>1. IInv => NativeIsSecure
    <2> SUFFICES ASSUME IInv, last.result.by = "native", host.release
                 PROVE  ~Older(host.kernel, <<5, 10>>) /\ host.ops = {"read", "write"}
        BY DEF NativeIsSecure
    <2>1. last # NoOpen
        BY DEF NoOpen, Refused
    <2>2. engine = "native"
        BY <2>1, RawBy, OpenKeeps, MakefileKeeps DEF IInv, Explained
    <2> QED
        BY <2>2 DEF IInv, Secure
<1> QED
    BY <1>1, Invariance, PTL

\* Of all the ways to open a descriptor, only io.FileIO on a native engine touches a file,
\* and only the one that the number names.
THEOREM DescriptorsAreNotNames == Spec => []DescriptorsNameNoFile
<1>1. IInv => DescriptorsNameNoFile
    <2> SUFFICES ASSUME IInv, last.kind = "int"
                 PROVE  \/ fs = last.before
                        \/ /\ last.by = "FileIO" /\ engine = "native"
                           /\ fs = [last.before EXCEPT !["1"] = fs["1"]]
        BY DEF DescriptorsNameNoFile
    <2>1. last # NoOpen
        BY DEF NoOpen
    <2>2. fs = last.result.fs /\ last.before \in FilesType
        BY <2>1 DEF IInv, Explained
    <2>3. \A files, m : PythonOpen(files, "int", m).fs = files
        BY DEF PythonOpen, Stream, Refused
    <2>4. CASE last.by = "open"
        <3>1. create_default_file_io(last.before, "int", raw_mode(last.mode))
                  = PythonOpen(last.before, "int", raw_mode(last.mode))
            BY Zenon DEF create_default_file_io
        <3> QED
            BY <2>1, <2>2, <2>3, <2>4, <3>1, OpenKeeps DEF IInv, Explained
    <2>5. CASE last.by = "makefile"
        BY <2>1, <2>2, <2>5, MakefileKeeps DEF IInv, Explained
    <2>6. CASE last.by = "FileIO"
        <3>1. last.result = FileIO(last.before, "int", last.mode)
            BY <2>1, <2>6 DEF IInv, Explained
        <3>2. CASE engine # "native"
            BY <2>2, <2>3, <3>1, <3>2 DEF FileIO
        <3>3. CASE engine = "native"
            <4>1. NativeFileIO(last.before, "int", last.mode).fs \in
                      {last.before, [last.before EXCEPT !["1"] = "empty"]}
                BY DEF NativeFileIO, Opened, Stream, Refused
            <4>2. fs \in {last.before, [last.before EXCEPT !["1"] = "empty"]}
                BY <2>2, <3>1, <3>3, <4>1 DEF FileIO
            <4>3. CASE fs = [last.before EXCEPT !["1"] = "empty"]
                <5>1. fs["1"] = "empty"
                    BY <2>2, <4>3 DEF FilesType, Names
                <5> QED
                    BY <2>6, <3>3, <4>3, <5>1
            <4> QED
                BY <4>2, <4>3
        <3> QED
            BY <3>2, <3>3
    <2> QED
        BY <2>1, <2>4, <2>5, <2>6 DEF IInv, Explained
<1> QED
    BY <1>1, Invariance, PTL

----------------------------------------------------------------------------
(* Opens that raise. *)

LEMMA RawMode ==
    ASSUME NEW m \in SUBSET Chars
    PROVE  /\ raw_mode(m) \in SUBSET Chars /\ raw_mode(m) # {}
           /\ \A S : S \subseteq {"r", "w", "a", "x", "+"} => S \cap raw_mode(m) = S \cap m
BY DEF raw_mode, Chars

Reads(m)  == {"r", "+"} \cap m # {}
Writes(m) == {"w", "a", "+"} \cap m # {}

LEMMA ParsedMode ==
    ASSUME NEW m \in SUBSET Chars
    PROVE  /\ parse(raw_mode(m)).writable = Writes(m)
           /\ parse(raw_mode(m)).readable = (Reads(m) \/ {"w", "a"} \cap m = {})
BY RawMode DEF parse, Reads, Writes

\* What the raw stream of either engine can do, if it is opened.
LEMMA RawAbilities ==
    ASSUME NEW files, NEW kind, NEW m \in SUBSET Chars, "x" \notin m
    PROVE  /\ LET raw == NativeFileIO(files, kind, raw_mode(m))
              IN  raw.ok => /\ raw.writable = Writes(m)
                            /\ raw.readable = (Reads(m) \/ {"w", "a"} \cap m = {})
                            /\ raw.units = "bytes" /\ raw.by = "native"
           /\ LET raw == PythonOpen(files, kind, raw_mode(m))
              IN  raw.ok => /\ raw_mode(m) \in PythonModes
                            /\ raw.writable = Writes(m) /\ raw.readable = Reads(m)
                            /\ raw.units = Units(raw_mode(m)) /\ raw.by = "fallback"
<1> DEFINE n == raw_mode(m)
<1>1. parse(n).writable = Writes(m) /\ parse(n).readable = (Reads(m) \/ {"w", "a"} \cap m = {})
    BY ParsedMode
<1>2. Reads(n) = Reads(m) /\ ({"w", "a", "x", "+"} \cap n # {}) = Writes(m)
    BY RawMode DEF Reads, Writes
<1> HIDE DEF n
<1>3. ASSUME NativeFileIO(files, kind, n).ok
      PROVE  /\ NativeFileIO(files, kind, n).writable = parse(n).writable
             /\ NativeFileIO(files, kind, n).readable = parse(n).readable
             /\ NativeFileIO(files, kind, n).units = "bytes"
             /\ NativeFileIO(files, kind, n).by = "native"
    BY <1>3 DEF NativeFileIO, Opened, Stream, Refused
<1>4. ASSUME PythonOpen(files, kind, n).ok
      PROVE  /\ n \in PythonModes
             /\ PythonOpen(files, kind, n).writable = ({"w", "a", "x", "+"} \cap n # {})
             /\ PythonOpen(files, kind, n).readable = Reads(n)
             /\ PythonOpen(files, kind, n).units = Units(n)
             /\ PythonOpen(files, kind, n).by = "fallback"
    BY <1>4 DEF PythonOpen, Opened, Stream, Refused, Reads
<1>5. /\ NativeFileIO(files, kind, n).ok =>
             /\ NativeFileIO(files, kind, n).writable = Writes(m)
             /\ NativeFileIO(files, kind, n).readable = (Reads(m) \/ {"w", "a"} \cap m = {})
             /\ NativeFileIO(files, kind, n).units = "bytes"
             /\ NativeFileIO(files, kind, n).by = "native"
      /\ PythonOpen(files, kind, n).ok =>
             /\ n \in PythonModes
             /\ PythonOpen(files, kind, n).writable = Writes(m)
             /\ PythonOpen(files, kind, n).readable = Reads(m)
             /\ PythonOpen(files, kind, n).units = Units(n)
             /\ PythonOpen(files, kind, n).by = "fallback"
    BY <1>1, <1>2, <1>3, <1>4
<1> QED
    BY <1>5 DEF n

LEMMA OneOfFour ==
    ASSUME NEW m \in PythonModes
    PROVE  \E c \in {"r", "w", "a", "x"} : m \cap {"r", "w", "a", "x"} = {c}
<1> DEFINE S == m \cap {"r", "w", "a", "x"}
<1>1. IsFiniteSet({"r", "w", "a", "x"})
    <2>1. IsFiniteSet({"r"}) /\ IsFiniteSet({"w"}) /\ IsFiniteSet({"a"}) /\ IsFiniteSet({"x"})
        BY FS_Singleton
    <2>2. {"r", "w", "a", "x"} = ({"r"} \cup {"w"}) \cup ({"a"} \cup {"x"})
        OBVIOUS
    <2>3. IsFiniteSet({"r"} \cup {"w"}) /\ IsFiniteSet({"a"} \cup {"x"})
        BY <2>1, FS_Union
    <2>4. IsFiniteSet(({"r"} \cup {"w"}) \cup ({"a"} \cup {"x"}))
        BY <2>3, FS_Union
    <2> QED
        BY <2>2, <2>4
<1>2. IsFiniteSet(S)
    BY <1>1, FS_Subset
<1>3. Cardinality(S) = 1
    BY DEF PythonModes
<1>4. \E c : S = {c}
    BY <1>2, <1>3, FS_Singleton
<1> QED
    BY <1>4

LEMMA WrapTakes ==
    ASSUME NEW raw, Fields(raw), raw.ok, NEW w, NEW m,
           w \in {"reader", "random"} => raw.readable,
           w \in {"writer", "random"} => raw.writable
    PROVE  /\ Wrap(raw, w, m).ok
           /\ Wrap(raw, w, m).readable = (w \in {"reader", "random"})
           /\ Wrap(raw, w, m).writable = (w \in {"writer", "random"})
           /\ Wrap(raw, w, m).units = IF raw.units = "bytes" THEN Units(m) ELSE "none"
BY DEF Wrap, Fields

\* The wrapper that patched_open chooses never refuses the stream that it opened.
LEMMA WrapperFits ==
    ASSUME NEW files, NEW kind, NEW m \in SUBSET Chars, "x" \notin m,
           create_default_file_io(files, kind, raw_mode(m)).ok
    PROVE  LET raw == create_default_file_io(files, kind, raw_mode(m))
           IN  /\ Wrap(raw, Wrapper(m), m).ok
               /\ Wrap(raw, Wrapper(m), m).readable = (Reads(m) \/ {"w", "a"} \cap m = {})
               /\ Wrap(raw, Wrapper(m), m).writable = Writes(m)
               /\ Wrap(raw, Wrapper(m), m).units = IF raw.units = "bytes" THEN Units(m) ELSE "none"
<1> DEFINE raw == create_default_file_io(files, kind, raw_mode(m))
<1>1. raw.writable = Writes(m) /\ raw.readable = (Reads(m) \/ {"w", "a"} \cap m = {})
    <2>1. CASE raw = NativeFileIO(files, kind, raw_mode(m))
        BY <2>1, RawAbilities
    <2>2. CASE raw = PythonOpen(files, kind, raw_mode(m))
        <3>1. raw_mode(m) \in PythonModes /\ raw.writable = Writes(m) /\ raw.readable = Reads(m)
            BY <2>2, RawAbilities
        <3>2. \E c \in {"r", "w", "a", "x"} : {"r", "w", "a", "x"} \cap m = {c}
            BY <3>1, OneOfFour, RawMode
        <3>3. {"w", "a"} \cap m = {} => "r" \in m
            BY <3>2
        <3> QED
            BY <3>1, <3>3 DEF Reads
    <2> QED
        BY <2>1, <2>2, Zenon DEF create_default_file_io
<1>2. Fields(raw) /\ raw.ok
    BY RawFields
<1> HIDE DEF raw
<1>3. /\ (Wrapper(m) \in {"reader", "random"}) = (Reads(m) \/ {"w", "a"} \cap m = {})
      /\ (Wrapper(m) \in {"writer", "random"}) = Writes(m)
    BY DEF Wrapper, Writes, Reads
<1>4. /\ Wrapper(m) \in {"reader", "random"} => raw.readable
      /\ Wrapper(m) \in {"writer", "random"} => raw.writable
    BY <1>1, <1>3
<1>5. /\ Wrap(raw, Wrapper(m), m).ok
      /\ Wrap(raw, Wrapper(m), m).readable = (Wrapper(m) \in {"reader", "random"})
      /\ Wrap(raw, Wrapper(m), m).writable = (Wrapper(m) \in {"writer", "random"})
      /\ Wrap(raw, Wrapper(m), m).units = IF raw.units = "bytes" THEN Units(m) ELSE "none"
    BY <1>2, <1>4, WrapTakes
<1> QED
    BY <1>3, <1>5 DEF raw

\* An open that raises leaves the files as they were, in every mode but x: neither the
\* swallowed native attempt nor the wrapper may have changed them.
THEOREM RefusalsAreClean == Spec => []RefusalsLeaveNoTrace
<1>1. IInv => RefusalsLeaveNoTrace
    <2> SUFFICES ASSUME IInv, last.by = "open", ~last.result.ok, "x" \notin last.mode,
                        last.unbuffered => "b" \in last.mode
                 PROVE  fs = last.before
        BY DEF RefusalsLeaveNoTrace, Opening
    <2> DEFINE raw == create_default_file_io(last.before, last.kind, raw_mode(last.mode))
    <2>1. /\ last.mode \in SUBSET Chars /\ fs = last.result.fs
          /\ last.result = patched_open(last.before, last.kind, last.mode, last.unbuffered)
        BY DEF IInv, Explained, NoOpen
    <2>2. ~raw.ok
        <3>1. SUFFICES ASSUME raw.ok PROVE FALSE
            OBVIOUS
        <3>2. Wrap(raw, Wrapper(last.mode), last.mode).ok
            BY <2>1, <3>1, WrapperFits
        <3>3. last.result \in {raw, Wrap(raw, Wrapper(last.mode), last.mode)}
            BY <2>1, <3>1, Zenon DEF patched_open
        <3> QED
            BY <3>1, <3>2, <3>3
    <2>3. raw = PythonOpen(last.before, last.kind, raw_mode(last.mode))
        BY <2>2, Zenon DEF create_default_file_io
    <2>4. raw.fs = last.before
        BY <2>2, <2>3 DEF PythonOpen, Opened, Stream, Refused
    <2> QED
        BY <2>1, <2>4, OpenKeeps
<1> QED
    BY <1>1, Invariance, PTL

----------------------------------------------------------------------------
(* Opens as in CPython. *)

LEMMA OneOfThree ==
    ASSUME NEW m \in PythonModes, "x" \notin m
    PROVE  /\ \E c \in {"r", "w", "a"} : m \cap {"r", "w", "a"} = {c}
           /\ (Reads(m) \/ {"w", "a"} \cap m = {}) = Reads(m)
<1>1. \E c \in {"r", "w", "a"} : m \cap {"r", "w", "a"} = {c}
    BY OneOfFour
<1> QED
    BY <1>1 DEF Reads

\* CPython opens the same in the raw stream's mode, but for what the stream takes.
LEMMA PythonRaw ==
    ASSUME NEW files, NEW kind, NEW m \in PythonModes
    PROVE  LET raw == PythonOpen(files, kind, raw_mode(m))
               python == PythonOpen(files, kind, m)
           IN  /\ raw.ok = python.ok /\ raw.fs = python.fs
               /\ raw.readable = python.readable /\ raw.writable = python.writable
               /\ python.ok => python.units = Units(m)
<1> DEFINE n == raw_mode(m)
<1>1. m \in SUBSET Chars
    BY DEF PythonModes
<1>2. \A S : S \subseteq {"r", "w", "a", "x", "+"} => S \cap n = S \cap m
    BY <1>1, RawMode
<1>3. n \in PythonModes
    <2>1. n \cap {"r", "w", "a", "x"} = m \cap {"r", "w", "a", "x"}
        BY <1>2
    <2>2. n \in SUBSET Chars /\ ~ {"b", "t"} \subseteq n
        BY <1>1 DEF raw_mode, Chars, PythonModes
    <2> QED
        BY <2>1, <2>2 DEF PythonModes
<1>4. /\ {"r", "+"} \cap n = {"r", "+"} \cap m
      /\ {"w", "a", "x", "+"} \cap n = {"w", "a", "x", "+"} \cap m
    BY <1>2
<1>5. ("r" \in n) = ("r" \in m) /\ ("x" \in n) = ("x" \in m) /\ ("w" \in n) = ("w" \in m)
    BY DEF raw_mode
<1> HIDE DEF n
<1> DEFINE caps == [readable |-> {"r", "+"} \cap m # {},
                    writable |-> {"w", "a", "x", "+"} \cap m # {}]
           As(k) == IF k = "refused" THEN Refused(files)
                    ELSE IF k = "stream" THEN Stream(files, caps, "fallback", Units(m))
                    ELSE Opened(files, "f", "w" \in m, caps, "fallback", Units(m))
           AsRaw(k) == IF k = "refused" THEN Refused(files)
                       ELSE IF k = "stream" THEN Stream(files, caps, "fallback", Units(n))
                       ELSE Opened(files, "f", "w" \in m, caps, "fallback", Units(n))
           fits == IF files["f"] = "absent" THEN "r" \notin m ELSE "x" \notin m
           k == IF kind = "int" THEN "stream" ELSE IF fits THEN "opened" ELSE "refused"
<1>6. PythonOpen(files, kind, n) = AsRaw(k)
    BY <1>3, <1>4, <1>5 DEF PythonOpen
<1>7. PythonOpen(files, kind, m) = As(k)
    BY DEF PythonOpen
<1> HIDE DEF k
<1>8. /\ AsRaw(k).ok = As(k).ok /\ AsRaw(k).fs = As(k).fs
      /\ AsRaw(k).readable = As(k).readable /\ AsRaw(k).writable = As(k).writable
      /\ As(k).ok => As(k).units = Units(m)
    BY DEF Refused, Opened, Stream
<1> QED
    BY <1>6, <1>7, <1>8 DEF n

\* Where the native engine opens a legal mode, CPython opens as well, the same way.
LEMMA NativeAsPython ==
    ASSUME NEW files, NEW m \in PythonModes, "x" \notin m,
           {"r", "+"} \subseteq m => files["f"] # "absent",
           NativeFileIO(files, "str", raw_mode(m)).ok
    PROVE  /\ PythonOpen(files, "str", m).ok
           /\ NativeFileIO(files, "str", raw_mode(m)).fs = PythonOpen(files, "str", m).fs
<1> DEFINE n == raw_mode(m)
           o == Options(n)
<1>1. m \in SUBSET Chars
    BY DEF PythonModes
<1>2. o.create = Writes(m) /\ o.truncate = ("w" \in m)
    <2>1. parse(n).writable = Writes(m)
        BY <1>1, ParsedMode
    <2>2. parse(n).truncate = ("w" \in m)
        BY DEF parse, raw_mode
    <2>3. /\ o.create = parse(n).writable
          /\ o.truncate = (parse(n).writable /\ parse(n).truncate)
        BY DEF Options, configure_open_options
    <2>4. (Writes(m) /\ "w" \in m) = ("w" \in m)
        BY DEF Writes
    <2> HIDE DEF n, o
    <2> QED
        BY <2>1, <2>2, <2>3, <2>4, Zenon
<1>3. \E c \in {"r", "w", "a"} : m \cap {"r", "w", "a"} = {c}
    BY OneOfThree
<1>4. o.create \/ files["f"] # "absent"
    BY DEF NativeFileIO, Refused
<1>5. IF files["f"] = "absent" THEN "r" \notin m ELSE "x" \notin m
    <2>1. o.create => Writes(m)
        BY <1>2, Zenon
    <2> HIDE DEF o
    <2> QED
        BY <1>3, <1>4, <2>1 DEF Writes
<1>6. NativeFileIO(files, "str", n) = Opened(files, "f", o.truncate, parse(n), "native", "bytes")
    BY DEF NativeFileIO, Refused
<1>7. NativeFileIO(files, "str", n).fs =
          IF files["f"] = "absent" \/ "w" \in m THEN [files EXCEPT !["f"] = "empty"] ELSE files
    <2>1. Opened(files, "f", o.truncate, parse(n), "native", "bytes").fs =
              IF files["f"] = "absent" \/ o.truncate THEN [files EXCEPT !["f"] = "empty"] ELSE files
        BY DEF Opened, Stream
    <2>2. o.truncate <=> "w" \in m
        BY <1>2, Zenon
    <2> HIDE DEF n, o
    <2>3. CASE files["f"] = "absent" \/ "w" \in m
        BY <1>6, <2>1, <2>2, <2>3, Zenon
    <2>4. CASE ~(files["f"] = "absent" \/ "w" \in m)
        BY <1>6, <2>1, <2>2, <2>4, Zenon
    <2> QED
        BY <2>3, <2>4
<1>8. /\ PythonOpen(files, "str", m).ok
      /\ PythonOpen(files, "str", m).fs =
             IF files["f"] = "absent" \/ "w" \in m THEN [files EXCEPT !["f"] = "empty"] ELSE files
    BY <1>5 DEF PythonOpen, Opened, Stream
<1> QED
    BY <1>7, <1>8

\* A legal open does what CPython's does, whichever engine serves it and whatever is wrapped
\* around the stream: the same files after it, the same outcome, the same abilities, and
\* bytes or text as there; and exactly a mode with a t that CPython's open serves does not.
THEOREM OpensAsPython == Spec => []AsPythonElsewhere
<1>1. IInv => AsPythonElsewhere
    <2> DEFINE m == last.mode
               raw == create_default_file_io(last.before, last.kind, raw_mode(m))
               python == PythonOpen(last.before, last.kind, m)
               useless == "t" \in m /\ last.result.ok /\ last.result.by # "native"
    <2> SUFFICES ASSUME IInv, last.by = "open", m \in PythonModes, "x" \notin m,
                        {"r", "+"} \subseteq m => last.before["f"] # "absent",
                        last.kind # "bytes"
                 PROVE  SameAs(InPython) <=> ~useless
        BY DEF AsPythonElsewhere, Opening
    <2>1. /\ m \in SUBSET Chars /\ fs = last.result.fs
          /\ last.kind \in {"str", "int"} /\ last.unbuffered \in BOOLEAN
          /\ last.result = patched_open(last.before, last.kind, m, last.unbuffered)
        BY DEF IInv, Explained, NoOpen, Kinds
    <2>2. LET served == PythonOpen(last.before, last.kind, raw_mode(m))
          IN  /\ served.ok = python.ok /\ served.fs = python.fs
              /\ served.readable = python.readable /\ served.writable = python.writable
              /\ python.ok => python.units = Units(m)
        BY PythonRaw
    <2>3. (raw.ok <=> python.ok) /\ raw.fs = python.fs
        <3>1. CASE raw = PythonOpen(last.before, last.kind, raw_mode(m))
            BY <2>2, <3>1
        <3>2. CASE /\ raw = NativeFileIO(last.before, last.kind, raw_mode(m))
                   /\ raw.ok /\ last.kind # "int"
            <4>1. last.kind = "str"
                BY <2>1, <3>2
            <4> QED
                BY <3>2, <4>1, NativeAsPython
        <3> QED
            BY <3>1, <3>2, Zenon DEF create_default_file_io
    <2>4. python.ok => /\ python.readable = Reads(m) /\ python.writable = Writes(m)
                       /\ python.units = Units(m)
        <3> DEFINE served == PythonOpen(last.before, last.kind, raw_mode(m))
        <3>1. served.ok => served.readable = Reads(m) /\ served.writable = Writes(m)
            BY <2>1, RawAbilities
        <3>2. /\ served.ok = python.ok /\ served.readable = python.readable
              /\ served.writable = python.writable /\ (python.ok => python.units = Units(m))
            BY <2>2
        <3> HIDE DEF served, python, m
        <3> QED
            BY <3>1, <3>2
    <2>5. raw.ok => /\ raw.readable = Reads(m) /\ raw.writable = Writes(m)
                    /\ \/ raw.by = "native" /\ raw.units = "bytes"
                       \/ raw.by = "fallback" /\ raw.units = Units(raw_mode(m))
        <3>1. (Reads(m) \/ {"w", "a"} \cap m = {}) = Reads(m)
            BY OneOfThree
        <3>2. CASE raw = NativeFileIO(last.before, last.kind, raw_mode(m))
            BY <2>1, <3>1, <3>2, RawAbilities
        <3>3. CASE raw = PythonOpen(last.before, last.kind, raw_mode(m))
            BY <2>1, <3>3, RawAbilities
        <3> QED
            BY <3>2, <3>3, Zenon DEF create_default_file_io
    <2>6. Fields(raw) /\ Fields(python)
        BY RawFields
    <2>7. /\ Units(raw_mode(m)) = IF "t" \in m THEN "str" ELSE "bytes"
          /\ "b" \in m => Units(m) = "bytes" /\ "t" \notin m
          /\ Units(m) # "none"
        BY DEF Units, raw_mode, PythonModes
    <2>8. last.result.by = raw.by
        BY <2>1, OpenKeeps
    <2>9. CASE ~raw.ok
        <3>1. last.result = raw
            BY <2>1, <2>9, Zenon DEF patched_open
        <3>2. InPython \in {python, [python EXCEPT !.ok = FALSE]}
            BY <2>1, Zenon DEF InPython
        <3> HIDE DEF raw, python
        <3>3. InPython.fs = python.fs /\ (InPython.ok => python.ok)
            BY <2>6, <3>2, WrapKeeps
        <3>4. InPython.ok = last.result.ok
            <4>1. raw.ok = FALSE /\ python.ok = FALSE
                BY <2>3, <2>6, <2>9 DEF Fields
            <4>2. InPython.ok = FALSE
                BY <3>2, <4>1, <2>6, WrapKeeps
            <4> QED
                BY <3>1, <4>1, <4>2
        <3> QED
            BY <2>3, <2>9, <3>1, <3>3, <3>4 DEF SameAs
    <2>10. CASE raw.ok /\ ~last.unbuffered
        <3>1. last.result = Wrap(raw, Wrapper(m), m) /\ InPython = python
            BY <2>1, <2>10, Zenon DEF patched_open, InPython
        <3>2. /\ Wrap(raw, Wrapper(m), m).ok
              /\ Wrap(raw, Wrapper(m), m).readable = Reads(m)
              /\ Wrap(raw, Wrapper(m), m).writable = Writes(m)
              /\ Wrap(raw, Wrapper(m), m).units = IF raw.units = "bytes" THEN Units(m) ELSE "none"
            BY <2>1, <2>10, WrapperFits, OneOfThree
        <3>3. Wrap(raw, Wrapper(m), m).fs = raw.fs
            BY <2>6, WrapKeeps
        <3> HIDE DEF raw, python, m
        <3>4. raw.units = "bytes" <=> ~useless
            BY <2>5, <2>7, <2>8, <2>10, <3>1, <3>2
        <3>5. last.result.ok = python.ok
            <4>1. Fields(Wrap(raw, Wrapper(m), m))
                BY <2>6 DEF Wrap, Fields
            <4> QED
                BY <2>3, <2>6, <2>10, <3>1, <3>2, <4>1 DEF Fields
        <3>6. SameAs(python) <=> last.result.units = python.units
            BY <2>3, <2>4, <2>10, <3>1, <3>2, <3>3, <3>5 DEF SameAs
        <3> QED
            BY <2>3, <2>4, <2>7, <2>10, <3>1, <3>2, <3>4, <3>6
    <2>11. CASE raw.ok /\ last.unbuffered /\ "b" \in m
        <3>1. last.result = raw /\ InPython = python
            BY <2>1, <2>11, Zenon DEF patched_open, InPython
        <3>2. "t" \notin m /\ raw.units = Units(m)
            BY <2>5, <2>7, <2>11
        <3> HIDE DEF raw, python, m
        <3>3. raw.ok = python.ok
            BY <2>3, <2>6 DEF Fields
        <3> QED
            BY <2>3, <2>4, <2>5, <2>11, <3>1, <3>2, <3>3 DEF SameAs
    <2>12. CASE raw.ok /\ last.unbuffered /\ "b" \notin m
        <3>1. /\ last.result = [raw EXCEPT !.ok = FALSE]
              /\ InPython = [python EXCEPT !.ok = FALSE]
            BY <2>1, <2>12, Zenon DEF patched_open, InPython
        <3> HIDE DEF raw, python
        <3> QED
            BY <2>3, <2>6, <3>1, WrapKeeps DEF SameAs
    <2> QED
        BY <2>1, <2>9, <2>10, <2>11, <2>12
<1> QED
    BY <1>1, Invariance, PTL

----------------------------------------------------------------------------
(* makefile. *)

\* A makefile stream behaves as CPython's exactly in the modes that the property names.
THEOREM MakefilesCompared == Spec => []MakefilesAsPython
<1>1. IInv => MakefilesAsPython
    <2> DEFINE m == last.mode
               u == last.unbuffered
               raw == AsyncSocketIO(last.before, m)
               r == "r" \in m
               w == "w" \in m
    <2> SUFFICES ASSUME IInv, last.by = "makefile", m \subseteq {"r", "w", "b"}
                 PROVE  SameAs(MakefileInPython) <=>
                            \/ r /\ w /\ u
                            \/ ~(r /\ w) /\ (r \/ w \/ ("b" \notin m /\ u))
        BY DEF MakefilesAsPython
    <2>1. last.result = patched_socket_makefile(last.before, m, u) /\ u \in BOOLEAN
        BY DEF IInv, Explained, NoOpen
    <2>2. /\ Fields(raw) /\ raw.ok = TRUE /\ raw.fs = last.before
          /\ raw.readable = r /\ raw.writable = w /\ raw.units = "bytes"
        BY DEF AsyncSocketIO, Stream, Fields
    <2> DEFINE python == MakefileInPython
    <2>3. /\ python.readable = (r \/ ~w) /\ python.writable = w
          /\ python.ok = (u => "b" \in m) /\ python.fs = last.before
          /\ python.units = Units(m) /\ ("b" \in m => Units(m) = "bytes")
        BY DEF MakefileInPython, Units
    <2>4. "a" \notin m /\ "+" \notin m
        OBVIOUS
    <2> HIDE DEF raw, python
    <2>5. CASE u /\ "b" \in m
        <3>1. last.result = raw
            BY <2>1, <2>5, Zenon DEF patched_socket_makefile, raw
        <3>2. SameAs(python) <=> r = (r \/ ~w)
            <4>1. python.ok = TRUE
                BY <2>3, <2>5
            <4>2. raw.units = python.units
                BY <2>2, <2>3, <2>5
            <4>3. last.result.ok = python.ok /\ last.result.fs = python.fs
                BY <2>2, <2>3, <3>1, <4>1
            <4>4. SameAs(python) <=>
                      raw.readable = python.readable /\ raw.writable = python.writable
                BY <3>1, <4>1, <4>2, <4>3 DEF SameAs
            <4> HIDE DEF r, w, m, u
            <4> QED
                BY <2>2, <2>3, <4>4, Zenon
        <3> QED
            BY <2>5, <3>2 DEF python
    <2>6. CASE u /\ "b" \notin m
        <3>1. last.result = [raw EXCEPT !.ok = FALSE]
            BY <2>1, <2>4, <2>6, Zenon DEF patched_socket_makefile, raw
        <3>2. last.result.ok = FALSE /\ last.result.fs = last.before
            BY <2>2, <3>1, WrapKeeps
        <3>3. python.ok = FALSE /\ python.fs = last.before
            BY <2>3, <2>6
        <3> QED
            BY <2>6, <3>2, <3>3 DEF SameAs, python
    <2>7. CASE ~u /\ w
        <3>1. last.result = Wrap(raw, "writer", m)
            <4>1. {"w", "a"} \cap m # {}
                BY <2>7
            <4> QED
                BY <2>1, <2>4, <2>7, <4>1, Zenon DEF patched_socket_makefile, raw
        <3>2. /\ last.result.ok /\ last.result.readable = FALSE /\ last.result.writable = TRUE
              /\ last.result.units = Units(m)
            <4>1. raw.ok /\ raw.writable
                BY <2>2, <2>7
            <4>2. /\ Wrap(raw, "writer", m).ok
                  /\ Wrap(raw, "writer", m).readable = ("writer" \in {"reader", "random"})
                  /\ Wrap(raw, "writer", m).writable = ("writer" \in {"writer", "random"})
                  /\ Wrap(raw, "writer", m).units = Units(m)
                BY <2>2, <4>1, WrapTakes
            <4>3. ("writer" \in {"reader", "random"}) = FALSE
                  /\ ("writer" \in {"writer", "random"}) = TRUE
                OBVIOUS
            <4> QED
                BY <3>1, <4>2, <4>3
        <3>3. last.result.fs = last.before
            BY <2>2, <3>1, WrapKeeps
        <3> QED
            BY <2>3, <2>7, <3>2, <3>3 DEF SameAs, python
    <2>8. CASE ~u /\ ~w
        <3>1. last.result = Wrap(raw, "reader", m)
            <4>1. {"w", "a"} \cap m = {}
                BY <2>8
            <4> QED
                BY <2>1, <2>4, <2>8, <4>1, Zenon DEF patched_socket_makefile, raw
        <3>2. CASE r
            <4>1. /\ last.result.ok /\ last.result.readable = TRUE /\ last.result.writable = FALSE
                  /\ last.result.units = Units(m)
                <5>1. raw.ok /\ raw.readable
                    BY <2>2, <3>2
                <5>2. /\ Wrap(raw, "reader", m).ok
                      /\ Wrap(raw, "reader", m).readable = ("reader" \in {"reader", "random"})
                      /\ Wrap(raw, "reader", m).writable = ("reader" \in {"writer", "random"})
                      /\ Wrap(raw, "reader", m).units = Units(m)
                    BY <2>2, <5>1, WrapTakes
                <5>3. ("reader" \in {"reader", "random"}) = TRUE
                      /\ ("reader" \in {"writer", "random"}) = FALSE
                    OBVIOUS
                <5> QED
                    BY <3>1, <5>2, <5>3
            <4>2. last.result.fs = last.before
                BY <2>2, <3>1, WrapKeeps
            <4>3. python.ok = TRUE /\ python.readable = TRUE /\ python.writable = FALSE
                <5>1. (r \/ ~w) = TRUE /\ w = FALSE /\ (u => "b" \in m) = TRUE
                    BY <2>8, <3>2
                <5> HIDE DEF r, w, u, m
                <5> QED
                    BY <2>3, <5>1, Zenon
            <4>4. SameAs(python)
                BY <2>3, <4>1, <4>2, <4>3 DEF SameAs
            <4> QED
                BY <2>8, <3>2, <4>4 DEF python
        <3>3. CASE ~r
            <4>1. Wrap(raw, "reader", m) = [raw EXCEPT !.ok = FALSE]
                BY <2>2, <3>3 DEF Wrap
            <4>2. last.result.ok = FALSE
                <5>1. [raw EXCEPT !.ok = FALSE].ok = FALSE
                    BY <2>2, WrapKeeps
                <5> QED
                    BY <3>1, <4>1, <5>1, Zenon
            <4>3. python.ok = TRUE
                BY <2>3, <2>8
            <4> QED
                BY <2>8, <3>3, <4>2, <4>3 DEF SameAs, python
        <3> QED
            BY <3>2, <3>3
    <2> QED
        BY <2>1, <2>5, <2>6, <2>7, <2>8
<1> QED
    BY <1>1, Invariance, PTL

=============================================================================

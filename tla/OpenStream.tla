----------------------------- MODULE OpenStream ------------------------------
(***************************************************************************)
(* Opening a file: engine selection at import (engines/mod.rs, linux.rs,   *)
(* py_native_io/file.py), and patched_open of py_native_io/patch.py with   *)
(* the factory under it.  A native stream is tried first, any exception of *)
(* it is swallowed, and CPython's own open is the fallback; the raw stream *)
(* is then wrapped in a buffered or text stream.  io.FileIO, which the     *)
(* standard streams of print.py use, and socket.makefile are patched too.  *)
(*                                                                         *)
(* The caller names one file, or a descriptor.  NativeFileIO takes str()   *)
(* of either, which may be another name: b"f" becomes the path b'f'.       *)
(***************************************************************************)
EXTENDS FileMode

CONSTANTS
    Hosts      \* the machines: what selection can find out about each

Names == {"f", "b'f'", "1"}
Kinds == {"str", "bytes", "int"}     \* of the path; "str" is also any PathLike

ASSUME HostAssumption == Hosts \subseteq
    [kernel : Nat \X Nat,            \* the kernel's version
     release : BOOLEAN,              \* whether osrelease can be read and parsed
     forced : BOOLEAN,               \* PY_NATIVE_IO_FORCE_LEGACY is set, to anything
     ext : BOOLEAN,                  \* the extension module is there
     ring : BOOLEAN, probe : BOOLEAN,
     ops : SUBSET {"read", "write"}] \* what the probe reports as supported

VARIABLES
    host,
    engine,    \* DefaultFileIO: "unset" before import, then "native" or "fallback"
    fs,        \* the state of each name: "absent", "empty" or "full"
    last       \* the latest open: its arguments, the files before it, its outcome

vars == <<host, engine, fs, last>>

Older(v, w) == v[1] < w[1] \/ (v[1] = w[1] /\ v[2] < w[2])

\* Mutant: both parts of the version must be too small.
SecureByParts(h) ==
    /\ ~ (h.release /\ h.kernel[1] < 5 /\ h.kernel[2] < 10)
    /\ h.ring /\ h.probe /\ {"read", "write"} \subseteq h.ops

\* A release that cannot be read or parsed skips the version check.
is_linux_uring_secure_and_supported(h) ==
    /\ ~ (h.release /\ Older(h.kernel, <<5, 10>>))
    /\ h.ring /\ h.probe /\ {"read", "write"} \subseteq h.ops

is_kernel_ring_supported(h) == ~h.forced /\ is_linux_uring_secure_and_supported(h)

----------------------------------------------------------------------------
(* Opening the raw stream. *)

\* units: what reads give and writes take, "bytes" or "str", or "none" if they all raise.
Stream(files, mode, by, units) ==
    [ok |-> TRUE, by |-> by, readable |-> mode.readable, writable |-> mode.writable,
     units |-> units, fs |-> files]

Opened(files, name, wipe, mode, by, units) ==
    Stream(IF files[name] = "absent" \/ wipe THEN [files EXCEPT ![name] = "empty"] ELSE files,
           mode, by, units)

Refused(files) == [ok |-> FALSE, by |-> "none", readable |-> FALSE, writable |-> FALSE,
                   units |-> "none", fs |-> files]

\* What std's OpenOptions::open rejects with EINVAL before it opens anything.
ValidOptions(o) ==
    /\ o.read \/ o.write \/ o.append
    /\ (o.create \/ o.truncate) => o.write \/ o.append
    /\ ~ (o.append /\ o.truncate)

NativeFileIO(files, kind, m) ==
    LET name == IF kind = "str" THEN "f" ELSE IF kind = "bytes" THEN "b'f'" ELSE "1"
        o    == Options(m)
    IN  IF ValidOptions(o) /\ (o.create \/ files[name] # "absent")
        THEN Opened(files, name, o.truncate, parse(m), "native", "bytes")
        ELSE Refused(files)

\* CPython: one of r, w, a, x, at most one of b and t, perhaps a +.
PythonModes == {m \in SUBSET Chars : Cardinality(m \cap {"r", "w", "a", "x"}) = 1
                                     /\ ~ {"b", "t"} \subseteq m}

\* A mode without b, with or without a t, is one of text.
Units(m) == IF "b" \in m THEN "bytes" ELSE "str"

PythonOpen(files, kind, m) ==
    LET caps == [readable |-> {"r", "+"} \cap m # {}, writable |-> {"w", "a", "x", "+"} \cap m # {}]
        fits == IF files["f"] = "absent" THEN "r" \notin m ELSE "x" \notin m
    IN  IF m \notin PythonModes THEN Refused(files)
        ELSE IF kind = "int" THEN Stream(files, caps, "fallback", Units(m))
        ELSE IF fits THEN Opened(files, "f", "w" \in m, caps, "fallback", Units(m))
        ELSE Refused(files)

\* Mutant: the native engine is given descriptors as well.
create_any_file_io(files, kind, m) ==
    LET native == NativeFileIO(files, kind, m)
    IN  IF engine = "native" /\ native.ok THEN native ELSE PythonOpen(files, kind, m)

\* `except Exception: pass`, then FallbackFileIO.
create_default_file_io(files, kind, m) ==
    LET native == NativeFileIO(files, kind, m)
    IN  IF engine = "native" /\ kind # "int" /\ native.ok
        THEN native ELSE PythonOpen(files, kind, m)

----------------------------------------------------------------------------
(* Wrapping it. *)

\* Mutant: the raw stream is opened in the caller's mode.
SameMode(m) == m

\* A t stays in the mode.
raw_mode(m) == IF {"b", "t"} \cap m = {} THEN m \cup {"b"} ELSE m

\* Mutant: a mode with an a is not seen to write.
WrapperWithoutA(m) ==
    IF {"w", "+"} \cap m = {} THEN "reader"
    ELSE IF {"r", "+"} \cap m = {} THEN "writer" ELSE "random"

Wrapper(m) ==
    IF {"w", "a", "+"} \cap m = {} THEN "reader"
    ELSE IF {"r", "+"} \cap m = {} THEN "writer" ELSE "random"

\* The constructors of CPython's buffered classes ask the raw stream what it can do, but
\* not whether it takes bytes: around a text stream, whose readinto is missing and whose
\* write refuses bytes, they give a stream whose every read and flush raises.
Wrap(raw, wrapper, m) ==
    LET reads  == wrapper \in {"reader", "random"}
        writes == wrapper \in {"writer", "random"}
    IN  IF (reads => raw.readable) /\ (writes => raw.writable)
        THEN [raw EXCEPT !.readable = reads, !.writable = writes,
                         !.units = IF raw.units = "bytes" THEN Units(m) ELSE "none"]
        ELSE [raw EXCEPT !.ok = FALSE]

\* "can't have unbuffered text I/O" is raised when the raw stream is open already.
patched_open(files, kind, m, unbuffered) ==
    LET raw == create_default_file_io(files, kind, raw_mode(m))
    IN  IF ~raw.ok THEN raw
        ELSE IF ~unbuffered THEN Wrap(raw, Wrapper(m), m)
        ELSE IF "b" \in m THEN raw ELSE [raw EXCEPT !.ok = FALSE]

----------------------------------------------------------------------------
(* The other constructors that are patched. *)

\* io.FileIO is DefaultFileIO: there is no fallback.
FileIO(files, kind, m) ==
    IF engine = "native" THEN NativeFileIO(files, kind, m) ELSE PythonOpen(files, kind, m)

AsyncSocketIO(files, m) ==
    Stream(files, [readable |-> {"r", "+"} \cap m # {},
                   writable |-> {"w", "a", "+"} \cap m # {}], "socket", "bytes")

\* Mutant: the wrapper is chosen as patched_open does.
makefile_as_open(files, m, unbuffered) ==
    LET raw == AsyncSocketIO(files, m)
    IN  IF ~unbuffered THEN Wrap(raw, Wrapper(m), m)
        ELSE IF "b" \in m THEN raw ELSE [raw EXCEPT !.ok = FALSE]

patched_socket_makefile(files, m, unbuffered) ==
    LET raw == AsyncSocketIO(files, m)
    IN  IF "b" \in m /\ (unbuffered \/ "+" \in m) THEN raw
        ELSE IF unbuffered THEN [raw EXCEPT !.ok = FALSE]
        ELSE Wrap(raw, IF {"w", "a"} \cap m # {} THEN "writer" ELSE "reader", m)

----------------------------------------------------------------------------
FileStates == {"absent", "empty", "full"}

NoOpen == [by |-> "none", kind |-> "str", mode |-> {}, unbuffered |-> FALSE, before |-> <<>>,
           result |-> Refused(<<>>)]

Init ==
    /\ host \in Hosts
    /\ engine = "unset"
    /\ fs \in [Names -> FileStates]
    /\ last = NoOpen

DefaultFileIO == IF host.ext /\ is_kernel_ring_supported(host) THEN "native" ELSE "fallback"

\* import py_native_io selects the engine and runs patch_python_io, which returns at once
\* when it is called again.
Import ==
    /\ engine = "unset"
    /\ engine' = DefaultFileIO
    /\ UNCHANGED <<host, fs, last>>

\* The outcome stays until Elsewhere clears it; a step of Elsewhere may change nothing else.
Opens(by, kind, m, unbuffered, result) ==
    /\ engine # "unset" /\ last = NoOpen
    /\ last' = [by |-> by, kind |-> kind, mode |-> m, unbuffered |-> unbuffered, before |-> fs,
                result |-> result]
    /\ fs' = result.fs
    /\ UNCHANGED <<host, engine>>

Open(kind, m, unbuffered) ==
    Opens("open", kind, m, unbuffered, patched_open(fs, kind, m, unbuffered))

\* io.FileIO(file, mode); get_async_stdout and get_async_stderr are FileIO(1, "w"), (2, "w").
OpenRaw(kind, m) == Opens("FileIO", kind, m, TRUE, FileIO(fs, kind, m))

Makefile(m, unbuffered) ==
    Opens("makefile", "str", m, unbuffered, patched_socket_makefile(fs, m, unbuffered))

\* Files come, fill and go for other reasons.
Elsewhere ==
    /\ \E n \in Names, s \in FileStates : fs' = [fs EXCEPT ![n] = s]
    /\ last' = NoOpen
    /\ UNCHANGED <<host, engine>>

Next ==
    \/ Import \/ Elsewhere
    \/ \E kind \in Kinds, m \in SUBSET Chars, unbuffered \in BOOLEAN : Open(kind, m, unbuffered)
    \/ \E kind \in Kinds, m \in SUBSET Chars : OpenRaw(kind, m)
    \/ \E m \in SUBSET Chars, unbuffered \in BOOLEAN : Makefile(m, unbuffered)

Spec == Init /\ [][Next]_vars

----------------------------------------------------------------------------
(* Properties. *)

\* Whatever mode string the caller passes, legal or not, the options handed to the
\* system are ones it accepts: a file is refused for its own sake, never for its mode.
AlwaysValid == ValidOptions(Options(raw_mode(last.mode)))

\* A native stream runs on a kernel of 5.10 or later, with both opcodes probed, on every
\* machine whose release the check can read.
NativeIsSecure == last.result.by = "native" /\ host.release =>
    ~Older(host.kernel, <<5, 10>>) /\ host.ops = {"read", "write"}

\* What CPython's open does with the same arguments and the same files.
InPython ==
    LET raw == PythonOpen(last.before, last.kind, last.mode)
    IN  IF last.unbuffered /\ "b" \notin last.mode THEN [raw EXCEPT !.ok = FALSE] ELSE raw

SameAs(r) ==
    /\ last.result.ok = r.ok /\ last.result.fs = r.fs
    /\ r.ok => /\ last.result.readable = r.readable /\ last.result.writable = r.writable
               /\ last.result.units = r.units

Opening == last.by = "open"

\* Native or fallback, wrapped or raw, a legal open succeeds or fails as in CPython,
\* creates and truncates the same file, and gives a stream that reads and writes if
\* CPython's does, bytes or text as CPython's, exactly unless it is a mode with a t that
\* CPython's own open serves: its text stream is wrapped as a raw one and is of no use.  The
\* mode x, r+ on a missing file, and writing to a bytes path are excepted.
AsPythonElsewhere ==
    /\ Opening /\ last.mode \in PythonModes
    /\ "x" \notin last.mode
    /\ {"r", "+"} \subseteq last.mode => last.before["f"] # "absent"
    /\ last.kind # "bytes"
    => (SameAs(InPython) <=>
            ("t" \in last.mode /\ last.result.ok => last.result.by = "native"))

\* An open that raises has neither created nor emptied a file, though the native attempt,
\* the fallback and the wrapper may each fail; the exceptions are the mode x, whose
\* wrapper refuses the stream that has just created the file, and unbuffered text.
RefusalsLeaveNoTrace ==
    /\ Opening /\ ~last.result.ok
    /\ "x" \notin last.mode
    /\ last.unbuffered => "b" \in last.mode
    => fs = last.before

\* Opening a descriptor touches no file by name, except through io.FileIO, and so the
\* lazily opened standard streams, on a native engine: that opens the file named by the
\* number.
DescriptorsNameNoFile == last.kind = "int" =>
    \/ fs = last.before
    \/ /\ last.by = "FileIO" /\ engine = "native"
       /\ fs = [last.before EXCEPT !["1"] = fs["1"]]

\* CPython's socket.makefile: r, w and b; it reads unless it only writes.
MakefileInPython ==
    [readable |-> "r" \in last.mode \/ "w" \notin last.mode, writable |-> "w" \in last.mode,
     units |-> Units(last.mode), ok |-> last.unbuffered => "b" \in last.mode, fs |-> last.before]

\* A makefile stream reads and writes as CPython's, and its wrapper never refuses the raw
\* stream, exactly unless the mode asks for a buffered stream of both directions, or for
\* neither, which CPython reads from.
MakefilesAsPython == last.by = "makefile" /\ last.mode \subseteq {"r", "w", "b"} =>
    LET both == {"r", "w"} \subseteq last.mode
        text == "b" \notin last.mode
    IN  SameAs(MakefileInPython) <=>
            \/ both /\ last.unbuffered
            \/ ~both /\ ({"r", "w"} \cap last.mode # {} \/ (text /\ last.unbuffered))

=============================================================================

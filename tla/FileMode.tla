------------------------------ MODULE FileMode -------------------------------
(***************************************************************************)
(* Mode strings, src/file_mode.rs.  The parser only asks which characters  *)
(* a mode contains, so a mode is the set of its characters.                *)
(***************************************************************************)
EXTENDS Naturals, FiniteSets

Chars == {"r", "w", "a", "x", "+", "b", "t"}

parse(str) ==
    LET m == IF str = {} THEN {"r", "b"} ELSE str
    IN  [readable |-> {"r", "+"} \cap m # {} \/ {"w", "a"} \cap m = {},
         writable |-> {"w", "a", "+"} \cap m # {},
         append   |-> "a" \in m,
         truncate |-> "w" \in m,
         binary   |-> "b" \in m]

\* Mutant: append does not depend on truncate.
OptionsOfBoth(fm) ==
    [read     |-> fm.readable,
     write    |-> fm.writable,
     create   |-> fm.writable,
     truncate |-> fm.truncate,
     append   |-> fm.append]

\* Mutant: a mode that reads is opened for reading only.
OptionsReadFirst(fm) ==
    [read     |-> fm.readable,
     write    |-> fm.writable /\ ~fm.readable,
     create   |-> fm.writable /\ ~fm.readable,
     truncate |-> fm.truncate /\ ~fm.readable,
     append   |-> fm.append /\ ~fm.truncate /\ ~fm.readable]

configure_open_options(fm) ==
    [read     |-> fm.readable \/ ~fm.writable,
     write    |-> fm.writable,
     create   |-> fm.writable,
     truncate |-> fm.writable /\ fm.truncate,
     append   |-> fm.writable /\ ~fm.truncate /\ fm.append]

Options(str) == configure_open_options(parse(str))

=============================================================================

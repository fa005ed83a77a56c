---------------------------- MODULE MCNativeFile -----------------------------
(* Instances of NativeFile for TLC.  A mode is the set of its characters.   *)
EXTENDS NativeFile, TLC

ReadWriteAppend == {{"r"}, {"w"}, {"a"}}
ReadAppend      == {{"r"}, {"a", "+"}}
OneWriter       == {{"w", "+"}}
TwoFds          == {3, 4}

\* Streams differ in nothing but their names; what stands in the place of a stream before
\* there is one is never read.
StreamSymmetry == Permutations(Streams)

=============================================================================

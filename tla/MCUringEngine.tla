---------------------------- MODULE MCUringEngine ----------------------------
(* Instances of UringEngine for TLC.  None of them declares the threads     *)
(* symmetric: both check temporal properties.                               *)
EXTENDS UringEngine

=============================================================================

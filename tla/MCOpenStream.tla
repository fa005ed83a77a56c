---------------------------- MODULE MCOpenStream -----------------------------
(* Machines for OpenStream: a good one, and one for each way of not being it. *)
EXTENDS OpenStream

Good == [kernel |-> <<6, 1>>, release |-> TRUE, forced |-> FALSE, ext |-> TRUE,
         ring |-> TRUE, probe |-> TRUE, ops |-> {"read", "write"}]

AllHosts ==
    {[Good EXCEPT !.kernel = v] : v \in {<<4, 19>>, <<5, 4>>, <<5, 10>>, <<6, 1>>}}
    \cup {[Good EXCEPT !.release = FALSE], [Good EXCEPT !.forced = TRUE],
          [Good EXCEPT !.ext = FALSE], [Good EXCEPT !.ring = FALSE],
          [Good EXCEPT !.probe = FALSE], [Good EXCEPT !.ops = {"read"}]}

=============================================================================

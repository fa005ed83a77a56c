---------------------------- MODULE MCStreamStack ----------------------------
(* Pairs of streams for StreamStack. *)
EXTENDS StreamStack

Pair(r, w, buffered) == [r |-> r, w |-> w, buffered |-> buffered]

AllStacks ==
    {Pair("socket", "socket", TRUE), Pair("memory", "socket", FALSE), Pair("memory", "text", FALSE),
     Pair("fallback", "memory", FALSE), Pair("fallback", "plain", TRUE), Pair("fallback", "native", TRUE)}
    \cup {Pair("fallback", "fallback", b) : b \in BOOLEAN}

TwoSent == <<-1, -2>>

=============================================================================

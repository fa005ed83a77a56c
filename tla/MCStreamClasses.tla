--------------------------- MODULE MCStreamClasses ---------------------------
(* Programs for StreamClasses: s1 and s2 are streams of related classes.     *)
EXTENDS StreamClasses

World(mro, body, c1, c2, immutable, slotted) ==
    [mro |-> mro, body |-> body, class |-> [s1 |-> c1, s2 |-> c2],
     immutable |-> immutable, slotted |-> slotted]

Reads == SUBSET {"read", "aread", "aread_batch"}

\* Class B under A under AsyncIOBase, perhaps with a mixin M in between.
Engine(mro, b, a, m, c2) ==
    World([B |-> mro, A |-> <<"A", "AsyncIOBase">>, M |-> <<"M">>],
          [B |-> b, A |-> a, M |-> m], "B", c2, {}, {})

EngineWorlds ==
    {Engine(<<"B", "A", "AsyncIOBase">>, b, a, {}, "B") : b \in Reads, a \in Reads}
    \cup {Engine(<<"B", "M", "A", "AsyncIOBase">>, b, a, m, "M")
             : b \in {{}, {"read"}}, a \in Reads \ {{}}, m \in {{"read"}, {"aread"}}}

\* Class B of a mixin M under X, which brings read, and of A, which brings aread and may
\* splice by hand; X comes last, and s2 is a stream of M.
MixinWorlds ==
    {World([B |-> <<"B", "M", "A", "X", "AsyncIOBase">>, M |-> <<"M", "X">>, X |-> <<"X">>,
            A |-> <<"A", "AsyncIOBase">>],
           [B |-> {}, M |-> {}, X |-> {"read"}, A |-> a], "B", "M", {}, {})
       : a \in {{"aread"}, {"read", "asplice"}}}

\* Class Q that inherits from P, then from O, none of them the library's.
PlainOf(q, p, o, immutable, slotted) ==
    World([Q |-> <<"Q", "P", "O">>, P |-> <<"P">>, O |-> <<"O">>],
          [Q |-> q, P |-> p, O |-> o], "P", "Q", immutable, slotted)

Others == {{}, {"aread", "write", "awrite"}}
PlainWorlds ==
    {PlainOf({"write", "close"}, {"read"}, o, odd[1], odd[2])
       : o \in Others, odd \in {<<{}, {}>>, <<{"P"}, {}>>, <<{"Q"}, {}>>, <<{}, {"s1"}>>}}
    \cup {PlainOf({}, Sync, o, immutable, {}) : o \in Others, immutable \in {{}, {"P"}}}

\* Class B under AsyncIOBase, with a read or without.
ReadWorlds == {Engine(<<"B", "AsyncIOBase">>, b, {}, {}, "B") : b \in {{}, {"read"}}}

AllWorlds == EngineWorlds \cup MixinWorlds \cup PlainWorlds

=============================================================================

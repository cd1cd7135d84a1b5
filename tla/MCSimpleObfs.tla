----------------------------- MODULE MCSimpleObfs ----------------------------
(* An instance of SimpleObfs for TLC. *)
EXTENDS SimpleObfs

\* No header lines, one that looks like half a terminator, one that ends in the
\* terminator's first byte, and one longer than MAX_HEADER.
MCHeaders == {<<>>, <<"x", "r", "n", "x">>, <<"x", "r">>, [i \in 1 .. 13 |-> "x"]}

\* No body, distinct bytes, and a body that looks like a terminator.
MCBodies == {<<>>, <<"a", "b", "c", "d", "e">>, <<"r", "n", "r", "n", "a">>}

\* One record, an empty record between two others, an empty first record, and a
\* length that needs both bytes.
MCRecords == {<<2>>, <<1, 0, 2>>, <<0, 3>>, <<3, 1>>}

\* The boundaries of both lengths of a ClientHello.
MCDataLens == {0, 1, 255, 256, 1400, TLS_CHUNK_SIZE - 1, TLS_CHUNK_SIZE}
MCServerLens == {0, 1, 13, 253, MaxServerLen}
=============================================================================

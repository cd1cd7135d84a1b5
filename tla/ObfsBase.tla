------------------------------ MODULE ObfsBase ------------------------------
(* What the two halves of a simple-obfs wrapper have in common. *)
EXTENDS Integers, SequencesExt, Filters

CONSTANTS Kinds,        \* the wrappers, out of "http" and "tls"
          Base          \* values of a byte of a length field, 256 in the code

ASSUME KindsAssumption == Kinds \subseteq {"http", "tls"} /\ Base \in Nat \ {0, 1}

VARIABLES kind,         \* which wrapper
          half          \* which half of it is looked at, "read" or "write"

Prefix(s, n) == SubSeq(s, 1, n)
Suffix(s, n) == SubSeq(s, n + 1, Len(s))
AtMost(m, n) == IF m < n THEN m ELSE n

\* Framing bytes without meaning here.  A payload byte is above Base.
Pad(n) == [i \in 1 .. n |-> 0]

\* The payload bytes among the bytes of a stream.
PayloadOf(s) == Without(s, 0 .. Base)
=============================================================================

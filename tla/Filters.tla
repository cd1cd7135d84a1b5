------------------------------- MODULE Filters -------------------------------
(* What the stores do to their lists with Array.filter. *)
EXTENDS Integers, Sequences

\* The elements of s that are not in X, in their order.
Without(s, X) ==
  LET kept[i \in 0 .. Len(s)] ==
        IF i = 0 THEN <<>>
        ELSE IF s[i] \in X THEN kept[i - 1] ELSE Append(kept[i - 1], s[i])
  IN kept[Len(s)]
=============================================================================

----------------------------- MODULE ByteStream -----------------------------
(***************************************************************************)
(* What an obfuscation layer promises in each direction: the bytes that go *)
(* in come out, each once and in order; the end of the stream is announced *)
(* only after the last of them; or the stream fails.                       *)
(***************************************************************************)
EXTENDS Naturals, Sequences

VARIABLES input,        \* bytes still to come out
          output,       \* bytes that have come out
          status        \* "open", "eof" or "failed"

vars == <<input, output, status>>

Init == output = <<>> /\ status = "open"

Transfer == /\ status = "open"
            /\ \E n \in 1 .. Len(input) :
                 /\ output' = output \o SubSeq(input, 1, n)
                 /\ input' = SubSeq(input, n + 1, Len(input))
            /\ UNCHANGED status

Finish == /\ status = "open"
          /\ input = <<>>
          /\ status' = "eof"
          /\ UNCHANGED <<input, output>>

Break == /\ status = "open"
         /\ status' = "failed"
         /\ UNCHANGED <<input, output>>

Next == Transfer \/ Finish \/ Break

Spec == Init /\ [][Next]_vars
=============================================================================

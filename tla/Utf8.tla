-------------------------------- MODULE Utf8 --------------------------------
(***************************************************************************)
(* encodeUtf8 and decodeUtf8 (entry/src/main/ets/model/JsonStore.ets): the *)
(* hand-written conversions between the UTF-16 code units of a string and  *)
(* the bytes of a file.  Indexes count from 0, as in the code; the turns   *)
(* of a loop from index k on are a recursive function of k.                *)
(***************************************************************************)
EXTENDS Integers, Sequences

High(u) == u >= 55296 /\ u <= 56319     \* 0xd800 .. 0xdbff
Low(u) == u >= 56320 /\ u <= 57343      \* 0xdc00 .. 0xdfff

\* Mutant: a high surrogate is combined with whatever follows.
Paired_any(text, k) == k + 1 < Len(text) /\ High(text[k + 1])

\* The code units at index k and k + 1 are a surrogate pair.
Paired(text, k) == k + 1 < Len(text) /\ High(text[k + 1]) /\ Low(text[k + 2])

CodeAt(text, k) == IF Paired(text, k)
                   THEN 65536 + (text[k + 1] - 55296) * 1024 + (text[k + 2] - 56320)
                   ELSE text[k + 1]

\* Six bits of a code, from the place 1, 64 or 4096 on, as a continuation byte.
Continuation(code, place) == 128 + ((code \div place) % 64)

EncodeCode(code) ==
  CASE code < 128 -> <<code>>
    [] code >= 128 /\ code < 2048 -> <<192 + (code \div 64), Continuation(code, 1)>>
    [] code >= 2048 /\ code < 65536 ->
         <<224 + (code \div 4096), Continuation(code, 64), Continuation(code, 1)>>
    [] OTHER ->
         <<240 + (code \div 262144), Continuation(code, 4096), Continuation(code, 64),
           Continuation(code, 1)>>

encodeUtf8(text) ==
  LET from[k \in 0 .. Len(text)] ==
        IF k = Len(text) THEN <<>>
        ELSE EncodeCode(CodeAt(text, k)) \o from[IF Paired(text, k) THEN k + 2 ELSE k + 1]
  IN from[0]

-----------------------------------------------------------------------------

\* A byte that starts no character; it is skipped.
Stray(lead) == lead \div 64 = 2 \/ lead >= 248

\* How many bytes follow a lead byte.
Extra(lead) == CASE lead \div 32 = 6 -> 1
                 [] lead \div 16 = 14 -> 2
                 [] lead \div 8 = 30 -> 3
                 [] OTHER -> 0

\* bytes[k] & 0x3f; reading past the end of an array gives 0.
SixBits(bytes, k) == IF k < Len(bytes) THEN bytes[k + 1] % 64 ELSE 0

\* The bits of the lead byte, then six of each byte that follows.
CodePoint(bytes, k) ==
  LET lead == bytes[k + 1]
      b(n) == SixBits(bytes, k + n)
  IN CASE Extra(lead) = 0 -> lead
       [] Extra(lead) = 1 -> (lead % 32) * 64 + b(1)
       [] Extra(lead) = 2 -> (lead % 16) * 4096 + b(1) * 64 + b(2)
       [] OTHER -> (lead % 8) * 262144 + b(1) * 4096 + b(2) * 64 + b(3)

\* String.fromCharCode of a code point, a surrogate pair beyond 0xffff.
UnitsOf(c) == IF c <= 65535
              THEN <<c>>
              ELSE <<55296 + ((c - 65536) \div 1024), 56320 + ((c - 65536) % 1024)>>

CharAt(bytes, k) == IF Stray(bytes[k + 1]) THEN <<>> ELSE UnitsOf(CodePoint(bytes, k))

\* Mutant: the last byte of a character may be missing.
Truncated_late(bytes, k) == k + Extra(bytes[k + 1]) > Len(bytes)

\* The character at index k does not end before the bytes do.
Truncated(bytes, k) == k + Extra(bytes[k + 1]) >= Len(bytes)

decodeUtf8(bytes) ==
  LET from[k \in 0 .. Len(bytes) + 3] ==
        IF k >= Len(bytes) THEN <<>>
        ELSE IF Truncated(bytes, k) THEN <<>>
        ELSE CharAt(bytes, k) \o from[k + Extra(bytes[k + 1]) + 1]
  IN from[0]
=============================================================================

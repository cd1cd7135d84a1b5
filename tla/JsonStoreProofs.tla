-------------------------- MODULE JsonStoreProofs ---------------------------
(***************************************************************************)
(* Proofs about JsonStore for any set of documents and of inodes.          *)
(*                                                                         *)
(* A published file is never written to: contents change in the file the   *)
(* writer has open and in the one it opens; NamesInv says that this is the *)
(* temporary file, and that no reader has that one.                        *)
(*                                                                         *)
(* decodeUtf8 gives back what encodeUtf8 was given, for every string; and  *)
(* of the beginning of the bytes, padded with NULs, it makes the beginning *)
(* of the string, unless the result has a NUL or ends in a unit that is    *)
(* not ASCII (ReadOK).  The induction is over the characters of the text,  *)
(* from its end: Reads says of the bytes from one character on, wherever   *)
(* they stand and however many there are, what is read of them.            *)
(*                                                                         *)
(* With these, ReadInv gives what read() returns and what it has seen:     *)
(* every file holds the beginning of a document, and the size that stat    *)
(* told is that of a document the path has named since.                    *)
(***************************************************************************)
EXTENDS JsonStore, SequenceLemmas

\* What the names, the descriptors and the steps of the writer have to do with
\* one another.
NamesInv ==
  /\ TypeOK
  /\ wpc = "open" => wfd = tmp
  /\ wpc # "idle" => tmp # None
  /\ tmp # None => tmp # path /\ tmp # rfd

\* Freeing inodes changes no file that still has a name or a descriptor.
LEMMA FreeKeeps ==
  ASSUME DOMAIN data = Inodes, Free
  PROVE  /\ DOMAIN data' = Inodes
         /\ \A i \in {path', tmp', wfd', rfd'} \cap Inodes : data'[i] = data[i]
BY DEF Free

\* The file the writer opens is the left-over temporary one or a new one.
LEMMA OpenNames ==
  ASSUME NamesInv, NEW d \in Docs, write_open(d)
  PROVE  NamesInv' /\ wfd' \in Inodes /\ wfd' # path /\ wfd' # rfd
<1> USE NoneAssumption DEF NamesInv, TypeOK, write_open, reader
<1>1. wfd' \in Inodes /\ wfd' # path /\ wfd' # rfd
  BY DEF FreeInodes
<1>2. DOMAIN data' = Inodes
  OBVIOUS
<1> QED
  BY <1>1, <1>2

\* Every step keeps the names apart.
LEMMA NamesStep == NamesInv /\ [Next]_vars => NamesInv'
<1> SUFFICES ASSUME NamesInv, [Next]_vars PROVE NamesInv'
  OBVIOUS
<1> USE NoneAssumption DEF NamesInv, TypeOK, fsys, writer, reader
<1>1. ASSUME NEW d \in Docs, write_open(d) PROVE NamesInv'
  BY <1>1, OpenNames
<1>2. CASE write_data
  BY <1>2 DEF write_data
<1>3. CASE write_throws
  BY <1>3 DEF write_throws
<1>4. CASE write_rename
  BY <1>4, FreeKeeps DEF write_rename, Name
<1>5. CASE remove
  BY <1>5, FreeKeeps DEF remove, Name
<1>6. CASE WriterKilled
  BY <1>6 DEF WriterKilled
<1>7. CASE read_stat \/ read_absent
  BY <1>7 DEF read_stat, read_absent
<1>8. CASE read_open
  BY <1>8 DEF read_open
<1>9. ASSUME NEW text, Return(text) PROVE NamesInv'
  BY <1>9, FreeKeeps DEF Return
<1>10. CASE ReaderKilled
  BY <1>10, FreeKeeps DEF ReaderKilled
<1>11. CASE UNCHANGED vars
  BY <1>11 DEF vars
<1>12. CASE read_gone \/ read_data
  BY <1>9, <1>12 DEF read_gone, read_data
<1> QED
  BY <1>1, <1>2, <1>3, <1>4, <1>5, <1>6, <1>7, <1>8, <1>10, <1>11, <1>12
     DEF Next, Write, Read

\* The files a reader can get at.
Published == ({path, rfd} \cap {path', rfd'}) \ {None}

\* No step writes to a published file.
LEMMA PublishedStep ==
  ASSUME NamesInv, [Next]_vars
  PROVE  \A i \in Published : data'[i] = data[i]
<1> USE NoneAssumption DEF NamesInv, TypeOK, Published
<1>1. ASSUME NEW d \in Docs, write_open(d) PROVE \A i \in Published : data'[i] = data[i]
  BY <1>1, OpenNames DEF write_open, reader
<1>2. CASE write_data
  BY <1>2 DEF write_data, reader
<1>3. ASSUME Free PROVE \A i \in Published : data'[i] = data[i]
  BY <1>3, FreeKeeps
<1>4. CASE UNCHANGED data
  BY <1>4
<1> QED
  BY <1>1, <1>2, <1>3, <1>4
     DEF Next, Write, Read, write_throws, write_rename, remove, WriterKilled, read_stat,
         read_absent, read_open, read_gone, read_data, Return, ReaderKilled, vars, fsys

\* The names and descriptors of both processes, and what they hold, stay in step.
THEOREM NamesInvariance == Spec => []NamesInv
<1>1. Init => NamesInv
  BY DEF Init, NamesInv, TypeOK
<1> QED
  BY <1>1, NamesStep, PTL DEF Spec

\* A descriptor is held exactly while a call that has opened a file is under way.
THEOREM TypeCorrect == Spec => []TypeOK
<1>1. NamesInv => TypeOK
  BY DEF NamesInv
<1> QED
  BY <1>1, NamesInvariance, PTL

\* JsonStore.write: whatever killed, failed and short writes leave behind, the
\* contents of a file that a reader can get at never change; they are replaced
\* only by rename.
THEOREM PublishedNeverWritten == Spec => PublishedStable
<1>1. NamesInv /\ [Next]_vars
      => [\A i \in ({path, rfd} \cap {path', rfd'}) \ {None} : data'[i] = data[i]]_vars
  BY PublishedStep DEF Published
<1> QED
  BY <1>1, NamesInvariance, PTL DEF Spec, PublishedStable

-----------------------------------------------------------------------------
(* Characters: what EncodeCode writes and CodePoint reads.                 *)

\* c is a number from low to high.
Within(c, low, high) == c \in Nat /\ low <= c /\ c <= high

\* A code of two bytes is its 5 and 6 bits put together.
LEMMA Digits2 ==
  ASSUME NEW c, Within(c, 128, 2047)
  PROVE  Within(c \div 64, 2, 31) /\ Within(c % 64, 0, 63) /\ c = (c \div 64) * 64 + (c % 64)
BY SMT DEF Within

\* A code of three bytes is its 4, 6 and 6 bits put together.
LEMMA Digits3 ==
  ASSUME NEW c, Within(c, 2048, 65535)
  PROVE  /\ Within(c \div 4096, 0, 15) /\ Within((c \div 64) % 64, 0, 63) /\ Within(c % 64, 0, 63)
         /\ c = (c \div 4096) * 4096 + ((c \div 64) % 64) * 64 + (c % 64)
BY SMT DEF Within

\* A code of four bytes is its 3, 6, 6 and 6 bits put together.
LEMMA Digits4 ==
  ASSUME NEW c, Within(c, 65536, 1114111)
  PROVE  /\ Within(c \div 262144, 0, 4) /\ Within((c \div 4096) % 64, 0, 63)
         /\ Within((c \div 64) % 64, 0, 63) /\ Within(c % 64, 0, 63)
         /\ c = (c \div 262144) * 262144 + ((c \div 4096) % 64) * 4096
                + ((c \div 64) % 64) * 64 + (c % 64)
BY SMT DEF Within

\* A continuation byte gives back its six bits.
LEMMA SixOf == ASSUME NEW q, Within(q, 0, 63) PROVE (128 + q) % 64 = q /\ 128 + q \in Nat
BY SMT DEF Within

\* A byte below 128 is a whole character.
LEMMA Lead1 == ASSUME NEW q, Within(q, 0, 127) PROVE Extra(q) = 0 /\ ~Stray(q)
<1>1. q \div 32 # 6 /\ q \div 16 # 14 /\ q \div 8 # 30 /\ q \div 64 # 2 /\ q \in Nat /\ ~(q >= 248)
  BY SMT DEF Within
<1> QED BY <1>1, SMT DEF Extra, Stray

\* A lead byte of two says that one byte follows, and gives back its bits.
LEMMA Lead2 ==
  ASSUME NEW q, Within(q, 2, 31)
  PROVE  Extra(192 + q) = 1 /\ ~Stray(192 + q) /\ (192 + q) % 32 = q /\ 192 + q \in Nat
<1>1. (192 + q) \div 32 = 6 /\ (192 + q) \div 64 = 3 /\ (192 + q) % 32 = q
  BY SMT DEF Within
<1>2. 192 + q \in Nat /\ ~(192 + q >= 248)
  BY SMT DEF Within
<1> QED BY <1>1, <1>2, SMT DEF Extra, Stray

\* A lead byte of three says that two bytes follow, and gives back its bits.
LEMMA Lead3 ==
  ASSUME NEW q, Within(q, 0, 15)
  PROVE  Extra(224 + q) = 2 /\ ~Stray(224 + q) /\ (224 + q) % 16 = q /\ 224 + q \in Nat
<1>1. (224 + q) \div 16 = 14 /\ (224 + q) \div 64 = 3 /\ (224 + q) % 16 = q
  BY SMT DEF Within
<1>2. (224 + q) \div 32 # 6 /\ 224 + q \in Nat /\ ~(224 + q >= 248)
  BY SMT DEF Within
<1> QED BY <1>1, <1>2, SMT DEF Extra, Stray

\* A lead byte of four says that three bytes follow, and gives back its bits.
LEMMA Lead4 ==
  ASSUME NEW q, Within(q, 0, 4)
  PROVE  Extra(240 + q) = 3 /\ ~Stray(240 + q) /\ (240 + q) % 8 = q /\ 240 + q \in Nat
<1>1. (240 + q) \div 8 = 30 /\ (240 + q) \div 64 = 3 /\ (240 + q) % 8 = q
  BY SMT DEF Within
<1>2. (240 + q) \div 32 # 6 /\ (240 + q) \div 16 # 14 /\ 240 + q \in Nat /\ ~(240 + q >= 248)
  BY SMT DEF Within
<1> QED BY <1>1, <1>2, SMT DEF Extra, Stray

\* The code that a lead byte with its groups of six bits stands for.
Value(lead, x, y, z) ==
  CASE Extra(lead) = 0 -> lead
    [] Extra(lead) = 1 -> (lead % 32) * 64 + x
    [] Extra(lead) = 2 -> (lead % 16) * 4096 + x * 64 + y
    [] OTHER -> (lead % 8) * 262144 + x * 4096 + y * 64 + z

\* CodePoint looks at four bytes at most.
LEMMA ValueOf ==
  ASSUME NEW bytes, NEW k
  PROVE  CodePoint(bytes, k) = Value(bytes[k + 1], SixBits(bytes, k + 1), SixBits(bytes, k + 2),
                                     SixBits(bytes, k + 3))
BY DEF CodePoint, Value

\* The bytes of a character, and what is read when only the first m of them are
\* there and the other ones are NULs.
Group(w, m, i) == IF i < m THEN w[i + 1] % 64 ELSE 0
Partly(w, m) == Value(w[1], Group(w, m, 1), Group(w, m, 2), Group(w, m, 3))

CharOK(w, c) ==
  /\ w \in Seq(Nat) /\ Len(w) \in 1 .. 4 /\ Extra(w[1]) = Len(w) - 1 /\ ~Stray(w[1])
  /\ Partly(w, Len(w)) = c
  /\ \A m \in 1 .. Len(w) - 1 : /\ Partly(w, m) \in Nat
                                /\ Partly(w, m) = 0 \/ Partly(w, m) >= 128

\* Codes of one byte are read as they were written.
LEMMA Char1 == ASSUME NEW c, Within(c, 0, 127) PROVE CharOK(EncodeCode(c), c)
<1> DEFINE w == EncodeCode(c)
<1>1. w = <<c>> /\ c \in Nat
  BY SMT DEF EncodeCode, Within
<1>2. Extra(c) = 0 /\ ~Stray(c)
  BY Lead1
<1> HIDE DEF w
<1>3. w \in Seq(Nat) /\ Len(w) = 1 /\ w[1] = c
  BY <1>1
<1>4. \A m : Partly(w, m) = c
  BY <1>2, <1>3 DEF Partly, Value
<1>5. \A m \in 1 .. 1 - 1 : FALSE
  OBVIOUS
<1> QED BY <1>2, <1>3, <1>4, <1>5 DEF CharOK, w

\* Codes of two bytes are read as they were written.
LEMMA Char2 == ASSUME NEW c, Within(c, 128, 2047) PROVE CharOK(EncodeCode(c), c)
<1> DEFINE w == EncodeCode(c)
           q == c \div 64
           r == c % 64
<1>0. c \div 1 = c /\ ~(c < 128) /\ c >= 128 /\ c < 2048 /\ ~(c >= 2048)
  BY SMT DEF Within
<1>1. w = <<192 + q, 128 + r>>
  <2>1. EncodeCode(c) = <<192 + (c \div 64), Continuation(c, 1)>>
    BY <1>0, SMT DEF EncodeCode
  <2> QED BY <1>0, <2>1 DEF Continuation
<1>2. Within(q, 2, 31) /\ Within(r, 0, 63) /\ c = q * 64 + r
  BY Digits2
<1> HIDE DEF w, q, r
<1>3. Extra(192 + q) = 1 /\ ~Stray(192 + q) /\ (192 + q) % 32 = q /\ 192 + q \in Nat
  BY <1>2, Lead2
<1>4. (128 + r) % 64 = r /\ 128 + r \in Nat
  BY <1>2, SixOf
<1>5. w \in Seq(Nat) /\ Len(w) = 2 /\ w[1] = 192 + q /\ w[2] = 128 + r
  BY <1>1, <1>3, <1>4
<1>6. \A m : Partly(w, m) = q * 64 + Group(w, m, 1)
  BY <1>3, <1>5 DEF Partly, Value
<1>7. Group(w, 2, 1) = r /\ Group(w, 1, 1) = 0
  BY <1>4, <1>5 DEF Group
<1>8. Partly(w, 2) = c /\ Partly(w, 1) \in Nat /\ Partly(w, 1) >= 128
  BY <1>2, <1>6, <1>7, SMT DEF Within
<1>9. \A m \in 1 .. 2 - 1 : m = 1
  OBVIOUS
<1> QED BY <1>3, <1>5, <1>8, <1>9 DEF CharOK, w

\* Codes of three bytes are read as they were written.
LEMMA Char3 == ASSUME NEW c, Within(c, 2048, 65535) PROVE CharOK(EncodeCode(c), c)
<1> DEFINE w == EncodeCode(c)
           q == c \div 4096
           r == (c \div 64) % 64
           s == c % 64
<1>0. c \div 1 = c /\ ~(c < 128) /\ ~(c < 2048) /\ c >= 2048 /\ c < 65536
  BY SMT DEF Within
<1>1. w = <<224 + q, 128 + r, 128 + s>>
  BY <1>0, SMT DEF EncodeCode, Continuation
<1>2. Within(q, 0, 15) /\ Within(r, 0, 63) /\ Within(s, 0, 63) /\ c = q * 4096 + r * 64 + s
  BY Digits3
<1>a. c >= 2048 /\ c \in Nat
  BY DEF Within
<1> HIDE DEF w, q, r, s
<1>3. Extra(224 + q) = 2 /\ ~Stray(224 + q) /\ (224 + q) % 16 = q /\ 224 + q \in Nat
  BY <1>2, Lead3
<1>4. (128 + r) % 64 = r /\ 128 + r \in Nat /\ (128 + s) % 64 = s /\ 128 + s \in Nat
  BY <1>2, SixOf
<1>5. w \in Seq(Nat) /\ Len(w) = 3 /\ w[1] = 224 + q /\ w[2] = 128 + r /\ w[3] = 128 + s
  BY <1>1, <1>3, <1>4
<1>6. \A m : Partly(w, m) = q * 4096 + Group(w, m, 1) * 64 + Group(w, m, 2)
  BY <1>3, <1>5, SMT DEF Partly, Value
<1>7. /\ Group(w, 3, 1) = r /\ Group(w, 3, 2) = s
      /\ Group(w, 2, 1) = r /\ Group(w, 2, 2) = 0
      /\ Group(w, 1, 1) = 0 /\ Group(w, 1, 2) = 0
  BY <1>4, <1>5 DEF Group
<1>8. /\ Partly(w, 3) = c
      /\ Partly(w, 2) \in Nat /\ Partly(w, 2) >= 128
      /\ Partly(w, 1) \in Nat /\ (Partly(w, 1) = 0 \/ Partly(w, 1) >= 128)
  <2>1. /\ Partly(w, 3) = q * 4096 + r * 64 + s /\ Partly(w, 2) = q * 4096 + r * 64 + 0
        /\ Partly(w, 1) = q * 4096 + 0 * 64 + 0
    BY <1>6, <1>7, SMT
  <2> QED BY <1>2, <1>a, <2>1, SMT DEF Within
<1>9. \A m \in 1 .. 3 - 1 : m = 1 \/ m = 2
  OBVIOUS
<1> QED BY <1>3, <1>5, <1>8, <1>9 DEF CharOK, w

\* Codes of four bytes are read as they were written.
LEMMA Char4 == ASSUME NEW c, Within(c, 65536, 1114111) PROVE CharOK(EncodeCode(c), c)
<1> DEFINE w == EncodeCode(c)
           q == c \div 262144
           r == (c \div 4096) % 64
           s == (c \div 64) % 64
           t == c % 64
<1>0. c \div 1 = c /\ ~(c < 128) /\ ~(c < 2048) /\ ~(c < 65536)
  BY SMT DEF Within
<1>1. w = <<240 + q, 128 + r, 128 + s, 128 + t>>
  BY <1>0, SMT DEF EncodeCode, Continuation
<1>2. /\ Within(q, 0, 4) /\ Within(r, 0, 63) /\ Within(s, 0, 63) /\ Within(t, 0, 63)
      /\ c = q * 262144 + r * 4096 + s * 64 + t
  BY Digits4
<1>a. c >= 65536 /\ c \in Nat
  BY SMT DEF Within
<1> HIDE DEF w, q, r, s, t
<1>3. Extra(240 + q) = 3 /\ ~Stray(240 + q) /\ (240 + q) % 8 = q /\ 240 + q \in Nat
  BY <1>2, Lead4
<1>4. /\ (128 + r) % 64 = r /\ 128 + r \in Nat /\ (128 + s) % 64 = s /\ 128 + s \in Nat
      /\ (128 + t) % 64 = t /\ 128 + t \in Nat
  BY <1>2, SixOf
<1>5. /\ w \in Seq(Nat) /\ Len(w) = 4
      /\ w[1] = 240 + q /\ w[2] = 128 + r /\ w[3] = 128 + s /\ w[4] = 128 + t
  BY <1>1, <1>3, <1>4
<1>6. \A m : Partly(w, m) = q * 262144 + Group(w, m, 1) * 4096 + Group(w, m, 2) * 64
                            + Group(w, m, 3)
  BY <1>3, <1>5, SMT DEF Partly, Value
<1>7. /\ Group(w, 4, 1) = r /\ Group(w, 4, 2) = s /\ Group(w, 4, 3) = t
      /\ Group(w, 3, 1) = r /\ Group(w, 3, 2) = s /\ Group(w, 3, 3) = 0
      /\ Group(w, 2, 1) = r /\ Group(w, 2, 2) = 0 /\ Group(w, 2, 3) = 0
      /\ Group(w, 1, 1) = 0 /\ Group(w, 1, 2) = 0 /\ Group(w, 1, 3) = 0
  BY <1>4, <1>5 DEF Group
<1>8. /\ Partly(w, 4) = c
      /\ Partly(w, 3) \in Nat /\ Partly(w, 3) >= 128
      /\ Partly(w, 2) \in Nat /\ Partly(w, 2) >= 128
      /\ Partly(w, 1) \in Nat /\ (Partly(w, 1) = 0 \/ Partly(w, 1) >= 128)
  <2>1. /\ Partly(w, 4) = q * 262144 + r * 4096 + s * 64 + t
        /\ Partly(w, 3) = q * 262144 + r * 4096 + s * 64 + 0
        /\ Partly(w, 2) = q * 262144 + r * 4096 + 0 * 64 + 0
        /\ Partly(w, 1) = q * 262144 + 0 * 4096 + 0 * 64 + 0
    BY <1>6, <1>7, SMT
  <2> QED BY <1>2, <1>a, <2>1, SMT DEF Within
<1>9. \A m \in 1 .. 4 - 1 : m = 1 \/ m = 2 \/ m = 3
  OBVIOUS
<1> QED BY <1>3, <1>5, <1>8, <1>9 DEF CharOK, w

\* Every code is read as it was written.
LEMMA Chars == ASSUME NEW c, Within(c, 0, 1114111) PROVE CharOK(EncodeCode(c), c)
<1>1. \/ Within(c, 0, 127) \/ Within(c, 128, 2047) \/ Within(c, 2048, 65535)
      \/ Within(c, 65536, 1114111)
  BY SMT DEF Within
<1> QED BY <1>1, Char1, Char2, Char3, Char4

\* The code units of a character, those that are read and those of a text.
LEMMA UnitsRead ==
  ASSUME NEW u \in Nat
  PROVE  /\ UnitsOf(u) \in Seq(Nat) /\ Len(UnitsOf(u)) \in 1 .. 2
         /\ u = 0 => UnitsOf(u)[1] = 0
         /\ u >= 128 => UnitsOf(u)[Len(UnitsOf(u))] >= 128
<1>1. CASE u <= 65535
  <2>1. UnitsOf(u) = <<u>>
    BY <1>1, SMT DEF UnitsOf
  <2> QED BY <2>1
<1>2. CASE ~(u <= 65535)
  <2> DEFINE a == 55296 + ((u - 65536) \div 1024)
             b == 56320 + ((u - 65536) % 1024)
  <2>1. UnitsOf(u) = <<a, b>>
    BY <1>2, SMT DEF UnitsOf
  <2>2. a \in Nat /\ b \in Nat /\ b >= 128 /\ u # 0
    BY <1>2, SMT
  <2> HIDE DEF a, b
  <2> QED BY <2>1, <2>2, SMT
<1> QED BY <1>1, <1>2

\* A string of UTF-16 code units, and where the character after one begins.
Text(s) == s \in Seq(Nat) /\ \A i \in 1 .. Len(s) : s[i] <= 65535
StepFrom(text, k) == IF Paired(text, k) THEN k + 2 ELSE k + 1

\* The code of a surrogate pair is taken apart into that pair again.
LEMMA PairCode ==
  ASSUME NEW h, NEW l, Within(h, 55296, 56319), Within(l, 56320, 57343)
  PROVE  LET c == 65536 + (h - 55296) * 1024 + (l - 56320)
         IN Within(c, 65536, 1114111) /\ UnitsOf(c) = <<h, l>>
<1> DEFINE c == 65536 + (h - 55296) * 1024 + (l - 56320)
<1>1. Within(c, 65536, 1114111)
  BY SMT DEF Within
<1>2. 55296 + ((c - 65536) \div 1024) = h /\ 56320 + ((c - 65536) % 1024) = l /\ ~(c <= 65535)
  BY SMT DEF Within
<1> HIDE DEF c
<1>3. UnitsOf(c) = <<h, l>>
  BY <1>2, SMT DEF UnitsOf
<1> QED BY <1>1, <1>3 DEF c

\* The units of the code at an index of a text are those of the text there.
LEMMA CodeOf ==
  ASSUME NEW text, Text(text), NEW k \in Nat, k < Len(text)
  PROVE  LET c == CodeAt(text, k)
             n == StepFrom(text, k)
         IN /\ Within(c, 0, 1114111) /\ n \in Nat /\ k < n /\ n <= Len(text)
            /\ UnitsOf(c) \in Seq(Nat) /\ Len(UnitsOf(c)) = n - k
            /\ \A i \in 1 .. n - k : UnitsOf(c)[i] = text[k + i]
<1>1. /\ Len(text) \in Nat /\ k + 1 \in 1 .. Len(text)
      /\ \A i \in 1 .. Len(text) : text[i] \in Nat /\ text[i] <= 65535
  BY DEF Text
<1>2. CASE Paired(text, k)
  <2> DEFINE h == text[k + 1]
             l == text[k + 2]
  <2>1. k + 2 \in 1 .. Len(text) /\ k + 2 <= Len(text)
    BY <1>1, <1>2 DEF Paired
  <2>2. Within(h, 55296, 56319) /\ Within(l, 56320, 57343)
    BY <1>1, <1>2, <2>1, SMT DEF Paired, High, Low, Within
  <2> DEFINE c == 65536 + (h - 55296) * 1024 + (l - 56320)
  <2>3. Within(c, 65536, 1114111) /\ UnitsOf(c) = <<h, l>>
    BY <2>2, PairCode
  <2>4. CodeAt(text, k) = c
    BY <1>2, SMT DEF CodeAt
  <2>5. StepFrom(text, k) = k + 2
    BY <1>2 DEF StepFrom
  <2>6. h \in Nat /\ l \in Nat
    BY <1>1, <2>1
  <2> HIDE DEF c
  <2>7. Within(c, 0, 1114111)
    BY <2>3, SMT DEF Within
  <2>8. UnitsOf(c) \in Seq(Nat) /\ Len(UnitsOf(c)) = 2 /\ UnitsOf(c)[1] = h /\ UnitsOf(c)[2] = l
    BY <2>3, <2>6
  <2>9. \A i \in 1 .. (k + 2) - k : i = 1 \/ i = 2
    OBVIOUS
  <2>10. (k + 2) - k = 2 /\ k + 2 \in Nat /\ k < k + 2
    OBVIOUS
  <2> QED BY <2>1, <2>4, <2>5, <2>7, <2>8, <2>9, <2>10, SMT
<1>3. CASE ~Paired(text, k)
  <2> DEFINE c == text[k + 1]
  <2>1. CodeAt(text, k) = c
    BY <1>3, SMT DEF CodeAt
  <2>2. StepFrom(text, k) = k + 1
    BY <1>3 DEF StepFrom
  <2>3. c \in Nat /\ c <= 65535
    BY <1>1
  <2> HIDE DEF c
  <2>4. UnitsOf(c) = <<c>>
    BY <2>3, SMT DEF UnitsOf
  <2>5. Within(c, 0, 1114111)
    BY <2>3, SMT DEF Within
  <2>6. (k + 1) - k = 1 /\ k + 1 \in Nat /\ k < k + 1 /\ \A i \in 1 .. 1 : i = 1
    OBVIOUS
  <2>7. UnitsOf(c) \in Seq(Nat) /\ Len(UnitsOf(c)) = 1 /\ UnitsOf(c)[1] = text[k + 1]
    BY <2>3, <2>4 DEF c
  <2> QED BY <1>1, <2>1, <2>2, <2>5, <2>6, <2>7, SMT
<1> QED BY <1>2, <1>3

-----------------------------------------------------------------------------
(* The loops.                                                              *)

\* The turns from index k on, of a loop that goes from k to next[k] and makes its
\* result from what the turns from there on give.
Down(f, a, F, next, Over, n) ==
  f = [k \in 0 .. n |-> IF k \in Over THEN a ELSE F[k][f[next[k]]]]

\* The recursion of such a loop is well-founded: it defines a function.
LEMMA DownExists ==
  ASSUME NEW S, NEW a \in S, NEW n \in Nat, NEW Over, n \in Over, NEW next, NEW F,
         \A k \in 0 .. n : k \notin Over => /\ next[k] \in k + 1 .. n
                                            /\ \A x \in S : F[k][x] \in S
  PROVE  \E f \in [0 .. n -> S] : Down(f, a, F, next, Over, n)
<1> DEFINE From(f, m) == /\ f \in [m .. n -> S]
                         /\ \A k \in m .. n :
                              f[k] = IF k \in Over THEN a ELSE F[k][f[next[k]]]
           N == {j \in Nat : j <= n => \E f : From(f, n - j)}
<1>1. 0 \in N
  <2> DEFINE f == [k \in n .. n |-> a]
  <2>1. n - 0 = n /\ \A k \in n .. n : k = n
    OBVIOUS
  <2>2. From(f, n)
    BY <2>1
  <2> HIDE DEF From
  <2>3. \E g : From(g, n - 0)
    BY <2>1, <2>2
  <2> QED BY <2>3
<1>2. ASSUME NEW j \in N, j + 1 <= n PROVE \E f : From(f, n - (j + 1))
  <2> DEFINE m == n - (j + 1)
  <2>0. m \in Nat /\ m < n /\ n - j = m + 1 /\ j \in Nat /\ j <= n
    BY <1>2
  <2>1. PICK old : From(old, m + 1)
    BY <2>0
  <2> HIDE DEF m, N
  <2>2. /\ \A k \in m .. n : k = m \/ k \in m + 1 .. n
        /\ \A k \in m .. n : k \in 0 .. n
        /\ m \in m .. n /\ m \in 0 .. n
    BY <2>0
  <2> DEFINE v == IF m \in Over THEN a ELSE F[m][old[next[m]]]
             f == [k \in m .. n |-> IF k = m THEN v ELSE old[k]]
  <2>3. v \in S
    <3>1. m \notin Over => next[m] \in m + 1 .. n /\ \A x \in S : F[m][x] \in S
      BY <2>2
    <3> QED BY <2>1, <3>1
  <2>4. f \in [m .. n -> S]
    BY <2>1, <2>2, <2>3
  <2>5. /\ f[m] = v /\ \A k \in m + 1 .. n : f[k] = old[k]
    BY <2>0, <2>2
  <2> HIDE DEF f
  <2>6. ASSUME NEW k \in m .. n PROVE f[k] = IF k \in Over THEN a ELSE F[k][f[next[k]]]
    <3>1. k \notin Over => next[k] \in m + 1 .. n
      <4>1. k \notin Over => next[k] \in k + 1 .. n
        BY <2>2
      <4>2. k \in Nat /\ m <= k
        BY <2>0
      <4> QED BY <2>0, <4>1, <4>2
    <3>2. k \notin Over => f[next[k]] = old[next[k]]
      BY <2>5, <3>1
    <3>3. CASE k = m
      BY <2>5, <3>2, <3>3
    <3>4. CASE k \in m + 1 .. n
      BY <2>1, <2>5, <3>2, <3>4
    <3> QED BY <2>2, <3>3, <3>4
  <2>7. From(f, m)
    BY <2>4, <2>6
  <2> HIDE DEF From
  <2> QED BY <2>7 DEF m
<1>3. ASSUME NEW j \in N PROVE j + 1 \in N
  <2>1. j + 1 \in Nat
    OBVIOUS
  <2> HIDE DEF From
  <2> QED BY <1>2, <2>1
<1>4. N = Nat
  <2>1. N \in SUBSET Nat
    OBVIOUS
  <2> HIDE DEF N
  <2> QED BY <1>1, <1>3, <2>1, Induction
<1>5. PICK f : From(f, 0)
  <2>1. n - n = 0 /\ n <= n
    OBVIOUS
  <2> HIDE DEF From
  <2>2. n \in N
    <3> HIDE DEF N
    <3> QED BY <1>4
  <2> QED BY <2>1, <2>2
<1>6. f = [k \in 0 .. n |-> f[k]]
  BY <1>5
<1>7. Down(f, a, F, next, Over, n) /\ f \in [0 .. n -> S]
  BY <1>5, <1>6 DEF Down
<1> QED BY <1>7

\* A lead byte has three bytes behind it at most.
LEMMA ExtraIs == ASSUME NEW q PROVE Extra(q) \in {0, 1, 2, 3}
BY SMT DEF Extra

\* The turns of encodeUtf8 and of decodeUtf8.
Encodes(f, text) ==
  f = [k \in 0 .. Len(text) |->
         IF k = Len(text) THEN <<>>
         ELSE EncodeCode(CodeAt(text, k)) \o f[StepFrom(text, k)]]
Decodes(f, bytes) ==
  f = [k \in 0 .. Len(bytes) + 3 |->
         IF k >= Len(bytes) THEN <<>>
         ELSE IF Truncated(bytes, k) THEN <<>>
         ELSE CharAt(bytes, k) \o f[k + Extra(bytes[k + 1]) + 1]]

\* The loop of encodeUtf8 ends.
LEMMA EncodesExist ==
  ASSUME NEW text, Text(text)
  PROVE  \E f \in [0 .. Len(text) -> Seq(Nat)] : Encodes(f, text)
<1> DEFINE n == Len(text)
           next == [k \in 0 .. n |-> StepFrom(text, k)]
           F == [k \in 0 .. n |-> [x \in Seq(Nat) |-> EncodeCode(CodeAt(text, k)) \o x]]
<1>1. n \in Nat
  BY DEF Text
<1>2. ASSUME NEW k \in 0 .. n, k \notin {n}
      PROVE  /\ next[k] = StepFrom(text, k) /\ next[k] \in k + 1 .. n
             /\ \A x \in Seq(Nat) : /\ F[k][x] = EncodeCode(CodeAt(text, k)) \o x
                                    /\ F[k][x] \in Seq(Nat)
  <2>1. k \in Nat /\ k < n
    BY <1>1, <1>2
  <2>2. /\ Within(CodeAt(text, k), 0, 1114111)
        /\ StepFrom(text, k) \in Nat /\ k < StepFrom(text, k) /\ StepFrom(text, k) <= n
    BY <2>1, CodeOf
  <2> DEFINE w == EncodeCode(CodeAt(text, k))
  <2>3. w \in Seq(Nat)
    BY <2>2, Chars DEF CharOK
  <2> HIDE DEF w
  <2>4. \A x \in Seq(Nat) : w \o x \in Seq(Nat)
    BY <2>3, ConcatProperties
  <2>5. next[k] = StepFrom(text, k) /\ next[k] \in k + 1 .. n
    BY <2>1, <2>2
  <2>6. \A x \in Seq(Nat) : F[k][x] = w \o x
    BY DEF w
  <2> QED BY <2>4, <2>5, <2>6 DEF w
<1> HIDE DEF n, next, F
<1>3. <<>> \in Seq(Nat) /\ n \in {n}
  OBVIOUS
<1>4. PICK f \in [0 .. n -> Seq(Nat)] : Down(f, <<>>, F, next, {n}, n)
  BY <1>1, <1>2, <1>3, DownExists
<1>5. ASSUME NEW k \in 0 .. n
      PROVE  f[k] = IF k = n THEN <<>> ELSE EncodeCode(CodeAt(text, k)) \o f[StepFrom(text, k)]
  <2>1. f[k] = IF k \in {n} THEN <<>> ELSE F[k][f[next[k]]]
    BY <1>4 DEF Down
  <2>2. CASE k # n
    <3>1. next[k] \in 0 .. n
      BY <1>1, <1>2, <2>2
    <3>2. f[next[k]] \in Seq(Nat) /\ next[k] = StepFrom(text, k)
      BY <1>2, <2>2, <3>1
    <3>3. F[k][f[next[k]]] = EncodeCode(CodeAt(text, k)) \o f[next[k]]
      BY <1>2, <2>2, <3>2
    <3> QED BY <2>1, <2>2, <3>2, <3>3
  <2> QED BY <2>1, <2>2
<1>6. f = [k \in 0 .. n |-> f[k]]
  OBVIOUS
<1>7. Encodes(f, text)
  BY <1>5, <1>6 DEF Encodes, n
<1> QED BY <1>7 DEF n

\* A turn of decodeUtf8 moves ahead, within the bytes, and gives code units.
LEMMA DecodeStep ==
  ASSUME NEW bytes \in Seq(Nat), NEW k \in Nat, k < Len(bytes), ~Truncated(bytes, k)
  PROVE  /\ k + Extra(bytes[k + 1]) + 1 \in k + 1 .. Len(bytes)
         /\ CharAt(bytes, k) \in Seq(Nat)
<1> DEFINE q == bytes[k + 1]
           v == CharAt(bytes, k)
<1>1. Extra(q) \in {0, 1, 2, 3} /\ Extra(q) \in Nat
  BY ExtraIs
<1>2. k + Extra(q) + 1 \in k + 1 .. Len(bytes)
  <2>1. k + Extra(q) < Len(bytes)
    BY <1>1 DEF Truncated
  <2> HIDE DEF q
  <2> QED BY <1>1, <2>1
<1>3. v \in Seq(Nat)
  <2>1. CASE Stray(q)
    BY <2>1 DEF CharAt
  <2>2. CASE ~Stray(q)
    <3>1. q \in Nat
      BY <1>1
    <3>2. \A i \in Nat : SixBits(bytes, i) \in Nat
      <4> TAKE i \in Nat
      <4>1. CASE i < Len(bytes)
        <5>1. bytes[i + 1] \in Nat
          BY <4>1
        <5>2. bytes[i + 1] % 64 \in Nat
          BY <5>1, SMT
        <5> QED BY <4>1, <5>2 DEF SixBits
      <4> QED BY <4>1 DEF SixBits
    <3> DEFINE x == SixBits(bytes, k + 1)
               y == SixBits(bytes, k + 2)
               z == SixBits(bytes, k + 3)
    <3>3. x \in Nat /\ y \in Nat /\ z \in Nat
      <4>1. k + 1 \in Nat /\ k + 2 \in Nat /\ k + 3 \in Nat
        BY <1>1
      <4> QED BY <3>2, <4>1
    <3>4. CodePoint(bytes, k) = Value(q, x, y, z)
      BY ValueOf
    <3> HIDE DEF x, y, z, q
    <3>5. q % 32 \in Nat /\ q % 16 \in Nat /\ q % 8 \in Nat
      BY <3>1, SMT
    <3>6. Value(q, x, y, z) \in Nat
      <4> DEFINE l == (q % 32) * 64
                 m == (q % 16) * 4096
                 o == (q % 8) * 262144
      <4>1. l \in Nat /\ m \in Nat /\ o \in Nat /\ x * 64 \in Nat /\ x * 4096 \in Nat
            /\ y * 64 \in Nat
        BY <3>3, <3>5, SMT
      <4>2. Value(q, x, y, z) \in {q, l + x, m + x * 64 + y, o + x * 4096 + y * 64 + z}
        BY SMT DEF Value
      <4> HIDE DEF l, m, o
      <4> QED BY <3>1, <3>3, <4>1, <4>2, SMT
    <3>7. UnitsOf(CodePoint(bytes, k)) \in Seq(Nat)
      BY <3>4, <3>6, UnitsRead
    <3> QED BY <2>2, <3>7 DEF CharAt, q
  <2> HIDE DEF v
  <2> QED BY <2>1, <2>2
<1> QED BY <1>2, <1>3

\* The loop of decodeUtf8 ends.
LEMMA DecodesExist ==
  ASSUME NEW bytes \in Seq(Nat)
  PROVE  \E f \in [0 .. Len(bytes) + 3 -> Seq(Nat)] : Decodes(f, bytes)
<1> DEFINE n == Len(bytes) + 3
           Over == {k \in 0 .. n : k >= Len(bytes) \/ Truncated(bytes, k)}
           next == [k \in 0 .. n |-> k + Extra(bytes[k + 1]) + 1]
           F == [k \in 0 .. n |-> [x \in Seq(Nat) |-> CharAt(bytes, k) \o x]]
<1>1. n \in Nat /\ Len(bytes) \in Nat /\ n \in 0 .. n /\ n >= Len(bytes) /\ n = Len(bytes) + 3
  OBVIOUS
<1>2. ASSUME NEW k \in 0 .. n, k \notin Over
      PROVE  /\ next[k] = k + Extra(bytes[k + 1]) + 1 /\ next[k] \in k + 1 .. n
             /\ \A x \in Seq(Nat) : /\ F[k][x] = CharAt(bytes, k) \o x
                                    /\ F[k][x] \in Seq(Nat)
  <2>1. k \in Nat /\ k < Len(bytes) /\ ~Truncated(bytes, k)
    BY <1>1, <1>2
  <2> DEFINE v == CharAt(bytes, k)
  <2>2. k + Extra(bytes[k + 1]) + 1 \in k + 1 .. Len(bytes) /\ v \in Seq(Nat)
    BY <2>1, DecodeStep
  <2>3. next[k] = k + Extra(bytes[k + 1]) + 1
    OBVIOUS
  <2>4. next[k] \in k + 1 .. n
    <3> HIDE DEF next
    <3> QED BY <1>1, <2>1, <2>2, <2>3
  <2>5. v \in Seq(Nat)
    BY <2>2
  <2>6. \A x \in Seq(Nat) : F[k][x] = v \o x
    OBVIOUS
  <2> HIDE DEF v, F, next
  <2>7. \A x \in Seq(Nat) : v \o x \in Seq(Nat)
    BY <2>5, ConcatProperties
  <2> QED BY <2>3, <2>4, <2>6, <2>7 DEF v
<1>3. <<>> \in Seq(Nat) /\ n \in Over
  BY <1>1
<1> HIDE DEF n, next, F
<1>4. PICK f \in [0 .. n -> Seq(Nat)] : Down(f, <<>>, F, next, Over, n)
  <2> HIDE DEF Over
  <2> QED BY <1>1, <1>2, <1>3, DownExists
<1>5. ASSUME NEW k \in 0 .. n
      PROVE  f[k] = IF k >= Len(bytes) THEN <<>>
                    ELSE IF Truncated(bytes, k) THEN <<>>
                    ELSE CharAt(bytes, k) \o f[k + Extra(bytes[k + 1]) + 1]
  <2>1. f[k] = IF k \in Over THEN <<>> ELSE F[k][f[next[k]]]
    BY <1>4 DEF Down
  <2>2. CASE k \notin Over
    <3>0. next[k] \in k + 1 .. n /\ next[k] = k + Extra(bytes[k + 1]) + 1
      <4> HIDE DEF Over
      <4> QED BY <1>2, <2>2
    <3>1. next[k] \in 0 .. n
      BY <1>1, <3>0
    <3>2. f[next[k]] \in Seq(Nat)
      BY <3>1
    <3>3. F[k][f[next[k]]] = CharAt(bytes, k) \o f[next[k]]
      <4> HIDE DEF Over
      <4> QED BY <1>2, <2>2, <3>2
    <3>4. f[k] = CharAt(bytes, k) \o f[k + Extra(bytes[k + 1]) + 1]
      BY <2>1, <2>2, <3>0, <3>3
    <3>5. ~(k >= Len(bytes)) /\ ~Truncated(bytes, k)
      BY <2>2
    <3> QED BY <3>4, <3>5
  <2>3. CASE k \in Over
    <3>1. f[k] = <<>>
      BY <2>1, <2>3
    <3>2. k >= Len(bytes) \/ Truncated(bytes, k)
      BY <2>3
    <3> QED BY <3>1, <3>2
  <2> QED BY <2>2, <2>3
<1>6. f = [k \in 0 .. n |-> f[k]]
  OBVIOUS
<1>7. Decodes(f, bytes)
  BY <1>5, <1>6 DEF Decodes, n
<1> QED BY <1>7 DEF n

-----------------------------------------------------------------------------
(* What decodeUtf8 makes of a character, of a part of one, and of NULs.    *)

\* The code that is read where a part of a character stands.
LEMMA GroupsRead ==
  ASSUME NEW bytes \in Seq(Nat), NEW w, NEW c, CharOK(w, c),
         NEW p \in Nat, NEW m \in 1 .. Len(w), p + m <= Len(bytes),
         \A i \in 1 .. m : bytes[p + i] = w[i],
         m < Len(w) => \A i \in p + m + 1 .. Len(bytes) : bytes[i] = 0
  PROVE  CodePoint(bytes, p) = Partly(w, m)
<1>1. Len(w) \in 1 .. 4 /\ m \in 1 .. 4 /\ Extra(w[1]) = Len(w) - 1 /\ Len(bytes) \in Nat
  <2>1. Len(w) \in 1 .. 4 /\ Extra(w[1]) = Len(w) - 1
    BY DEF CharOK
  <2>2. \A a \in 1 .. 4 : \A b \in 1 .. a : b \in 1 .. 4
    OBVIOUS
  <2>3. m \in 1 .. 4
    BY <2>1, <2>2
  <2>4. Len(bytes) \in Nat
    OBVIOUS
  <2> QED BY <2>1, <2>3, <2>4
<1>2. bytes[p + 1] = w[1]
  BY <1>1
<1>3. ASSUME NEW i \in 1 .. 3, i < m PROVE SixBits(bytes, p + i) = Group(w, m, i)
  <2>1. i + 1 \in 1 .. m /\ p + (i + 1) = p + i + 1 /\ p + i < Len(bytes)
    BY <1>1, <1>3
  <2>2. bytes[p + i + 1] = w[i + 1]
    BY <2>1
  <2> QED BY <1>3, <2>1, <2>2 DEF SixBits, Group
<1>4. ASSUME NEW i \in 1 .. 3, ~(i < m), m < Len(w) PROVE SixBits(bytes, p + i) = Group(w, m, i)
  <2>1. CASE p + i < Len(bytes)
    <3>1. p + i + 1 \in p + m + 1 .. Len(bytes)
      BY <1>1, <1>4, <2>1
    <3>2. bytes[p + i + 1] = 0
      BY <1>4, <3>1
    <3>3. 0 % 64 = 0
      BY SMT
    <3> QED BY <1>4, <2>1, <3>2, <3>3 DEF SixBits, Group
  <2>2. CASE ~(p + i < Len(bytes))
    BY <1>4, <2>2 DEF SixBits, Group
  <2> QED BY <2>1, <2>2
<1>5. CodePoint(bytes, p) = Value(w[1], SixBits(bytes, p + 1), SixBits(bytes, p + 2),
                                  SixBits(bytes, p + 3))
  BY <1>2, ValueOf
<1>6. 1 \in 1 .. 3 /\ 2 \in 1 .. 3 /\ 3 \in 1 .. 3
  OBVIOUS
<1>7. CASE m < Len(w)
  <2>1. \A i \in 1 .. 3 : SixBits(bytes, p + i) = Group(w, m, i)
    BY <1>3, <1>4, <1>7
  <2> QED BY <1>5, <1>6, <2>1 DEF Partly
<1>8. CASE m = Len(w)
  <2>1. Extra(w[1]) = m - 1
    BY <1>1, <1>8
  <2>2. CASE m = 1
    BY <1>5, <2>1, <2>2 DEF Partly, Value
  <2>3. CASE m = 2
    <3>1. SixBits(bytes, p + 1) = Group(w, m, 1)
      BY <1>3, <1>6, <2>3
    <3> QED BY <1>5, <2>1, <2>3, <3>1 DEF Partly, Value
  <2>4. CASE m = 3
    <3>1. SixBits(bytes, p + 1) = Group(w, m, 1) /\ SixBits(bytes, p + 2) = Group(w, m, 2)
      BY <1>3, <1>6, <2>4
    <3> QED BY <1>5, <2>1, <2>4, <3>1 DEF Partly, Value
  <2>5. CASE m = 4
    <3>1. /\ SixBits(bytes, p + 1) = Group(w, m, 1) /\ SixBits(bytes, p + 2) = Group(w, m, 2)
          /\ SixBits(bytes, p + 3) = Group(w, m, 3)
      BY <1>3, <1>6, <2>5
    <3> QED BY <1>5, <3>1 DEF Partly
  <2> QED BY <1>1, <2>2, <2>3, <2>4, <2>5
<1> QED BY <1>1, <1>7, <1>8

\* A character of which the first m bytes are at p, with NULs for the others.
Placed(bytes, p, w, c, m) ==
  /\ CharOK(w, c) /\ m \in 1 .. Len(w) /\ p + Len(w) <= Len(bytes)
  /\ \A i \in 1 .. m : bytes[p + i] = w[i]
  /\ m < Len(w) => \A i \in p + m + 1 .. Len(bytes) : bytes[i] = 0

\* A turn of decodeUtf8 where a character, or a part of one, stands.
LEMMA ReadChar ==
  ASSUME NEW bytes \in Seq(Nat), NEW D, Decodes(D, bytes), NEW p \in Nat, NEW w, NEW c, NEW m,
         Placed(bytes, p, w, c, m)
  PROVE  D[p] = UnitsOf(Partly(w, m)) \o D[p + Len(w)]
<1>1. /\ Len(w) \in 1 .. 4 /\ m \in 1 .. 4 /\ Extra(w[1]) = Len(w) - 1 /\ Len(bytes) \in Nat
      /\ ~Stray(w[1]) /\ p + Len(w) <= Len(bytes)
  <2>1. Len(w) \in 1 .. 4 /\ Extra(w[1]) = Len(w) - 1 /\ ~Stray(w[1])
    BY DEF Placed, CharOK
  <2>2. \A a \in 1 .. 4 : \A b \in 1 .. a : b \in 1 .. 4
    OBVIOUS
  <2>3. m \in 1 .. 4 /\ p + Len(w) <= Len(bytes)
    BY <2>1, <2>2 DEF Placed
  <2>4. Len(bytes) \in Nat
    OBVIOUS
  <2> QED BY <2>1, <2>3, <2>4
<1>2. bytes[p + 1] = w[1]
  BY <1>1 DEF Placed
<1>3. p + m <= Len(bytes) /\ ~(p >= Len(bytes)) /\ p \in 0 .. Len(bytes) + 3
  BY <1>1 DEF Placed
<1>4. ~Truncated(bytes, p)
  BY <1>1, <1>2 DEF Truncated
<1>5. p + Extra(bytes[p + 1]) + 1 = p + Len(w)
  BY <1>1, <1>2
<1>6. CharAt(bytes, p) = UnitsOf(CodePoint(bytes, p))
  BY <1>1, <1>2 DEF CharAt
<1>7. CodePoint(bytes, p) = Partly(w, m)
  BY <1>3, GroupsRead DEF Placed
<1>8. D[p] = CharAt(bytes, p) \o D[p + Extra(bytes[p + 1]) + 1]
  BY <1>3, <1>4 DEF Decodes
<1> QED BY <1>5, <1>6, <1>7, <1>8

\* A character that the bytes end within.
LEMMA ReadCut ==
  ASSUME NEW bytes \in Seq(Nat), NEW D, Decodes(D, bytes), NEW w, NEW c, CharOK(w, c),
         NEW p \in Nat, p < Len(bytes), p + Len(w) > Len(bytes), bytes[p + 1] = w[1]
  PROVE  D[p] = <<>>
<1>1. Len(w) \in 1 .. 4 /\ Extra(w[1]) = Len(w) - 1 /\ Len(bytes) \in Nat
  BY DEF CharOK
<1>2. Truncated(bytes, p)
  BY <1>1 DEF Truncated
<1>3. p \in 0 .. Len(bytes) + 3
  BY <1>1
<1> QED BY <1>2, <1>3 DEF Decodes

\* A turn of decodeUtf8 on a NUL.
LEMMA ReadZero ==
  ASSUME NEW bytes \in Seq(Nat), NEW D, Decodes(D, bytes), NEW p \in Nat, p < Len(bytes),
         bytes[p + 1] = 0
  PROVE  D[p] = <<0>> \o D[p + 1]
<1>1. Within(0, 0, 1114111) /\ Within(0, 0, 127) /\ 0 < 128 /\ 0 <= 65535
  BY SMT DEF Within
<1>2. EncodeCode(0) = <<0>> /\ UnitsOf(0) = <<0>>
  BY <1>1, SMT DEF EncodeCode, UnitsOf
<1>3. Len(bytes) \in Nat /\ p + 1 <= Len(bytes) /\ \A i \in 1 .. 1 : bytes[p + i] = 0
  OBVIOUS
<1> DEFINE zero == 0
           nul == <<0>>
           one == 1
<1>4. CharOK(nul, zero) /\ Len(nul) = one /\ nul[1] = 0
  BY <1>1, <1>2, Char1
<1>5. Partly(nul, one) = zero
  BY <1>4 DEF CharOK
<1>6. /\ one \in 1 .. Len(nul) /\ p + Len(nul) <= Len(bytes)
      /\ \A i \in 1 .. one : bytes[p + i] = nul[i]
  BY <1>3
<1> HIDE DEF zero, nul, one
<1>7. one < Len(nul) => \A i \in p + one + 1 .. Len(bytes) : bytes[i] = 0
  <2>1. one \in Nat
    BY DEF one
  <2> QED BY <1>4, <2>1
<1>8. D[p] = UnitsOf(Partly(nul, one)) \o D[p + Len(nul)]
  <2>1. Placed(bytes, p, nul, zero, one)
    BY <1>4, <1>6, <1>7 DEF Placed
  <2> QED BY <2>1, ReadChar
<1> QED BY <1>2, <1>4, <1>5, <1>8 DEF nul, zero, one

\* n NULs.
Zeros(s, n) == s \in Seq(Nat) /\ Len(s) = n /\ \A i \in 1 .. n : s[i] = 0

\* Of NULs decodeUtf8 makes as many NULs.
LEMMA ReadZeros ==
  ASSUME NEW bytes \in Seq(Nat), NEW D \in [0 .. Len(bytes) + 3 -> Seq(Nat)], Decodes(D, bytes)
  PROVE  \A p \in 0 .. Len(bytes) :
           (\A i \in p + 1 .. Len(bytes) : bytes[i] = 0) => Zeros(D[p], Len(bytes) - p)
<1> DEFINE n == Len(bytes)
           N == {j \in Nat : \A p \in 0 .. n : n - p = j /\ (\A i \in p + 1 .. n : bytes[i] = 0)
                                              => Zeros(D[p], n - p)}
<1>0. n \in Nat
  OBVIOUS
<1>1. 0 \in N
  <2> SUFFICES ASSUME NEW p \in 0 .. n, n - p = 0 PROVE Zeros(D[p], n - p)
    OBVIOUS
  <2>1. p >= n /\ p \in 0 .. n + 3
    OBVIOUS
  <2>2. D[p] = <<>>
    BY <2>1 DEF Decodes
  <2> QED BY <2>2 DEF Zeros
<1>2. ASSUME NEW j \in N PROVE j + 1 \in N
  <2> SUFFICES ASSUME NEW p \in 0 .. n, n - p = j + 1, \A i \in p + 1 .. n : bytes[i] = 0
               PROVE  Zeros(D[p], n - p)
    OBVIOUS
  <2> DEFINE z == D[p + 1]
  <2>1. /\ p \in Nat /\ p + 1 \in 0 .. n /\ n - (p + 1) = j /\ p < n /\ p + 1 \in p + 1 .. n
        /\ \A i \in (p + 1) + 1 .. n : i \in p + 1 .. n
    OBVIOUS
  <2>2. Zeros(z, j)
    BY <2>1
  <2>3. D[p] = <<0>> \o z
    BY <2>1, ReadZero
  <2>4. j \in Nat
    OBVIOUS
  <2> HIDE DEF z, N, n
  <2>5. <<0>> \in Seq(Nat) /\ Len(<<0>>) = 1 /\ <<0>>[1] = 0
    OBVIOUS
  <2>6. Zeros(<<0>> \o z, j + 1)
    <3> DEFINE o == <<0>>
    <3>1. o \in Seq(Nat) /\ Len(o) = 1 /\ o[1] = 0
      BY <2>5
    <3> HIDE DEF o
    <3>2. /\ o \o z \in Seq(Nat) /\ Len(o \o z) = 1 + j
          /\ \A i \in 1 .. 1 + j : (o \o z)[i] = IF i <= 1 THEN o[i] ELSE z[i - 1]
      BY <2>2, <3>1, ConcatProperties DEF Zeros
    <3>3. ASSUME NEW i \in 1 .. j + 1 PROVE (o \o z)[i] = 0
      <4>1. i \in 1 .. 1 + j /\ (i <= 1 => i = 1) /\ (~(i <= 1) => i - 1 \in 1 .. j)
        BY <2>4
      <4> QED BY <2>2, <3>1, <3>2, <4>1 DEF Zeros
    <3>4. 1 + j = j + 1
      BY <2>4
    <3> QED BY <3>2, <3>3, <3>4 DEF Zeros, o
  <2> QED BY <2>3, <2>6
<1>3. N = Nat
  <2>1. N \in SUBSET Nat
    OBVIOUS
  <2> HIDE DEF N
  <2> QED BY <1>1, <1>2, <2>1, Induction
<1>4. \A p \in 0 .. n : n - p \in Nat
  BY <1>0
<1> QED BY <1>3, <1>4

-----------------------------------------------------------------------------
(* Decoding what encoding gives, or the beginning of it.                   *)

\* r is the text from index k on, and z NULs.
Gives(r, text, k, z) ==
  /\ Len(r) = (Len(text) - k) + z
  /\ \A i \in 1 .. Len(text) - k : r[i] = text[k + i]
  /\ \A i \in 1 .. Len(r) : i > Len(text) - k => r[i] = 0

\* r is the text from index k on, but for some units at its end.
Begins(r, text, k) ==
  /\ Len(r) < Len(text) - k
  /\ \A i \in 1 .. Len(r) : r[i] = text[k + i]

\* r is no document: a NUL is in it, or its last unit is not ASCII.
Spoilt(r) == \/ \E i \in 1 .. Len(r) : r[i] = 0
             \/ Len(r) > 0 /\ r[Len(r)] >= 128

\* What is read of the m first bytes of the l that the text has from index k
\* on, when z NULs follow them.
ReadOK(r, text, k, l, m, z) ==
  /\ m = l => Gives(r, text, k, z)
  /\ m < l => /\ z = 0 => Begins(r, text, k)
              /\ Begins(r, text, k) \/ Spoilt(r)

\* Units of the text put before what was read leave it what it is.
LEMMA Prepended ==
  ASSUME NEW text \in Seq(Nat), NEW k \in Nat, NEW h \in Nat, k < h, h <= Len(text),
         NEW u \in Seq(Nat), Len(u) = h - k, \A i \in 1 .. h - k : u[i] = text[k + i],
         NEW r \in Seq(Nat), NEW z \in Nat
  PROVE  /\ Gives(r, text, h, z) => Gives(u \o r, text, k, z)
         /\ Begins(r, text, h) => Begins(u \o r, text, k)
         /\ Spoilt(r) => Spoilt(u \o r)
<1> DEFINE n == Len(text)
           a == Len(u)
           b == Len(r)
           v == u \o r
<1>1. /\ Len(v) = a + b /\ a = h - k /\ a \in Nat /\ b \in Nat /\ n \in Nat /\ a > 0 /\ h <= n
      /\ \A i \in 1 .. a + b : v[i] = IF i <= a THEN u[i] ELSE r[i - a]
      /\ \A i \in 1 .. a : u[i] = text[k + i]
  <2>1. \A i \in 1 .. Len(u) + Len(r) : v[i] = IF i <= Len(u) THEN u[i] ELSE r[i - Len(u)]
    BY ConcatProperties
  <2>2. Len(v) = Len(u) + Len(r)
    BY ConcatProperties
  <2>3. a = h - k /\ a \in Nat /\ b \in Nat /\ n \in Nat /\ a > 0 /\ h <= n
    <3>1. Len(r) \in Nat /\ Len(text) \in Nat
      OBVIOUS
    <3> QED BY <3>1
  <2>4. \A i \in 1 .. a : u[i] = text[k + i]
    <3> HIDE DEF a
    <3> QED BY <2>3
  <2>5. Len(v) = a + b /\ \A i \in 1 .. a + b : v[i] = IF i <= a THEN u[i] ELSE r[i - a]
    <3> HIDE DEF v
    <3> QED BY <2>1, <2>2
  <2> HIDE DEF n, a, b, v
  <2> QED BY <2>3, <2>4, <2>5
<1> HIDE DEF n, a, b, v
<1>2. \A i \in 1 .. a + b : /\ i <= a => i \in 1 .. a
                            /\ ~(i <= a) => i - a \in 1 .. b /\ h + (i - a) = k + i
  BY <1>1
<1>3. ASSUME Gives(r, text, h, z) PROVE Gives(v, text, k, z)
  <2>1. /\ b = (n - h) + z
        /\ \A i \in 1 .. n - h : r[i] = text[h + i]
        /\ \A i \in 1 .. b : i > n - h => r[i] = 0
    BY <1>3 DEF Gives, b, n
  <2>2. Len(v) = (n - k) + z
    BY <1>1, <2>1
  <2>3. ASSUME NEW i \in 1 .. n - k PROVE v[i] = text[k + i]
    <3>1. i \in 1 .. a + b
      BY <1>1, <2>1
    <3>2. CASE i <= a
      BY <1>1, <1>2, <3>1, <3>2
    <3>3. CASE ~(i <= a)
      <4>1. i - a \in 1 .. n - h
        BY <1>1, <3>3
      <4>2. r[i - a] = text[h + (i - a)]
        BY <2>1, <4>1
      <4> QED BY <1>1, <1>2, <3>1, <3>3, <4>2
    <3> QED BY <3>2, <3>3
  <2>4. ASSUME NEW i \in 1 .. a + b, i > n - k PROVE v[i] = 0
    <3>1. ~(i <= a) /\ i - a > n - h
      BY <1>1, <2>4
    <3>2. i - a \in 1 .. b
      BY <1>2, <3>1
    <3>3. r[i - a] = 0
      BY <2>1, <3>1, <3>2
    <3> QED BY <1>1, <3>1, <3>3
  <2> QED BY <1>1, <2>2, <2>3, <2>4 DEF Gives, n
<1>4. ASSUME Begins(r, text, h) PROVE Begins(v, text, k)
  <2>1. b < n - h /\ \A i \in 1 .. b : r[i] = text[h + i]
    BY <1>4 DEF Begins, b, n
  <2>2. a + b < n - k
    BY <1>1, <2>1
  <2>3. ASSUME NEW i \in 1 .. a + b PROVE v[i] = text[k + i]
    BY <1>1, <1>2, <2>1
  <2> QED BY <1>1, <2>2, <2>3 DEF Begins, n
<1>5. ASSUME Spoilt(r) PROVE Spoilt(v)
  <2>1. ASSUME NEW j \in 1 .. b PROVE j + a \in 1 .. a + b /\ v[j + a] = r[j]
    <3>1. j + a \in 1 .. a + b /\ ~(j + a <= a) /\ (j + a) - a = j
      BY <1>1
    <3> QED BY <1>1, <3>1
  <2>2. CASE \E i \in 1 .. b : r[i] = 0
    <3>1. PICK i \in 1 .. b : r[i] = 0
      BY <2>2
    <3>2. i + a \in 1 .. Len(v) /\ v[i + a] = 0
      BY <1>1, <2>1, <3>1
    <3> QED BY <3>2 DEF Spoilt
  <2>3. CASE b > 0 /\ r[b] >= 128
    <3>1. b \in 1 .. b /\ b + a = Len(v) /\ Len(v) > 0
      BY <1>1, <2>3
    <3>2. v[Len(v)] >= 128
      BY <2>1, <2>3, <3>1
    <3> QED BY <3>1, <3>2 DEF Spoilt
  <2> QED BY <1>5, <2>2, <2>3 DEF Spoilt, b
<1> QED BY <1>3, <1>4, <1>5 DEF v

\* What is read of a character and of the text behind it.
LEMMA ReadOKPrepended ==
  ASSUME NEW text \in Seq(Nat), NEW k \in Nat, NEW h \in Nat, k < h, h <= Len(text),
         NEW u \in Seq(Nat), Len(u) = h - k, \A i \in 1 .. h - k : u[i] = text[k + i],
         NEW r \in Seq(Nat), NEW z \in Nat, NEW l \in Nat, NEW m \in Nat, NEW x \in Nat,
         ReadOK(r, text, h, l, m, z)
  PROVE  ReadOK(u \o r, text, k, x + l, x + m, z)
<1>1. /\ Gives(r, text, h, z) => Gives(u \o r, text, k, z)
      /\ Begins(r, text, h) => Begins(u \o r, text, k)
      /\ Spoilt(r) => Spoilt(u \o r)
  BY Prepended
<1>2. (x + m = x + l => m = l) /\ (x + m < x + l => m < l)
  OBVIOUS
<1> QED BY <1>1, <1>2 DEF ReadOK

\* Only NULs are there.
LEMMA ZerosOK ==
  ASSUME NEW text \in Seq(Nat), NEW k \in 0 .. Len(text), NEW r, NEW z \in Nat, Zeros(r, z),
         NEW l \in Nat, l = 0 <=> k = Len(text)
  PROVE  ReadOK(r, text, k, l, 0, z)
<1>1. /\ r \in Seq(Nat) /\ Len(r) = z /\ \A i \in 1 .. z : r[i] = 0
      /\ Len(text) \in Nat
  BY DEF Zeros
<1>2. CASE l = 0
  <2>1. Len(text) - k = 0
    BY <1>1, <1>2
  <2>2. Gives(r, text, k, z)
    BY <1>1, <2>1 DEF Gives
  <2> QED BY <1>2, <2>2 DEF ReadOK
<1>3. CASE l # 0
  <2>1. Len(text) - k > 0
    BY <1>1, <1>3
  <2>2. z = 0 => Begins(r, text, k)
    BY <1>1, <2>1 DEF Begins
  <2>3. z # 0 => Spoilt(r)
    <3>1. z # 0 => 1 \in 1 .. z
      OBVIOUS
    <3> QED BY <1>1, <3>1 DEF Spoilt
  <2> QED BY <1>3, <2>2, <2>3 DEF ReadOK
<1> QED BY <1>2, <1>3

\* What is left of a character, with NULs for the other bytes of it and after it.
LEMMA LeftOver ==
  ASSUME NEW q \in Nat, q = 0 \/ q >= 128, NEW r, NEW y \in Nat, Zeros(r, y)
  PROVE  Spoilt(UnitsOf(q) \o r)
<1> DEFINE u == UnitsOf(q)
           v == u \o r
           a == Len(u)
<1>1. /\ u \in Seq(Nat) /\ a \in 1 .. 2 /\ (q = 0 => u[1] = 0) /\ (q >= 128 => u[a] >= 128)
  BY UnitsRead
<1>2. r \in Seq(Nat) /\ Len(r) = y /\ \A i \in 1 .. y : r[i] = 0
  BY DEF Zeros
<1> HIDE DEF u
<1>3. /\ Len(v) = a + y
      /\ \A i \in 1 .. a + y : v[i] = IF i <= a THEN u[i] ELSE r[i - a]
  <2>1. /\ Len(u \o r) = Len(u) + Len(r)
        /\ \A i \in 1 .. Len(u) + Len(r) : (u \o r)[i] = IF i <= Len(u) THEN u[i] ELSE r[i - Len(u)]
    BY <1>1, <1>2, ConcatProperties
  <2> QED BY <1>2, <2>1
<1> HIDE DEF v, a
<1>4. CASE q = 0
  <2>1. 1 \in 1 .. Len(v) /\ v[1] = 0
    BY <1>1, <1>3, <1>4
  <2> QED BY <2>1 DEF Spoilt, v, u
<1>5. CASE q >= 128 /\ y = 0
  <2>1. Len(v) = a /\ Len(v) > 0 /\ v[a] = u[a]
    BY <1>1, <1>3, <1>5
  <2>2. v[Len(v)] >= 128
    BY <1>1, <1>5, <2>1
  <2> QED BY <2>1, <2>2 DEF Spoilt, v, u
<1>6. CASE y # 0
  <2>1. a + 1 \in 1 .. Len(v) /\ (a + 1) - a = 1 /\ ~(a + 1 <= a) /\ 1 \in 1 .. y
    BY <1>1, <1>3, <1>6
  <2>2. v[a + 1] = 0
    BY <1>2, <1>3, <2>1
  <2> QED BY <2>1, <2>2 DEF Spoilt, v, u
<1> QED BY <1>4, <1>5, <1>6

\* The bytes from p on are the first m of s, and NULs.
Agrees(bytes, p, s, m) ==
  /\ m \in Nat /\ p \in Nat /\ m <= Len(s) /\ p + m <= Len(bytes)
  /\ \A i \in 1 .. m : bytes[p + i] = s[i]
  /\ \A i \in p + m + 1 .. Len(bytes) : bytes[i] = 0

\* Of a character, m bytes are at p, but not all.
Cut(bytes, p, w, c, m) == CharOK(w, c) /\ m \in 1 .. Len(w) - 1 /\ Agrees(bytes, p, w, m)

\* A part of a character with room for all of it is read as a whole one, the
\* code of which is 0 or not ASCII.
LEMMA CutPlaced ==
  ASSUME NEW bytes \in Seq(Nat), NEW p \in Nat, NEW w, NEW c, NEW m, Cut(bytes, p, w, c, m),
         p + Len(w) <= Len(bytes)
  PROVE  /\ Placed(bytes, p, w, c, m) /\ Partly(w, m) \in Nat
         /\ Partly(w, m) = 0 \/ Partly(w, m) >= 128
         /\ p + Len(w) \in 0 .. Len(bytes) /\ Len(bytes) - p - m # 0
         /\ \A i \in p + Len(w) + 1 .. Len(bytes) : bytes[i] = 0
<1> DEFINE x == Len(w)
<1>1. x \in 1 .. 4 /\ m \in 1 .. x - 1
  BY DEF Cut, CharOK
<1>2. Partly(w, m) \in Nat /\ (Partly(w, m) = 0 \/ Partly(w, m) >= 128)
  BY DEF Cut, CharOK
<1>3. /\ \A i \in 1 .. m : bytes[p + i] = w[i]
      /\ \A i \in p + m + 1 .. Len(bytes) : bytes[i] = 0
  BY DEF Cut, Agrees
<1>4. Len(bytes) \in Nat /\ p + x <= Len(bytes) /\ CharOK(w, c)
  BY DEF Cut
<1> HIDE DEF x
<1>5. m \in Nat /\ m \in 1 .. x /\ m < x /\ m >= 1
  BY <1>1
<1>6. p + x \in 0 .. Len(bytes) /\ Len(bytes) - p - m # 0
  BY <1>1, <1>4, <1>5
<1>7. \A i \in p + x + 1 .. Len(bytes) : i \in p + m + 1 .. Len(bytes)
  BY <1>1, <1>4, <1>5
<1>8. Placed(bytes, p, w, c, m)
  BY <1>3, <1>4, <1>5 DEF Placed, x
<1> QED BY <1>2, <1>3, <1>6, <1>7, <1>8 DEF x

\* What is read of such a part spoils the string.
LEMMA CutSpoilt ==
  ASSUME NEW bytes \in Seq(Nat), NEW D \in [0 .. Len(bytes) + 3 -> Seq(Nat)], Decodes(D, bytes),
         NEW p \in Nat, NEW w, NEW c, NEW m, Cut(bytes, p, w, c, m), p + Len(w) <= Len(bytes)
  PROVE  Spoilt(D[p])
<1> DEFINE q == Partly(w, m)
           r == D[p + Len(w)]
           y == Len(bytes) - (p + Len(w))
<1>1. Placed(bytes, p, w, c, m) /\ q \in Nat /\ (q = 0 \/ q >= 128)
  BY CutPlaced
<1>2. UnitsOf(q) \o r = D[p]
  BY <1>1, ReadChar
<1>3. /\ p + Len(w) \in 0 .. Len(bytes)
      /\ \A i \in p + Len(w) + 1 .. Len(bytes) : bytes[i] = 0
  BY CutPlaced
<1>4. Zeros(r, y)
  BY <1>3, ReadZeros
<1>5. y \in Nat
  BY <1>3
<1> HIDE DEF q, r, y
<1>6. Spoilt(UnitsOf(q) \o r)
  BY <1>1, <1>4, <1>5, LeftOver
<1> QED BY <1>2, <1>6

\* What is read of a part of a character.
LEMMA CutRead ==
  ASSUME NEW bytes \in Seq(Nat), NEW D \in [0 .. Len(bytes) + 3 -> Seq(Nat)], Decodes(D, bytes),
         NEW p \in Nat, NEW w, NEW c, NEW m, Cut(bytes, p, w, c, m),
         NEW text \in Seq(Nat), NEW k \in Nat, k < Len(text), NEW l, m # l
  PROVE  ReadOK(D[p], text, k, l, m, Len(bytes) - p - m)
<1>1. CASE p + Len(w) > Len(bytes)
  <2>1. CharOK(w, c) /\ Len(w) \in 1 .. 4 /\ m \in 1 .. Len(w) - 1 /\ p + m <= Len(bytes)
    BY DEF Cut, Agrees, CharOK
  <2>2. p < Len(bytes) /\ 1 \in 1 .. m
    <3>1. m \in Int /\ m >= 1
      BY <2>1
    <3> QED BY <2>1, <3>1
  <2>3. bytes[p + 1] = w[1]
    BY <2>2 DEF Cut, Agrees
  <2>4. D[p] = <<>>
    BY <1>1, <2>1, <2>2, <2>3, ReadCut
  <2>5. Begins(<<>>, text, k)
    BY DEF Begins
  <2> QED BY <2>4, <2>5 DEF ReadOK
<1>2. CASE ~(p + Len(w) > Len(bytes))
  <2>0. Len(w) \in 1 .. 4
    BY DEF Cut, CharOK
  <2>1. p + Len(w) <= Len(bytes)
    BY <1>2, <2>0
  <2>2. Spoilt(D[p])
    BY <2>1, CutSpoilt
  <2>3. Len(bytes) - p - m # 0
    BY <2>1, CutPlaced
  <2> QED BY <2>2, <2>3 DEF ReadOK
<1> QED BY <1>1, <1>2

\* The bytes y are those of w and then those of s.
Joined(w, s, y) == w \in Seq(Nat) /\ s \in Seq(Nat) /\ y = w \o s

\* Bytes that agree with those of a character and of the text behind it.
LEMMA AgreesAhead ==
  ASSUME NEW bytes \in Seq(Nat), NEW w, NEW s, NEW y, Joined(w, s, y),
         NEW p, NEW m, Agrees(bytes, p, y, m)
  PROVE  /\ m >= Len(w) => /\ Agrees(bytes, p + Len(w), s, m - Len(w))
                           /\ \A i \in 1 .. Len(w) : bytes[p + i] = w[i]
         /\ m < Len(w) => \A i \in 1 .. m : bytes[p + i] = w[i]
<1> DEFINE a == Len(w)
           b == Len(s)
<1>0. w \in Seq(Nat) /\ s \in Seq(Nat) /\ y = w \o s
  BY DEF Joined
<1>1. a \in Nat /\ b \in Nat /\ Len(bytes) \in Nat
  BY <1>0
<1>2. /\ Len(y) = a + b
      /\ \A i \in 1 .. a + b : y[i] = IF i <= a THEN w[i] ELSE s[i - a]
  BY <1>0, ConcatProperties
<1>3. /\ m \in Nat /\ p \in Nat /\ m <= Len(y) /\ p + m <= Len(bytes)
      /\ \A i \in 1 .. m : bytes[p + i] = y[i]
      /\ \A i \in p + m + 1 .. Len(bytes) : bytes[i] = 0
  BY DEF Agrees
<1> HIDE DEF a, b
<1>4. ASSUME NEW i \in 1 .. m, i <= a PROVE bytes[p + i] = w[i]
  <2>1. i \in 1 .. a + b
    BY <1>1, <1>2, <1>3, <1>4
  <2> QED BY <1>2, <1>3, <1>4, <2>1
<1>5. ASSUME m >= a
      PROVE  /\ Agrees(bytes, p + a, s, m - a)
             /\ \A i \in 1 .. a : bytes[p + i] = w[i]
  <2>1. m - a \in Nat /\ p + a \in Nat /\ m - a <= b /\ (p + a) + (m - a) = p + m
    BY <1>1, <1>2, <1>3, <1>5
  <2>2. ASSUME NEW i \in 1 .. m - a PROVE bytes[(p + a) + i] = s[i]
    <3>1. /\ i + a \in 1 .. m /\ i + a \in 1 .. a + b /\ ~(i + a <= a) /\ (i + a) - a = i
          /\ p + (i + a) = (p + a) + i
      BY <1>1, <1>2, <1>3, <1>5
    <3> QED BY <1>2, <1>3, <3>1
  <2>3. \A i \in 1 .. a : i \in 1 .. m /\ i <= a
    BY <1>1, <1>3, <1>5
  <2>4. Agrees(bytes, p + a, s, m - a)
    BY <1>3, <2>1, <2>2 DEF Agrees, b
  <2> QED BY <1>4, <2>3, <2>4
<1>6. ASSUME m < a PROVE \A i \in 1 .. m : i <= a
  BY <1>1, <1>3, <1>6
<1> QED BY <1>4, <1>5, <1>6 DEF a

\* The character at index k of a text: its code, its bytes, the index of the
\* next one, the bytes from there on, its code units, and all the bytes.
Ahead(text, k, c, w, h, s, u, y) ==
  /\ CharOK(w, c) /\ Joined(w, s, y) /\ Len(w) > 0
  /\ h \in Nat /\ k < h /\ h <= Len(text)
  /\ u = UnitsOf(c) /\ u \in Seq(Nat) /\ Len(u) = h - k
  /\ \A i \in 1 .. h - k : u[i] = text[k + i]

\* A turn of encodeUtf8: a character, and what the next turns give.
LEMMA EncodeStep ==
  ASSUME NEW text, Text(text), NEW E \in [0 .. Len(text) -> Seq(Nat)], Encodes(E, text),
         NEW k \in Nat, k < Len(text)
  PROVE  \E c, w, h, s, u : Ahead(text, k, c, w, h, s, u, E[k]) /\ s = E[h]
<1> DEFINE c == CodeAt(text, k)
           w == EncodeCode(c)
           h == StepFrom(text, k)
           s == E[h]
           u == UnitsOf(c)
           y == E[k]
<1>0. text \in Seq(Nat) /\ Len(text) \in Nat
  <2>1. text \in Seq(Nat)
    BY DEF Text
  <2> QED BY <2>1
<1>1. /\ Within(c, 0, 1114111) /\ h \in Nat /\ k < h /\ h <= Len(text)
      /\ u \in Seq(Nat) /\ Len(u) = h - k
      /\ \A i \in 1 .. h - k : u[i] = text[k + i]
  BY CodeOf
<1>2. h \in 0 .. Len(text) /\ k \in 0 .. Len(text) /\ k # Len(text)
  BY <1>0, <1>1
<1>3. y = w \o s
  BY <1>2 DEF Encodes
<1>4. CharOK(w, c)
  BY <1>1, Chars
<1>5. w \in Seq(Nat) /\ Len(w) > 0
  <2>1. w \in Seq(Nat) /\ Len(w) \in 1 .. 4
    BY <1>4 DEF CharOK
  <2> HIDE DEF w
  <2> QED BY <2>1
<1>6. s \in Seq(Nat)
  BY <1>2
<1>7. u = UnitsOf(c) /\ s = E[h] /\ h = StepFrom(text, k)
  OBVIOUS
<1> HIDE DEF c, w, h, s, u, y
<1>8. Ahead(text, k, c, w, h, s, u, y)
  BY <1>1, <1>3, <1>4, <1>5, <1>6, <1>7 DEF Ahead, Joined
<1> QED BY <1>7, <1>8 DEF y

\* What is read of any number of the bytes s that the text from index k on has.
Reads(D, bytes, text, s, k) ==
  \A p, m : Agrees(bytes, p, s, m) => ReadOK(D[p], text, k, Len(s), m, Len(bytes) - p - m)

\* The induction where no byte of the text is there.
LEMMA ReadNothing ==
  ASSUME NEW bytes \in Seq(Nat), NEW D \in [0 .. Len(bytes) + 3 -> Seq(Nat)], Decodes(D, bytes),
         NEW text \in Seq(Nat), NEW k \in 0 .. Len(text), NEW s \in Seq(Nat),
         Len(s) = 0 <=> k = Len(text), NEW p, Agrees(bytes, p, s, 0)
  PROVE  ReadOK(D[p], text, k, Len(s), 0, Len(bytes) - p - 0)
<1>1. p \in Nat /\ p + 0 <= Len(bytes) /\ \A i \in p + 0 + 1 .. Len(bytes) : bytes[i] = 0
  BY DEF Agrees
<1>2. /\ p \in 0 .. Len(bytes) /\ \A i \in p + 1 .. Len(bytes) : bytes[i] = 0
      /\ Len(bytes) - p \in Nat
      /\ Len(bytes) - p - 0 = Len(bytes) - p
  BY <1>1
<1>3. Zeros(D[p], Len(bytes) - p)
  BY <1>2, ReadZeros
<1> DEFINE z == Len(bytes) - p
           l == Len(s)
           r == D[p]
<1>4. Zeros(r, z) /\ z \in Nat /\ l \in Nat /\ (l = 0 <=> k = Len(text))
  BY <1>2, <1>3
<1> HIDE DEF z, l, r
<1>5. ReadOK(r, text, k, l, 0, z)
  BY <1>4, ZerosOK
<1> QED BY <1>2, <1>5 DEF z, l, r

\* The induction where a part of the next character is there.
LEMMA ReadsPart ==
  ASSUME NEW bytes \in Seq(Nat), NEW D \in [0 .. Len(bytes) + 3 -> Seq(Nat)], Decodes(D, bytes),
         NEW text \in Seq(Nat), NEW k \in Nat, NEW c, NEW w, NEW h, NEW s, NEW u, NEW y,
         Ahead(text, k, c, w, h, s, u, y), NEW p, NEW m, Agrees(bytes, p, y, m),
         m # 0, m < Len(w)
  PROVE  ReadOK(D[p], text, k, Len(y), m, Len(bytes) - p - m)
<1>1. /\ CharOK(w, c) /\ w \in Seq(Nat) /\ s \in Seq(Nat) /\ Len(w) \in Nat /\ Len(w) > 0
      /\ h \in Nat /\ k < h /\ h <= Len(text) /\ y = w \o s
  BY DEF Ahead, Joined
<1>2. /\ m \in Nat /\ p \in Nat /\ p + m <= Len(bytes)
      /\ \A i \in p + m + 1 .. Len(bytes) : bytes[i] = 0
  BY DEF Agrees
<1>3. \A i \in 1 .. m : bytes[p + i] = w[i]
  <2>1. Joined(w, s, y)
    BY DEF Ahead
  <2> QED BY <2>1, AgreesAhead
<1>4. m <= Len(w) /\ m \in 1 .. Len(w) - 1
  <2>1. Len(w) \in Nat /\ Len(w) > 0 /\ m \in Nat
    BY <1>1, <1>2
  <2> QED BY <2>1
<1>5. Agrees(bytes, p, w, m)
  BY <1>2, <1>3, <1>4 DEF Agrees
<1>6. Cut(bytes, p, w, c, m)
  BY <1>1, <1>4, <1>5 DEF Cut
<1>7. Len(y) = Len(w) + Len(s)
  BY <1>1, ConcatProperties
<1>8. m # Len(y) /\ k < Len(text)
  <2>1. Len(w) \in Nat /\ Len(w) > 0 /\ h \in Nat /\ k < h /\ h <= Len(text) /\ s \in Seq(Nat)
    BY <1>1
  <2>2. m \in Nat
    BY <1>2
  <2>3. Len(s) \in Nat /\ Len(text) \in Nat
    BY <2>1, LenProperties
  <2> QED BY <1>7, <2>1, <2>2, <2>3
<1> QED BY <1>2, <1>6, <1>8, CutRead

\* What is read at p is the code units u, then what is read at q.
Continues(D, p, u, q) == D[p] = u \o D[q]

\* A character all of which is there.
LEMMA ReadCharWhole ==
  ASSUME NEW bytes \in Seq(Nat), NEW D, Decodes(D, bytes), NEW p \in Nat, NEW w, NEW c,
         Placed(bytes, p, w, c, Len(w))
  PROVE  Continues(D, p, UnitsOf(c), p + Len(w))
<1> DEFINE m == Len(w)
           q == Partly(w, m)
           r == D[p + Len(w)]
<1>1. Placed(bytes, p, w, c, m)
  OBVIOUS
<1>2. UnitsOf(q) \o r = D[p]
  <2>1. UnitsOf(Partly(w, m)) \o D[p + Len(w)] = D[p]
    <3> HIDE DEF m, q, r
    <3> QED BY <1>1, ReadChar
  <2> QED BY <2>1
<1>3. q = c
  BY DEF Placed, CharOK
<1> HIDE DEF q, r, m
<1>4. UnitsOf(c) \o r = D[p]
  BY <1>2, <1>3
<1> QED BY <1>4 DEF r, Continues

\* The induction where the next character is there.
LEMMA ReadsWhole ==
  ASSUME NEW bytes \in Seq(Nat), NEW D \in [0 .. Len(bytes) + 3 -> Seq(Nat)], Decodes(D, bytes),
         NEW text \in Seq(Nat), NEW k \in Nat, NEW c, NEW w, NEW h, NEW s, NEW u, NEW y,
         Ahead(text, k, c, w, h, s, u, y), NEW p \in Nat, NEW m, Agrees(bytes, p, y, m),
         m >= Len(w), Reads(D, bytes, text, s, h)
  PROVE  ReadOK(D[p], text, k, Len(y), m, Len(bytes) - p - m)
<1> DEFINE a == Len(w)
           b == Len(s)
           t == m - a
           v == p + a
           r == D[v]
           z == Len(bytes) - p - m
<1>1. /\ CharOK(w, c) /\ w \in Seq(Nat) /\ s \in Seq(Nat) /\ a \in Nat /\ a > 0
      /\ h \in Nat /\ k < h /\ h <= Len(text)
      /\ u = UnitsOf(c) /\ u \in Seq(Nat) /\ Len(u) = h - k
      /\ \A i \in 1 .. h - k : u[i] = text[k + i]
      /\ y = w \o s
  BY DEF Ahead, Joined
<1>2. m \in Nat /\ p \in Nat /\ p + m <= Len(bytes) /\ Len(bytes) \in Nat /\ b \in Nat
  <2>1. m \in Nat /\ p \in Nat /\ p + m <= Len(bytes)
    BY DEF Agrees
  <2>2. b \in Nat
    BY <1>1
  <2> QED BY <2>1, <2>2
<1>3. Agrees(bytes, v, s, t) /\ \A i \in 1 .. a : bytes[p + i] = w[i]
  <2>1. Joined(w, s, y)
    BY DEF Ahead
  <2> HIDE DEF r, z
  <2> QED BY <2>1, AgreesAhead
<1>4. m >= a
  OBVIOUS
<1>5. Len(y) = a + b
  BY <1>1, ConcatProperties
<1> HIDE DEF a, b
<1>6. /\ t \in Nat /\ v \in 0 .. Len(bytes) /\ v \in 0 .. Len(bytes) + 3 /\ z \in Nat
      /\ a + t = m /\ Len(bytes) - v - t = z
  <2>1. a \in Nat /\ m \in Nat /\ p \in Nat /\ p + m <= Len(bytes) /\ Len(bytes) \in Nat /\ m >= a
    BY <1>1, <1>2, <1>4
  <2> HIDE DEF r
  <2> QED BY <2>1
<1>7. D[p] = u \o r
  <2>1. p + a <= Len(bytes) /\ a \in 1 .. a /\ ~(a < a)
    BY <1>1, <1>6
  <2>2. Placed(bytes, p, w, c, a)
    <3> HIDE DEF t, v, r, z
    <3> QED BY <1>1, <1>2, <1>3, <2>1 DEF Placed, a
  <2>3. Placed(bytes, p, w, c, Len(w))
    BY <2>2 DEF a
  <2>4. Continues(D, p, UnitsOf(c), p + Len(w))
    <3> HIDE DEF t, v, r, z
    <3> QED BY <2>3, ReadCharWhole
  <2> QED BY <1>1, <2>4 DEF a, Continues
<1>8. r \in Seq(Nat)
  BY <1>6
<1>9. ReadOK(r, text, h, b, t, z)
  <2>1. ReadOK(D[v], text, h, Len(s), t, Len(bytes) - v - t)
    <3> HIDE DEF v, t
    <3> QED BY <1>3 DEF Reads
  <2> HIDE DEF v, t, z
  <2> QED BY <1>6, <2>1 DEF b
<1> HIDE DEF t, v, r, z
<1>10. a \in Nat
  BY <1>1
<1>11. ReadOK(u \o r, text, k, a + b, a + t, z)
  BY <1>1, <1>2, <1>6, <1>8, <1>9, <1>10, ReadOKPrepended
<1>12. ReadOK(D[p], text, k, Len(y), m, z)
  BY <1>5, <1>6, <1>7, <1>11
<1> QED BY <1>12 DEF z

\* The induction: from the bytes behind a character to those from it on.
LEMMA ReadsStep ==
  ASSUME NEW bytes \in Seq(Nat), NEW D \in [0 .. Len(bytes) + 3 -> Seq(Nat)], Decodes(D, bytes),
         NEW text \in Seq(Nat), NEW k \in Nat, NEW c, NEW w, NEW h, NEW s, NEW u, NEW y,
         Ahead(text, k, c, w, h, s, u, y), Reads(D, bytes, text, s, h)
  PROVE  Reads(D, bytes, text, y, k)
<1> SUFFICES ASSUME NEW p, NEW m, Agrees(bytes, p, y, m)
             PROVE  ReadOK(D[p], text, k, Len(y), m, Len(bytes) - p - m)
  BY DEF Reads
<1>1. /\ w \in Seq(Nat) /\ s \in Seq(Nat) /\ Len(w) \in Nat /\ Len(w) > 0
      /\ h \in Nat /\ k < h /\ h <= Len(text) /\ y = w \o s
  BY DEF Ahead, Joined
<1>2. y \in Seq(Nat) /\ Len(y) = Len(w) + Len(s)
  BY <1>1, ConcatProperties
<1>3. Len(y) # 0 /\ k \in 0 .. Len(text) /\ k # Len(text)
  <2>1. Len(s) \in Nat /\ Len(text) \in Nat
    BY <1>1
  <2>2. Len(w) \in Nat /\ Len(w) > 0 /\ Len(y) = Len(w) + Len(s) /\ h \in Nat /\ k < h /\ h <= Len(text)
    BY <1>1, <1>2
  <2> QED BY <2>1, <2>2
<1>4. m \in Nat /\ p \in Nat /\ Agrees(bytes, p, y, m)
  BY DEF Agrees
<1>5. CASE m = 0
  <2>1. Agrees(bytes, p, y, 0)
    BY <1>4, <1>5
  <2>2. ReadOK(D[p], text, k, Len(y), 0, Len(bytes) - p - 0)
    BY <1>2, <1>3, <2>1, ReadNothing
  <2> QED BY <1>5, <2>2
<1>6. CASE m # 0 /\ m < Len(w)
  BY <1>6, ReadsPart
<1>7. CASE m >= Len(w)
  BY <1>4, <1>7, ReadsWhole
<1>8. m = 0 \/ (m # 0 /\ m < Len(w)) \/ m >= Len(w)
  BY <1>1, <1>4
<1> QED BY <1>5, <1>6, <1>7, <1>8

\* What is read of any number of the bytes from any character on.
LEMMA ReadsAll ==
  ASSUME NEW text, Text(text), NEW E \in [0 .. Len(text) -> Seq(Nat)], Encodes(E, text),
         NEW bytes \in Seq(Nat), NEW D \in [0 .. Len(bytes) + 3 -> Seq(Nat)], Decodes(D, bytes)
  PROVE  \A k \in 0 .. Len(text) : Reads(D, bytes, text, E[k], k)
<1> DEFINE n == Len(text)
           N == {j \in Nat : \A k \in 0 .. n : n - k <= j => Reads(D, bytes, text, E[k], k)}
<1>0. n \in Nat /\ text \in Seq(Nat)
  BY DEF Text
<1>1. Reads(D, bytes, text, E[n], n)
  <2>1. n \in 0 .. n
    BY <1>0
  <2>2. E[n] = <<>>
    BY <2>1 DEF Encodes
  <2> SUFFICES ASSUME NEW p, NEW m, Agrees(bytes, p, E[n], m)
               PROVE  ReadOK(D[p], text, n, Len(E[n]), m, Len(bytes) - p - m)
    BY DEF Reads
  <2>3. m = 0 /\ Len(<<>>) = 0 /\ <<>> \in Seq(Nat)
    BY <2>2 DEF Agrees
  <2>4. Agrees(bytes, p, <<>>, 0)
    BY <2>2, <2>3
  <2> DEFINE s == <<>>
  <2>5. s \in Seq(Nat) /\ Agrees(bytes, p, s, 0) /\ (Len(s) = 0 <=> n = Len(text)) /\ E[n] = s
    BY <2>2, <2>3, <2>4
  <2> HIDE DEF s
  <2>6. ReadOK(D[p], text, n, Len(s), 0, Len(bytes) - p - 0)
    BY <1>0, <2>1, <2>5, ReadNothing
  <2> QED BY <2>3, <2>5, <2>6
<1>2. 0 \in N
  <2>1. \A k \in 0 .. n : n - k <= 0 => k = n
    BY <1>0
  <2> QED BY <1>1, <2>1
<1>3. ASSUME NEW j \in N PROVE j + 1 \in N
  <2> SUFFICES ASSUME NEW k \in 0 .. n, n - k <= j + 1 PROVE Reads(D, bytes, text, E[k], k)
    OBVIOUS
  <2>1. CASE k = n
    BY <1>1, <2>1
  <2>2. CASE k # n
    <3>1. k \in Nat /\ k < Len(text)
      BY <1>0, <2>2
    <3>2. PICK c, w, h, s, u : Ahead(text, k, c, w, h, s, u, E[k]) /\ s = E[h]
      <4> HIDE DEF N, n
      <4> QED BY <3>1, EncodeStep
    <3>3. h \in Nat /\ k < h /\ h <= n
      BY <3>2 DEF Ahead
    <3>4. n - h <= j /\ h \in 0 .. n
      <4>1. j \in Nat
        OBVIOUS
      <4> HIDE DEF N, n
      <4> QED BY <1>0, <3>1, <3>3, <4>1
    <3>5. Reads(D, bytes, text, s, h)
      <4>1. Reads(D, bytes, text, E[h], h)
        BY <3>4
      <4> HIDE DEF N, n
      <4> QED BY <3>2, <4>1
    <3> HIDE DEF N, n
    <3> QED BY <1>0, <3>1, <3>2, <3>5, ReadsStep
  <2> QED BY <2>1, <2>2
<1>4. N = Nat
  <2>1. N \in SUBSET Nat
    OBVIOUS
  <2> HIDE DEF N
  <2> QED BY <1>2, <1>3, <2>1, Induction
<1>5. \A k \in 0 .. n : n - k \in Nat /\ n - k <= n - k
  BY <1>0
<1> QED BY <1>4, <1>5

\* The turns are the only ones.
LEMMA EncodesTyped ==
  ASSUME NEW text, Text(text), NEW f, Encodes(f, text)
  PROVE  f \in [0 .. Len(text) -> Seq(Nat)]
<1> DEFINE n == Len(text)
           N == {j \in Nat : \A k \in 0 .. n : n - k <= j => f[k] \in Seq(Nat)}
<1>0. n \in Nat
  BY DEF Text
<1>1. f[n] \in Seq(Nat)
  <2>1. n \in 0 .. n
    BY <1>0
  <2>2. f[n] = <<>>
    BY <2>1 DEF Encodes
  <2> QED BY <2>2
<1>2. 0 \in N
  <2>1. \A k \in 0 .. n : n - k <= 0 => k = n
    BY <1>0
  <2> QED BY <1>1, <2>1
<1>3. ASSUME NEW j \in N PROVE j + 1 \in N
  <2> SUFFICES ASSUME NEW k \in 0 .. n, n - k <= j + 1 PROVE f[k] \in Seq(Nat)
    OBVIOUS
  <2>1. CASE k = n
    BY <1>1, <2>1
  <2>2. CASE k # n
    <3> DEFINE h == StepFrom(text, k)
               w == EncodeCode(CodeAt(text, k))
    <3>1. k \in Nat /\ k < Len(text)
      BY <1>0, <2>2
    <3>2. Within(CodeAt(text, k), 0, 1114111) /\ h \in Nat /\ k < h /\ h <= n
      BY <3>1, CodeOf
    <3>3. n - h <= j /\ h \in 0 .. n
      <4>1. j \in Nat
        OBVIOUS
      <4> HIDE DEF h, N
      <4> QED BY <1>0, <3>1, <3>2, <4>1
    <3>4. f[h] \in Seq(Nat)
      BY <3>3
    <3>5. w \in Seq(Nat)
      BY <3>2, Chars DEF CharOK
    <3>6. f[k] = w \o f[h]
      BY <2>2 DEF Encodes
    <3> HIDE DEF N, w, h
    <3> QED BY <3>4, <3>5, <3>6, ConcatProperties
  <2> QED BY <2>1, <2>2
<1>4. N = Nat
  <2>1. N \in SUBSET Nat
    OBVIOUS
  <2> HIDE DEF N
  <2> QED BY <1>2, <1>3, <2>1, Induction
<1>5. \A k \in 0 .. n : n - k \in Nat /\ n - k <= n - k
  BY <1>0
<1>6. \A k \in 0 .. n : f[k] \in Seq(Nat)
  BY <1>4, <1>5
<1>7. f = [k \in 0 .. n |-> f[k]]
  BY DEF Encodes
<1> HIDE DEF n
<1>8. f \in [0 .. n -> Seq(Nat)]
  BY <1>6, <1>7
<1> QED BY <1>8 DEF n

\* What decodeUtf8 gives from any index on are code units.
LEMMA DecodesTyped ==
  ASSUME NEW bytes \in Seq(Nat), NEW f, Decodes(f, bytes)
  PROVE  f \in [0 .. Len(bytes) + 3 -> Seq(Nat)]
<1> DEFINE n == Len(bytes)
           N == {j \in Nat : \A k \in 0 .. n : n - k <= j => f[k] \in Seq(Nat)}
<1>0. n \in Nat
  OBVIOUS
<1>1. \A k \in 0 .. n + 3 : k >= n => f[k] \in Seq(Nat)
  <2> TAKE k \in 0 .. n + 3
  <2>1. k >= n => f[k] = <<>>
    BY DEF Decodes
  <2>2. <<>> \in Seq(Nat)
    OBVIOUS
  <2> QED BY <2>1, <2>2
<1>2. 0 \in N
  <2>1. \A k \in 0 .. n : n - k <= 0 => k >= n /\ k \in 0 .. n + 3
    BY <1>0
  <2> QED BY <1>1, <2>1
<1>3. ASSUME NEW j \in N PROVE j + 1 \in N
  <2> SUFFICES ASSUME NEW k \in 0 .. n, n - k <= j + 1 PROVE f[k] \in Seq(Nat)
    OBVIOUS
  <2>1. k \in 0 .. n + 3 /\ k \in Nat
    BY <1>0
  <2>2. CASE k >= n
    BY <1>1, <2>1, <2>2
  <2>3. CASE ~(k >= n) /\ Truncated(bytes, k)
    <3>1. f[k] = <<>>
      BY <2>1, <2>3 DEF Decodes
    <3> QED BY <3>1
  <2>4. CASE ~(k >= n) /\ ~Truncated(bytes, k)
    <3> DEFINE h == k + Extra(bytes[k + 1]) + 1
               v == CharAt(bytes, k)
    <3>1. h \in k + 1 .. n /\ v \in Seq(Nat)
      BY <1>0, <2>1, <2>4, DecodeStep
    <3>2. h \in 0 .. n /\ n - h <= j
      <4>1. j \in Nat
        OBVIOUS
      <4> HIDE DEF h, N
      <4> QED BY <1>0, <2>1, <3>1, <4>1
    <3>3. f[h] \in Seq(Nat)
      BY <3>2
    <3>4. f[k] = v \o f[h]
      BY <2>1, <2>4 DEF Decodes
    <3> HIDE DEF N, v, h
    <3> QED BY <3>1, <3>3, <3>4, ConcatProperties
  <2> QED BY <2>2, <2>3, <2>4
<1>4. N = Nat
  <2>1. N \in SUBSET Nat
    OBVIOUS
  <2> HIDE DEF N
  <2> QED BY <1>2, <1>3, <2>1, Induction
<1>5. \A k \in 0 .. n + 3 : k \in 0 .. n \/ k >= n
  BY <1>0
<1>6. \A k \in 0 .. n : n - k \in Nat /\ n - k <= n - k
  BY <1>0
<1>7. \A k \in 0 .. n + 3 : f[k] \in Seq(Nat)
  BY <1>1, <1>4, <1>5, <1>6
<1>8. f = [k \in 0 .. n + 3 |-> f[k]]
  BY DEF Decodes
<1> HIDE DEF n
<1>9. f \in [0 .. n + 3 -> Seq(Nat)]
  BY <1>7, <1>8
<1> QED BY <1>9 DEF n

-----------------------------------------------------------------------------
(* encodeUtf8, decodeUtf8 and Fit.                                         *)

\* encodeUtf8 is its loop from index 0 on.
LEMMA EncodeText ==
  ASSUME NEW text, Text(text)
  PROVE  \E E \in [0 .. Len(text) -> Seq(Nat)] : Encodes(E, text) /\ encodeUtf8(text) = E[0]
<1> DEFINE E == CHOOSE E : Encodes(E, text)
<1>1. encodeUtf8(text) = E[0]
  BY DEF encodeUtf8, Encodes, StepFrom
<1>2. Encodes(E, text)
  BY EncodesExist
<1> HIDE DEF E
<1>3. E \in [0 .. Len(text) -> Seq(Nat)]
  BY <1>2, EncodesTyped
<1> QED BY <1>1, <1>2, <1>3

\* decodeUtf8 is its loop from index 0 on.
LEMMA DecodeBytes ==
  ASSUME NEW bytes \in Seq(Nat)
  PROVE  \E D \in [0 .. Len(bytes) + 3 -> Seq(Nat)] :
           Decodes(D, bytes) /\ decodeUtf8(bytes) = D[0]
<1> DEFINE D == CHOOSE D : Decodes(D, bytes)
<1>1. decodeUtf8(bytes) = D[0]
  BY DEF decodeUtf8, Decodes
<1>2. Decodes(D, bytes)
  BY DecodesExist
<1> HIDE DEF D
<1>3. D \in [0 .. Len(bytes) + 3 -> Seq(Nat)]
  BY <1>2, DecodesTyped
<1> QED BY <1>1, <1>2, <1>3

\* What decodeUtf8 makes of bytes that begin like an encoded text.
LEMMA ReadBytes ==
  ASSUME NEW text, Text(text), NEW bytes \in Seq(Nat)
  PROVE  /\ encodeUtf8(text) \in Seq(Nat) /\ decodeUtf8(bytes) \in Seq(Nat)
         /\ Len(text) > 0 => Len(encodeUtf8(text)) > 0
         /\ \A m : Agrees(bytes, 0, encodeUtf8(text), m) =>
              ReadOK(decodeUtf8(bytes), text, 0, Len(encodeUtf8(text)), m, Len(bytes) - 0 - m)
<1>1. PICK E \in [0 .. Len(text) -> Seq(Nat)] : Encodes(E, text) /\ encodeUtf8(text) = E[0]
  BY EncodeText
<1>2. PICK D \in [0 .. Len(bytes) + 3 -> Seq(Nat)] : Decodes(D, bytes) /\ decodeUtf8(bytes) = D[0]
  BY DecodeBytes
<1>3. Len(text) \in Nat /\ 0 \in 0 .. Len(text) /\ 0 \in 0 .. Len(bytes) + 3
  <2>1. text \in Seq(Nat)
    BY DEF Text
  <2> QED BY <2>1
<1>4. E[0] \in Seq(Nat) /\ D[0] \in Seq(Nat)
  BY <1>3
<1>5. Reads(D, bytes, text, E[0], 0)
  BY <1>1, <1>2, <1>3, ReadsAll
<1>6. ASSUME Len(text) > 0 PROVE Len(E[0]) > 0
  <2>1. PICK c, w, h, s, u : Ahead(text, 0, c, w, h, s, u, E[0])
    BY <1>1, <1>6, EncodeStep
  <2>2. w \in Seq(Nat) /\ s \in Seq(Nat) /\ Len(w) > 0 /\ E[0] = w \o s
    BY <2>1 DEF Ahead, Joined
  <2>3. Len(E[0]) = Len(w) + Len(s)
    BY <2>2, ConcatProperties
  <2>4. Len(w) \in Nat /\ Len(w) > 0 /\ Len(s) \in Nat
    BY <2>2
  <2> QED BY <2>3, <2>4
<1> QED BY <1>1, <1>2, <1>4, <1>5, <1>6 DEF Reads

\* The whole text and no NUL is the text.
LEMMA GivesAll ==
  ASSUME NEW text \in Seq(Nat), NEW r \in Seq(Nat), Gives(r, text, 0, 0)
  PROVE  r = text
<1>1. Len(text) \in Nat /\ Len(text) - 0 = Len(text) /\ Len(text) + 0 = Len(text)
  OBVIOUS
<1>2. Len(r) = Len(text) /\ \A i \in 1 .. Len(text) : r[i] = text[0 + i] /\ 0 + i = i
  BY <1>1 DEF Gives
<1> QED BY <1>2, SeqEqual

\* decodeUtf8 gives back what encodeUtf8 was given, for every string of UTF-16
\* code units.
THEOREM DecodeEncode == \A text : Text(text) => decodeUtf8(encodeUtf8(text)) = text
<1> SUFFICES ASSUME NEW text, Text(text)
             PROVE  decodeUtf8(encodeUtf8(text)) = text
  OBVIOUS
<1> DEFINE bytes == encodeUtf8(text)
           n == Len(bytes)
<1>1. text \in Seq(Nat)
  BY DEF Text
<1>2. bytes \in Seq(Nat)
  BY ReadBytes, <<>> \in Seq(Nat)
<1>3. n \in Nat
  BY <1>2
<1>4. bytes = encodeUtf8(text)
  OBVIOUS
<1> HIDE DEF bytes
<1>5. Agrees(bytes, 0, bytes, n)
  <2>1. 0 + n = n /\ (\A i \in 1 .. n : 0 + i = i) /\ \A i \in 0 + n + 1 .. n : FALSE
    BY <1>3
  <2> QED BY <1>3, <2>1 DEF Agrees
<1>6. ReadOK(decodeUtf8(bytes), text, 0, n, n, n - 0 - n) /\ decodeUtf8(bytes) \in Seq(Nat)
  BY <1>2, <1>4, <1>5, ReadBytes
<1>7. n - 0 - n = 0
  BY <1>3
<1>8. Gives(decodeUtf8(bytes), text, 0, 0)
  BY <1>6, <1>7 DEF ReadOK
<1> QED BY <1>1, <1>4, <1>6, <1>8, GivesAll

\* The buffer that is read: the file as far as it goes, then NULs.
LEMMA FitElements ==
  ASSUME NEW s \in Seq(Nat), NEW n \in Nat
  PROVE  /\ Fit(s, n) \in Seq(Nat) /\ Len(Fit(s, n)) = n
         /\ \A i \in 1 .. n : Fit(s, n)[i] = IF i <= Len(s) THEN s[i] ELSE 0
<1>1. \A i \in 1 .. n : (IF i <= Len(s) THEN s[i] ELSE 0) \in Nat
  OBVIOUS
<1> DEFINE f == [i \in 1 .. n |-> IF i <= Len(s) THEN s[i] ELSE 0]
<1>2. f \in Seq(Nat) /\ Len(f) = n
  BY <1>1
<1>3. Fit(s, n) = f
  BY DEF Fit, NUL
<1> QED BY <1>2, <1>3

\* Reading a file that begins with the first j bytes of a text.
LEMMA ReadFile ==
  ASSUME NEW text, Text(text), NEW j \in 0 .. Len(encodeUtf8(text)), NEW n \in Nat
  PROVE  LET b == encodeUtf8(text)
             r == decodeUtf8(Fit(SubSeq(b, 1, j), n))
             m == IF j <= n THEN j ELSE n
         IN r \in Seq(Nat) /\ ReadOK(r, text, 0, Len(b), m, n - m)
<1> DEFINE b == encodeUtf8(text)
           s == SubSeq(b, 1, j)
           f == Fit(s, n)
           m == IF j <= n THEN j ELSE n
<1>1. b \in Seq(Nat)
  BY ReadBytes, <<>> \in Seq(Nat)
<1>2. Len(b) \in Nat /\ j \in 0 .. Len(b) /\ j \in Nat
  BY <1>1
<1>3. s \in Seq(Nat) /\ Len(s) = j /\ \A i \in 1 .. j : s[i] = b[i]
  <2> HIDE DEF b
  <2> QED BY <1>1, <1>2
<1> HIDE DEF s
<1>4. f \in Seq(Nat) /\ Len(f) = n /\ \A i \in 1 .. n : f[i] = IF i <= Len(s) THEN s[i] ELSE 0
  BY <1>3, FitElements
<1>5. m \in Nat /\ m <= Len(b) /\ m <= n /\ (m = j \/ m = n)
  BY <1>2
<1> HIDE DEF b, f
<1>6. Agrees(f, 0, b, m)
  <2>1. \A i \in 1 .. m : f[0 + i] = b[i]
    <3> TAKE i \in 1 .. m
    <3>1. i \in 1 .. n /\ i \in 1 .. j /\ 0 + i = i /\ i <= j
      BY <1>2, <1>5
    <3> QED BY <1>3, <1>4, <3>1
  <2>2. \A i \in 0 + m + 1 .. Len(f) : f[i] = 0
    <3> TAKE i \in 0 + m + 1 .. Len(f)
    <3>1. i \in 1 .. n /\ ~(i <= j)
      BY <1>2, <1>4, <1>5
    <3> QED BY <1>3, <1>4, <3>1
  <2>3. 0 + m <= Len(f)
    BY <1>4, <1>5
  <2> HIDE DEF m
  <2> QED BY <1>5, <2>1, <2>2, <2>3 DEF Agrees
<1>7. ReadOK(decodeUtf8(f), text, 0, Len(b), m, Len(f) - 0 - m) /\ decodeUtf8(f) \in Seq(Nat)
  <2> HIDE DEF m
  <2> QED BY <1>4, <1>6, ReadBytes DEF b
<1>8. Len(f) - 0 - m = n - m
  <2> HIDE DEF m
  <2> QED BY <1>4, <1>5
<1> HIDE DEF m
<1> QED BY <1>7, <1>8 DEF b, f, s, m

-----------------------------------------------------------------------------
(* What a read() returns, and what it has seen.                            *)

\* The document that the bytes b are, None when they are no whole document.
Meaning(b) == IF \E d \in Docs : b = encodeUtf8(d)
              THEN CHOOSE d \in Docs : b = encodeUtf8(d)
              ELSE None

\* All that a file can hold: the beginning of a document, or nothing.
Written(b) == \/ b = <<>>
              \/ \E d \in Docs : \E n \in 0 .. Len(encodeUtf8(d)) :
                   b = SubSeq(encodeUtf8(d), 1, n)

\* The size of a document among S, unless S has something that is none.
Sized(n, S) == None \in S \/ \E d \in Docs \cap S : n = Len(encodeUtf8(d))

\* What read() returns when S has been seen while it went on.
Returned(text, S) ==
  \/ text = <<>> /\ (None \in S \/ S = {})
  \/ \E b, n : /\ text = decodeUtf8(Fit(b, n)) /\ Written(b) /\ n \in Nat
               /\ Meaning(b) \in S /\ Sized(n, S)

\* Every file holds what a document begins with.
FilesInv == (wpc = "open" => wdoc \in Docs) /\ \A i \in Inodes : Written(data[i])

\* The reader has seen what it is about to read, and what it has returned.
SeenInv ==
  /\ rpc # "idle" => Holds(path) \in seen /\ raw = <<>> /\ size \in Nat /\ Sized(size, seen)
  /\ rpc = "opened" => Holds(rfd) \in seen
  /\ rpc = "idle" => Returned(raw, seen)

\* All of it, which is inductive.
ReadInv == NamesInv /\ FilesInv /\ SeenInv

\* What the file of a name holds, from its bytes.
LEMMA HoldsMeaning ==
  ASSUME NEW p PROVE Holds(p) = IF p # None THEN Meaning(data[p]) ELSE None
BY DEF Holds, Meaning

\* Documents are strings of UTF-16 code units.
LEMMA DocText == ASSUME NEW d \in Docs PROVE Text(d)
<1>1. d \in Seq(Nat) /\ \A i \in DOMAIN d : d[i] <= 65535
  BY DocsAssumption
<1>2. DOMAIN d = 1 .. Len(d)
  BY <1>1
<1> QED BY <1>1, <1>2 DEF Text

\* The bytes of a document.
LEMMA EncodedDoc ==
  ASSUME NEW d \in Docs
  PROVE  encodeUtf8(d) \in Seq(Nat) /\ Len(encodeUtf8(d)) \in Nat
<1>1. encodeUtf8(d) \in Seq(Nat)
  BY DocText, ReadBytes, <<>> \in Seq(Nat)
<1> QED BY <1>1, LenProperties

\* Two documents are never the same bytes.
LEMMA EncodeApart == ASSUME NEW d \in Docs, NEW e \in Docs, encodeUtf8(d) = encodeUtf8(e) PROVE d = e
<1>1. Text(d) /\ Text(e)
  BY DocText
<1>2. decodeUtf8(encodeUtf8(d)) = d /\ decodeUtf8(encodeUtf8(e)) = e
  BY <1>1, DecodeEncode
<1> QED BY <1>2

\* A document's bytes mean that document, and no other bytes do.
LEMMA MeaningIs ==
  /\ \A d \in Docs : Meaning(encodeUtf8(d)) = d
  /\ \A b : Meaning(b) # None => Meaning(b) \in Docs /\ b = encodeUtf8(Meaning(b))
<1>1. ASSUME NEW d \in Docs PROVE Meaning(encodeUtf8(d)) = d
  <2> DEFINE e == CHOOSE e \in Docs : encodeUtf8(d) = encodeUtf8(e)
  <2>1. e \in Docs /\ encodeUtf8(d) = encodeUtf8(e) /\ Meaning(encodeUtf8(d)) = e
    BY DEF Meaning
  <2> HIDE DEF e
  <2> QED BY <2>1, EncodeApart
<1>2. ASSUME NEW b, Meaning(b) # None PROVE Meaning(b) \in Docs /\ b = encodeUtf8(Meaning(b))
  BY <1>2 DEF Meaning
<1> QED BY <1>1, <1>2

\* Files hold nothing but beginnings of documents.
LEMMA FilesStep == ASSUME NamesInv, FilesInv, [Next]_vars PROVE FilesInv'
<1> DEFINE W == \A i \in Inodes : Written(data'[i])
<1>1. Written(<<>>) /\ DOMAIN data = Inodes
  BY DEF Written, NamesInv, TypeOK
<1>2. ASSUME Free PROVE W
  <2> SUFFICES ASSUME NEW i \in Inodes PROVE Written(data'[i])
    OBVIOUS
  <2>1. data'[i] = data[i] \/ data'[i] = <<>>
    BY <1>2 DEF Free
  <2> QED BY <1>1, <2>1 DEF FilesInv
<1>3. ASSUME UNCHANGED data PROVE W
  BY <1>3 DEF FilesInv
<1>4. ASSUME NEW d \in Docs, write_open(d) PROVE FilesInv'
  <2>1. data' = [data EXCEPT ![wfd'] = <<>>] /\ wdoc' = d
    BY <1>4 DEF write_open
  <2>2. ASSUME NEW i \in Inodes PROVE Written(data'[i])
    <3>1. data'[i] = data[i] \/ data'[i] = <<>>
      BY <1>1, <2>1
    <3> QED BY <1>1, <3>1 DEF FilesInv
  <2> QED BY <2>1, <2>2 DEF FilesInv
<1>5. CASE write_data
  <2>1. wdoc \in Docs /\ wpc' = "written"
    BY <1>5 DEF write_data, FilesInv
  <2>2. PICK n \in 0 .. Len(encodeUtf8(wdoc)) :
          data' = [data EXCEPT ![wfd] = SubSeq(encodeUtf8(wdoc), 1, n)]
    BY <1>5 DEF write_data
  <2>3. Written(SubSeq(encodeUtf8(wdoc), 1, n))
    BY <2>1 DEF Written
  <2>4. ASSUME NEW i \in Inodes PROVE Written(data'[i])
    <3>1. data'[i] = data[i] \/ data'[i] = SubSeq(encodeUtf8(wdoc), 1, n)
      BY <1>1, <2>2
    <3> QED BY <2>3, <3>1 DEF FilesInv
  <2> QED BY <2>1, <2>4 DEF FilesInv
<1>6. CASE write_rename
  BY <1>2, <1>6 DEF write_rename, FilesInv
<1>7. CASE write_throws \/ WriterKilled
  BY <1>3, <1>7 DEF write_throws, WriterKilled, FilesInv, fsys
<1>8. CASE remove
  BY <1>2, <1>8 DEF remove, FilesInv, writer
<1>9. CASE read_stat \/ read_absent \/ read_open
  BY <1>3, <1>9 DEF read_stat, read_absent, read_open, FilesInv, fsys, writer
<1>10. CASE read_gone \/ read_data \/ ReaderKilled
  BY <1>2, <1>10 DEF read_gone, read_data, ReaderKilled, Return, FilesInv, writer
<1>11. CASE UNCHANGED vars
  BY <1>3, <1>11 DEF vars, fsys, writer, FilesInv
<1> QED
  BY <1>4, <1>5, <1>6, <1>7, <1>8, <1>9, <1>10, <1>11 DEF Next, Write, Read

\* Seeing more leaves a size accounted for.
LEMMA SizedGrows == ASSUME NEW n, NEW S, NEW T, S \subseteq T, Sized(n, S) PROVE Sized(n, T)
BY DEF Sized

\* The steps that leave the reader alone and the name of the file.
LEMMA SeenWhileWritten ==
  ASSUME NamesInv, SeenInv, [Next]_vars, UNCHANGED <<path, reader>>
  PROVE  SeenInv'
<1>1. \A i \in ({path, rfd} \ {None}) : data'[i] = data[i]
  <2>1. {path, rfd} \ {None} = Published
    BY DEF Published, reader
  <2> QED BY <2>1, PublishedStep
<1>2. /\ Holds(path)' = IF path' # None THEN Meaning(data'[path']) ELSE None
      /\ Holds(rfd)' = IF rfd' # None THEN Meaning(data'[rfd']) ELSE None
  BY DEF Holds, Meaning
<1>3. Holds(path)' = Holds(path) /\ Holds(rfd)' = Holds(rfd)
  BY <1>1, <1>2, HoldsMeaning DEF reader
<1> QED BY <1>3 DEF SeenInv, reader

\* The steps that rename a file over it, or remove it.
LEMMA SeenWhenNamed ==
  ASSUME NamesInv, SeenInv, NEW p, p \in {tmp, None}, Name(p), Free
  PROVE  SeenInv'
<1>1. /\ path' = p /\ seen' = (IF rpc = "idle" THEN seen ELSE seen \cup {Holds(p)})
      /\ rpc' = rpc /\ size' = size /\ rfd' = rfd /\ raw' = raw
  BY DEF Name
<1>2. \A i \in {path', rfd'} \ {None} : data'[i] = data[i]
  <2>1. DOMAIN data = Inodes /\ {p, rfd} \subseteq Inodes \cup {None}
    BY DEF NamesInv, TypeOK
  <2> QED BY <1>1, <2>1, FreeKeeps
<1>3. /\ Holds(path)' = IF path' # None THEN Meaning(data'[path']) ELSE None
      /\ Holds(rfd)' = IF rfd' # None THEN Meaning(data'[rfd']) ELSE None
  BY DEF Holds, Meaning
<1>4. Holds(path)' = Holds(p) /\ Holds(rfd)' = Holds(rfd)
  BY <1>1, <1>2, <1>3, HoldsMeaning
<1>5. CASE rpc = "idle"
  <2>1. Returned(raw', seen') /\ rpc' = "idle" /\ rpc' # "opened"
    BY <1>1, <1>5 DEF SeenInv
  <2> QED BY <2>1 DEF SeenInv
<1>6. CASE rpc # "idle"
  <2>1. seen' = seen \cup {Holds(p)} /\ seen \subseteq seen'
    BY <1>1, <1>6
  <2>2. Sized(size', seen')
    BY <1>1, <1>6, <2>1, SizedGrows DEF SeenInv
  <2> QED BY <1>1, <1>4, <1>6, <2>1, <2>2 DEF SeenInv
<1> QED BY <1>5, <1>6

\* The end of a read().
LEMMA SeenAtReturn == ASSUME NEW text, Return(text), Returned(text, seen) PROVE SeenInv'
<1>1. rpc' = "idle" /\ raw' = text /\ seen' = seen
  BY DEF Return
<1> QED BY <1>1 DEF SeenInv

\* Every step keeps what is read and what was seen in step.
LEMMA SeenStep == ASSUME NamesInv, FilesInv, SeenInv, [Next]_vars PROVE SeenInv'
<1>1. CASE UNCHANGED <<path, reader>>
  BY <1>1, SeenWhileWritten
<1>2. CASE write_rename \/ remove
  BY <1>2, SeenWhenNamed DEF write_rename, remove
<1>3. CASE read_stat
  <2>1. /\ path # None /\ path' = path /\ data' = data /\ seen' = {Holds(path)} /\ raw' = <<>>
        /\ size' = Len(data[path]) /\ rpc' = "sized"
    BY <1>3 DEF read_stat, fsys
  <2>2. path \in Inodes
    BY <2>1 DEF NamesInv, TypeOK
  <2>3. Holds(path) = Meaning(data[path])
    BY <2>1, HoldsMeaning
  <2>4. Holds(path)' = Holds(path)
    BY <2>1 DEF Holds
  <2>5. Written(data[path])
    BY <2>2 DEF FilesInv
  <2>6. Len(data[path]) \in Nat
    <3>1. CASE data[path] = <<>>
      BY <3>1
    <3>2. ASSUME NEW d \in Docs, NEW n \in 0 .. Len(encodeUtf8(d)),
                 data[path] = SubSeq(encodeUtf8(d), 1, n)
          PROVE  Len(data[path]) \in Nat
      <4> DEFINE b == encodeUtf8(d)
      <4>1. b \in Seq(Nat) /\ n \in 0 .. Len(b)
        BY EncodedDoc
      <4> HIDE DEF b
      <4>2. Len(SubSeq(b, 1, n)) \in Nat
        BY <4>1
      <4> QED BY <3>2, <4>2 DEF b
    <3> QED BY <2>5, <3>1, <3>2 DEF Written
  <2>7. Sized(size', seen')
    <3>1. CASE Holds(path) = None
      BY <2>1, <3>1 DEF Sized
    <3>2. CASE Holds(path) # None
      <4>1. Holds(path) \in Docs /\ data[path] = encodeUtf8(Holds(path))
        BY <2>3, <3>2, MeaningIs
      <4> QED BY <2>1, <4>1 DEF Sized
    <3> QED BY <3>1, <3>2
  <2> QED BY <2>1, <2>4, <2>6, <2>7 DEF SeenInv
<1>4. CASE read_absent
  BY <1>4 DEF read_absent, SeenInv, Returned
<1>5. CASE read_open
  <2>1. /\ rpc = "sized" /\ rpc' = "opened" /\ rfd' = path /\ path' = path /\ data' = data
        /\ size' = size /\ raw' = raw /\ seen' = seen
    BY <1>5 DEF read_open, fsys
  <2>2. Holds(path)' = Holds(path) /\ Holds(rfd)' = Holds(path)
    BY <2>1 DEF Holds
  <2> QED BY <2>1, <2>2 DEF SeenInv
<1>6. CASE read_gone
  <2>1. Holds(path) = None /\ Holds(path) \in seen /\ Return(<<>>)
    BY <1>6, HoldsMeaning DEF read_gone, SeenInv
  <2>2. Returned(<<>>, seen)
    BY <2>1 DEF Returned
  <2> QED BY <2>1, <2>2, SeenAtReturn
<1>7. CASE read_data
  <2>1. rpc = "opened" /\ Return(decodeUtf8(Fit(data[rfd], size)))
    BY <1>7 DEF read_data
  <2>2. rfd \in Inodes /\ rfd # None
    BY <2>1, NoneAssumption DEF NamesInv, TypeOK
  <2>3. Written(data[rfd]) /\ Meaning(data[rfd]) \in seen /\ size \in Nat /\ Sized(size, seen)
    BY <2>1, <2>2, HoldsMeaning DEF FilesInv, SeenInv
  <2>4. Returned(decodeUtf8(Fit(data[rfd], size)), seen)
    BY <2>3 DEF Returned
  <2> QED BY <2>1, <2>4, SeenAtReturn
<1>8. CASE ReaderKilled
  BY <1>8 DEF ReaderKilled, SeenInv, Returned
<1> QED
  BY <1>1, <1>2, <1>3, <1>4, <1>5, <1>6, <1>7, <1>8
     DEF Next, Write, Read, write_open, write_data, write_throws, WriterKilled, vars, fsys

-----------------------------------------------------------------------------
(* What can be said of the string that read() returns.                     *)

\* What r is when it was read, n bytes at most, from a file with the first j
\* bytes of the document e, which has l bytes.
ReadOf(r, e, j, n, l) ==
  /\ r \in Seq(Nat)
  /\ \/ j = l /\ n >= l /\ Gives(r, e, 0, n - l)
     \/ (j < l \/ n < l) /\ (Begins(r, e, 0) \/ Spoilt(r)) /\ (j = l => Begins(r, e, 0))

\* What read() returns from a file with the beginning of a document.
LEMMA DocRead ==
  ASSUME NEW e \in Docs, NEW j \in 0 .. Len(encodeUtf8(e)), NEW n \in Nat
  PROVE  ReadOf(decodeUtf8(Fit(SubSeq(encodeUtf8(e), 1, j), n)), e, j, n, Len(encodeUtf8(e)))
<1> DEFINE b == encodeUtf8(e)
           l == Len(b)
           r == decodeUtf8(Fit(SubSeq(b, 1, j), n))
           m == IF j <= n THEN j ELSE n
<1>1. Text(e)
  BY DocText
<1>2. r \in Seq(Nat) /\ ReadOK(r, e, 0, l, m, n - m)
  BY <1>1, ReadFile
<1>3. l \in Nat /\ j \in 0 .. l
  BY EncodedDoc
<1> HIDE DEF r, l, m
<1>4. CASE m = l
  <2>1. j = l /\ n >= l
    BY <1>3, <1>4 DEF m
  <2>2. Gives(r, e, 0, n - l)
    BY <1>2, <1>4 DEF ReadOK
  <2> QED BY <1>2, <2>1, <2>2 DEF ReadOf, r, l
<1>5. CASE m # l
  <2>1. m < l /\ (j < l \/ n < l) /\ (j = l => n - m = 0)
    BY <1>3, <1>5 DEF m
  <2>2. (n - m = 0 => Begins(r, e, 0)) /\ (Begins(r, e, 0) \/ Spoilt(r))
    BY <1>2, <2>1 DEF ReadOK
  <2> QED BY <1>2, <2>1, <2>2 DEF ReadOf, r, l
<1> QED BY <1>4, <1>5

\* A document has no NUL and ends in an ASCII unit.
LEMMA DocEnds ==
  ASSUME NEW d \in Docs
  PROVE  /\ d \in Seq(Nat) /\ Len(d) \in Nat /\ Len(d) > 0 /\ d[Len(d)] < 128
         /\ \A i \in 1 .. Len(d) : d[i] # 0
<1>1. d \in Seq(Nat) /\ d # <<>> /\ Last(d) < 128 /\ \A i \in DOMAIN d : d[i] # 0
  BY DocsAssumption DEF NUL
<1>2. DOMAIN d = 1 .. Len(d) /\ Len(d) \in Nat /\ Len(d) > 0
  BY <1>1
<1> QED BY <1>1, <1>2 DEF Last

\* A document is no beginning of another, and not spoilt.
LEMMA DocNotTorn ==
  ASSUME NEW d \in Docs, NEW e \in Docs
  PROVE  ~Begins(d, e, 0) /\ ~Spoilt(d)
<1>1. ~Spoilt(d)
  <2>1. Len(d) > 0 /\ d[Len(d)] < 128 /\ d[Len(d)] \in Nat /\ \A i \in 1 .. Len(d) : d[i] # 0
    <3>1. \A s \in Seq(Nat) : Len(s) > 0 => s[Len(s)] \in Nat
      OBVIOUS
    <3> QED BY <3>1, DocEnds
  <2> QED BY <2>1 DEF Spoilt
<1>2. ASSUME Begins(d, e, 0) PROVE FALSE
  <2>1. d \in Seq(Nat) /\ e \in Seq(Nat) /\ Len(d) \in Nat /\ Len(e) \in Nat
    BY DocEnds
  <2>2. Len(d) < Len(e) /\ \A i \in 1 .. Len(d) : d[i] = e[i]
    <3>1. Len(e) - 0 = Len(e) /\ \A i \in 1 .. Len(d) : 0 + i = i
      BY <2>1
    <3> QED BY <1>2, <3>1 DEF Begins
  <2>3. SubSeq(d, 1, Len(d)) = SubSeq(e, 1, Len(d))
    BY <2>1, <2>2
  <2>4. IsPrefix(d, e)
    BY <2>1, <2>2, <2>3 DEF IsPrefix
  <2>5. d = e
    BY <2>4, DocsAssumption
  <2> QED BY <2>1, <2>2, <2>5
<1> QED BY <1>1, <1>2

\* A document that Gives says was read is the one that was written.
LEMMA DocGiven ==
  ASSUME NEW d \in Docs, NEW e \in Docs, NEW z \in Nat, Gives(d, e, 0, z)
  PROVE  z = 0 /\ d = e
<1>1. d \in Seq(Nat) /\ e \in Seq(Nat) /\ Len(d) \in Nat /\ Len(e) \in Nat
  BY DocEnds
<1>2. z = 0
  <2> SUFFICES ASSUME z # 0 PROVE FALSE
    OBVIOUS
  <2>1. Len(d) = Len(e) + z /\ Len(d) > Len(e) /\ Len(d) \in 1 .. Len(d)
    BY <1>1 DEF Gives
  <2>2. d[Len(d)] = 0
    BY <1>1, <2>1 DEF Gives
  <2> QED BY <2>1, <2>2, DocEnds
<1> QED BY <1>1, <1>2, GivesAll

\* A document that read() returned has been seen.
LEMMA Genuine == ASSUME NEW d \in Docs, NEW S, Returned(d, S) PROVE d \in S
<1>1. d # <<>>
  BY DocsAssumption
<1>2. PICK b, n : d = decodeUtf8(Fit(b, n)) /\ Written(b) /\ n \in Nat /\ Meaning(b) \in S
  BY <1>1 DEF Returned
<1>0. PICK e \in Docs : \E j \in 0 .. Len(encodeUtf8(e)) : b = SubSeq(encodeUtf8(e), 1, j)
  <2>1. CASE b = <<>>
    <3>1. Len(encodeUtf8(d)) \in Nat /\ encodeUtf8(d) \in Seq(Nat)
      BY EncodedDoc
    <3>2. 0 \in 0 .. Len(encodeUtf8(d))
      BY <3>1
    <3>3. SubSeq(encodeUtf8(d), 1, 0) = <<>>
      <4> DEFINE s == encodeUtf8(d)
      <4>1. s \in Seq(Nat)
        BY <3>1
      <4> HIDE DEF s
      <4> QED BY <4>1 DEF s
    <3> QED BY <2>1, <3>2, <3>3
  <2>2. CASE b # <<>>
    BY <1>2, <2>2 DEF Written
  <2> QED BY <2>1, <2>2
<1>3. PICK j \in 0 .. Len(encodeUtf8(e)) : b = SubSeq(encodeUtf8(e), 1, j)
  BY <1>0
<1> DEFINE l == Len(encodeUtf8(e))
<1>4. ReadOf(d, e, j, n, l)
  BY <1>2, <1>3, DocRead
<1>5. l \in Nat
  BY EncodedDoc
<1> HIDE DEF l
<1>6. j = l /\ n >= l /\ Gives(d, e, 0, n - l)
  BY <1>4, DocNotTorn DEF ReadOf
<1>7. d = e
  <2>1. n - l \in Nat
    BY <1>2, <1>5, <1>6
  <2> QED BY <1>6, <2>1, DocGiven
<1>8. b = encodeUtf8(e)
  <2>1. encodeUtf8(e) \in Seq(Nat)
    BY EncodedDoc
  <2>2. \A s \in Seq(Nat) : SubSeq(s, 1, Len(s)) = s
    OBVIOUS
  <2> QED BY <1>3, <1>6, <2>1, <2>2 DEF l
<1> QED BY <1>2, <1>7, <1>8, MeaningIs

\* What a read() returns that has seen whole documents only.
LEMMA WholeRead ==
  ASSUME NEW text, NEW S, Returned(text, S), None \notin S, S # {}
  PROVE  \E e \in Docs \cap S, n \in Nat :
           /\ ReadOf(text, e, Len(encodeUtf8(e)), n, Len(encodeUtf8(e)))
           /\ \E d \in Docs \cap S : n = Len(encodeUtf8(d))
<1>1. PICK b, n : /\ text = decodeUtf8(Fit(b, n)) /\ n \in Nat /\ Meaning(b) \in S /\ Sized(n, S)
  BY DEF Returned
<1>2. Meaning(b) # None
  BY <1>1
<1> DEFINE e == Meaning(b)
<1>3. e \in Docs \cap S /\ b = encodeUtf8(e)
  BY <1>1, <1>2, MeaningIs
<1> HIDE DEF e
<1>4. encodeUtf8(e) \in Seq(Nat) /\ Len(encodeUtf8(e)) \in Nat
  BY <1>3, EncodedDoc
<1>5. Len(encodeUtf8(e)) \in 0 .. Len(encodeUtf8(e))
  BY <1>4
<1>6. b = SubSeq(encodeUtf8(e), 1, Len(encodeUtf8(e)))
  <2>1. \A s \in Seq(Nat) : SubSeq(s, 1, Len(s)) = s
    OBVIOUS
  <2> QED BY <1>3, <1>4, <2>1
<1>7. ReadOf(text, e, Len(encodeUtf8(e)), n, Len(encodeUtf8(e)))
  BY <1>1, <1>3, <1>5, <1>6, DocRead
<1>8. \E d \in Docs \cap S : n = Len(encodeUtf8(d))
  BY <1>1 DEF Sized
<1> QED BY <1>1, <1>3, <1>7, <1>8

\* The document that was seen alone is returned.
LEMMA Same == ASSUME NEW d \in Docs, Returned(raw, {d}) PROVE raw = d
<1>1. None \notin {d} /\ {d} # {}
  BY NoneAssumption
<1>2. PICK n \in Nat : /\ ReadOf(raw, d, Len(encodeUtf8(d)), n, Len(encodeUtf8(d)))
                       /\ n = Len(encodeUtf8(d))
  BY <1>1, WholeRead
<1>3. ReadOf(raw, d, n, n, n) /\ d \in Seq(Nat)
  BY <1>2, DocEnds
<1>4. Gives(raw, d, 0, 0) /\ raw \in Seq(Nat)
  BY <1>3 DEF ReadOf
<1> QED BY <1>3, <1>4, GivesAll

\* Without the NULs behind it, a document read in full is itself.
LEMMA GivenWithoutNULs ==
  ASSUME NEW e \in Docs, NEW r \in Seq(Nat), NEW z \in Nat, Gives(r, e, 0, z)
  PROVE  Without(r, {NUL}) = e
<1> DEFINE n == Len(e)
           s == [i \in 1 .. z |-> r[n + i]]
<1>1. e \in Seq(Nat) /\ n \in Nat /\ \A i \in 1 .. n : e[i] # 0
  BY DocEnds
<1>2. /\ Len(r) = n + z /\ \A i \in 1 .. n : r[i] = e[i]
      /\ \A i \in 1 .. n + z : i > n => r[i] = 0
  <2>1. n - 0 = n /\ \A i \in 1 .. n : 0 + i = i
    BY <1>1
  <2> QED BY <2>1 DEF Gives
<1>3. \A i \in 1 .. z : n + i \in 1 .. n + z /\ n + i > n
  BY <1>1
<1>4. s \in Seq(Nat) /\ Len(s) = z /\ \A i \in 1 .. z : s[i] = 0 /\ s[i] = r[n + i]
  <2>1. \A i \in 1 .. z : r[n + i] = 0
    BY <1>2, <1>3
  <2> HIDE DEF n
  <2>2. \A i \in 1 .. z : r[n + i] \in Nat
    BY <2>1
  <2>3. s \in Seq(Nat) /\ Len(s) = z
    BY <2>2
  <2> QED BY <2>1, <2>3
<1> HIDE DEF n, s
<1>5. /\ e \o s \in Seq(Nat) /\ Len(e \o s) = n + z
      /\ \A i \in 1 .. n + z : (e \o s)[i] = IF i <= n THEN e[i] ELSE s[i - n]
  <2> DEFINE v == e \o s
             b == Len(s)
  <2>1. /\ v \in Seq(Nat) /\ Len(v) = n + b
        /\ \A i \in 1 .. n + b : v[i] = IF i <= n THEN e[i] ELSE s[i - n]
    BY <1>1, <1>4, ConcatProperties DEF n
  <2>2. b = z
    BY <1>4
  <2> HIDE DEF v, b
  <2>3. /\ v \in Seq(Nat) /\ Len(v) = n + z
        /\ \A i \in 1 .. n + z : v[i] = IF i <= n THEN e[i] ELSE s[i - n]
    BY <2>1, <2>2
  <2> QED BY <2>3 DEF v
<1>6. r = e \o s
  <2>1. \A i \in 1 .. n + z : r[i] = (e \o s)[i]
    <3> TAKE i \in 1 .. n + z
    <3>1. CASE i <= n
      <4>1. i \in 1 .. n
        BY <1>1, <3>1
      <4> QED BY <1>2, <1>5, <3>1, <4>1
    <3>2. CASE ~(i <= n)
      <4>1. i - n \in 1 .. z /\ i > n
        BY <1>1, <3>2
      <4> QED BY <1>2, <1>4, <1>5, <3>2, <4>1
    <3> QED BY <3>1, <3>2
  <2> QED BY <1>2, <1>5, <2>1, SeqEqual
<1>7. Without(e, {NUL}) = e
  BY <1>1, WithoutNone DEF NUL, n
<1>8. Without(s, {NUL}) = <<>>
  BY <1>4, WithoutAll DEF NUL
<1>9. Without(e \o s, {NUL}) = e \o <<>>
  <2> DEFINE X == {NUL}
  <2> HIDE DEF X
  <2>1. Without(e \o s, X) = Without(e, X) \o Without(s, X)
    BY <1>1, <1>4, WithoutConcat
  <2> QED BY <1>7, <1>8, <2>1 DEF X
<1>10. e \o <<>> = e
  BY <1>1
<1> QED BY <1>6, <1>9, <1>10

\* A document that was cut has no NUL in it.
LEMMA BegunWithoutNULs ==
  ASSUME NEW e \in Docs, NEW r \in Seq(Nat), Begins(r, e, 0)
  PROVE  IsPrefix(Without(r, {NUL}), e)
<1>1. e \in Seq(Nat) /\ Len(e) \in Nat /\ Len(r) \in Nat /\ \A i \in 1 .. Len(e) : e[i] # 0
  BY DocEnds
<1>2. Len(r) < Len(e) /\ \A i \in 1 .. Len(r) : r[i] = e[i]
  <2>1. Len(e) - 0 = Len(e) /\ \A i \in 1 .. Len(r) : 0 + i = i
    BY <1>1
  <2> QED BY <2>1 DEF Begins
<1>3. \A i \in 1 .. Len(r) : r[i] # 0
  <2>1. \A i \in 1 .. Len(r) : i \in 1 .. Len(e)
    BY <1>1, <1>2
  <2> QED BY <1>1, <1>2, <2>1
<1>4. Without(r, {NUL}) = r
  BY <1>3, WithoutNone DEF NUL
<1>5. SubSeq(r, 1, Len(r)) = SubSeq(e, 1, Len(r))
  BY <1>1, <1>2
<1>6. IsPrefix(r, e)
  BY <1>1, <1>2, <1>5 DEF IsPrefix
<1> QED BY <1>4, <1>6

\* What is returned when whole documents were seen comes from one of them.
LEMMA OneRead ==
  ASSUME NEW text, NEW S, Returned(text, S), None \notin S, S # {}
  PROVE  \E d \in Docs : IsPrefix(Without(text, {NUL}), d)
<1>1. PICK e \in Docs \cap S, n \in Nat : ReadOf(text, e, Len(encodeUtf8(e)), n, Len(encodeUtf8(e)))
  BY WholeRead
<1> DEFINE l == Len(encodeUtf8(e))
<1>2. l \in Nat /\ e \in Docs /\ text \in Seq(Nat)
  BY <1>1, EncodedDoc DEF ReadOf
<1> HIDE DEF l
<1>3. ReadOf(text, e, l, n, l)
  BY <1>1 DEF l
<1>4. CASE n >= l /\ Gives(text, e, 0, n - l)
  <2>1. n - l \in Nat
    BY <1>2, <1>4
  <2>2. Without(text, {NUL}) = e
    BY <1>2, <1>4, <2>1, GivenWithoutNULs
  <2>3. IsPrefix(e, e)
    BY <1>2, DocEnds DEF IsPrefix
  <2> QED BY <1>2, <2>2, <2>3
<1>5. CASE Begins(text, e, 0)
  BY <1>2, <1>5, BegunWithoutNULs
<1> QED BY <1>3, <1>4, <1>5 DEF ReadOf

\* The names, the files and what is being read stay in step.
THEOREM ReadInvariance == Spec => []ReadInv
<1>1. Init => ReadInv
  BY DEF Init, ReadInv, NamesInv, TypeOK, FilesInv, SeenInv, Written, Returned
<1>2. ReadInv /\ [Next]_vars => ReadInv'
  BY NamesStep, FilesStep, SeenStep DEF ReadInv
<1> QED BY <1>1, <1>2, PTL DEF Spec

\* TrafficStatsStore.load: a document it returns was the whole content of the
\* file at some moment while it was read, whatever was renamed over the file,
\* torn, removed or killed meanwhile: a mixture of two files is never taken
\* for one.
THEOREM LoadsGenuine == Spec => []LoadGenuine
<1>1. ReadInv => LoadGenuine
  <2> SUFFICES ASSUME ReadInv, load(raw) # None PROVE load(raw) \in seen
    BY DEF LoadGenuine
  <2>1. raw \in Docs /\ load(raw) = raw
    BY DEF load
  <2>2. rpc = "idle"
    BY <2>1, DocsAssumption DEF ReadInv, SeenInv
  <2>3. Returned(raw, seen)
    BY <2>2 DEF ReadInv, SeenInv
  <2> QED BY <2>1, <2>3, Genuine
<1> QED BY <1>1, ReadInvariance, PTL

\* JsonStore.read of a file that nobody replaced gives back what was written.
THEOREM ReadsBack == Spec => []RoundTrip
<1>1. ReadInv => RoundTrip
  <2> SUFFICES ASSUME ReadInv, NEW d \in Docs, WholeFiles, seen = {d} PROVE raw = d
    BY DEF RoundTrip
  <2>1. Returned(raw, seen)
    BY DEF ReadInv, SeenInv, WholeFiles
  <2>2. Returned(raw, {d})
    BY <2>1
  <2> QED BY <2>2, Same
<1> QED BY <1>1, ReadInvariance, PTL

\* JsonStore.read: when the file was replaced between stat and open, the string
\* read is one document, cut or with NULs behind it, never parts of two.
THEOREM ReadsOneDocument == Spec => []OneDocument
<1>1. ReadInv => OneDocument
  <2> SUFFICES ASSUME ReadInv, WholeFiles, raw # <<>>
               PROVE  \E d \in Docs : IsPrefix(Without(raw, {NUL}), d)
    BY DEF OneDocument
  <2>1. Returned(raw, seen) /\ None \notin seen
    BY DEF ReadInv, SeenInv, WholeFiles
  <2>2. seen # {}
    BY <2>1 DEF Returned
  <2> QED BY <2>1, <2>2, OneRead
<1> QED BY <1>1, ReadInvariance, PTL
=============================================================================

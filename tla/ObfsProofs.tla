----------------------------- MODULE ObfsProofs -----------------------------
(***************************************************************************)
(* Proofs about the simple-obfs wrappers: for any headers, bodies, records *)
(* and stream lengths, any sizes of buffers and chunks, and however the    *)
(* streams below and the callers split what they pass on.                  *)
(***************************************************************************)
EXTENDS SimpleObfs, SequenceLemmas

\* Taking n bytes from the front of a stream.
LEMMA Split ==
  ASSUME NEW S, NEW s \in Seq(S), NEW n \in 0 .. Len(s)
  PROVE  /\ Prefix(s, n) \in Seq(S) /\ Len(Prefix(s, n)) = n
         /\ \A i \in 1 .. n : Prefix(s, n)[i] = s[i]
         /\ Suffix(s, n) \in Seq(S) /\ Len(Suffix(s, n)) = Len(s) - n
         /\ \A i \in 1 .. Len(s) - n : Suffix(s, n)[i] = s[n + i]
         /\ Prefix(s, n) \o Suffix(s, n) = s
<1>1. Len(s) \in Nat /\ n \in Int /\ \A i \in 1 .. Len(s) : s[i] \in S
  BY LenProperties
<1>2. /\ Prefix(s, n) \in Seq(S) /\ Len(Prefix(s, n)) = n
      /\ \A i \in 1 .. n : Prefix(s, n)[i] = s[i]
  <2>1. \A i \in 1 .. n : s[i] \in S
    BY <1>1
  <2>2. /\ SubSeq(s, 1, n) \in Seq(S)
        /\ Len(SubSeq(s, 1, n)) = IF 1 <= n THEN n - 1 + 1 ELSE 0
        /\ \A i \in 1 .. n - 1 + 1 : SubSeq(s, 1, n)[i] = s[1 + i - 1]
    BY <1>1, <2>1, SubSeqProperties
  <2> QED BY <1>1, <2>2 DEF Prefix
<1>3. /\ Suffix(s, n) \in Seq(S) /\ Len(Suffix(s, n)) = Len(s) - n
      /\ \A i \in 1 .. Len(s) - n : Suffix(s, n)[i] = s[n + i]
  <2>1. /\ n + 1 \in Int /\ Len(s) \in Int
        /\ \A i \in n + 1 .. Len(s) : s[i] \in S
    BY <1>1
  <2>2. /\ SubSeq(s, n + 1, Len(s)) \in Seq(S)
        /\ Len(SubSeq(s, n + 1, Len(s))) = IF n + 1 <= Len(s) THEN Len(s) - (n + 1) + 1 ELSE 0
        /\ \A i \in 1 .. Len(s) - (n + 1) + 1 :
             SubSeq(s, n + 1, Len(s))[i] = s[n + 1 + i - 1]
    BY <2>1, SubSeqProperties
  <2> QED BY <1>1, <2>2 DEF Suffix
<1>4. Prefix(s, n) \o Suffix(s, n) = s
  <2>1. SubSeq(s, 1, n) \o SubSeq(s, n + 1, Len(s)) = SubSeq(s, 1, Len(s))
    <3>1. 1 \in 1 .. Len(s) + 1 /\ n \in 1 - 1 .. Len(s) /\ Len(s) \in n .. Len(s)
      BY <1>1
    <3> QED BY <3>1, ConcatAdjacentSubSeq
  <2> QED BY <2>1, SubSeqFull DEF Prefix, Suffix
<1> QED BY <1>2, <1>3, <1>4

-----------------------------------------------------------------------------
(* The read side: HttpObfs.                                                *)

Byte == Text \cup Nat

\* The type of the read side.
ReadTypes == /\ {net, payload, out, response_scratch, leftover} \subseteq Seq(Byte)
             /\ first_response \in BOOLEAN
             /\ half = "read" => kind \in {"http", "tls"}

IsFirst(i, s) == i \in find_double_crlf(s) /\ \A j \in find_double_crlf(s) : i <= j

\* The payload is what comes behind the first terminator in s.
Headed(s) == \/ find_double_crlf(s) = {} /\ payload = <<>>
             \/ \E i : IsFirst(i, s) /\ payload = Suffix(s, i + 3)

HttpInv == half = "read" /\ kind = "http" =>
  IF first_response
  THEN /\ out = <<>> /\ leftover = <<>>
       /\ find_double_crlf(response_scratch) = {} /\ Headed(response_scratch \o net)
  ELSE out \o leftover \o net = payload

\* A terminator, byte by byte.
LEMMA Terminator ==
  ASSUME NEW S, NEW s \in Seq(S)
  PROVE  \A i : i \in find_double_crlf(s) <=>
                  /\ i \in 1 .. Len(s) - 3
                  /\ s[i] = "r" /\ s[i + 1] = "n" /\ s[i + 2] = "r" /\ s[i + 3] = "n"
<1> SUFFICES ASSUME NEW i \in 1 .. Len(s) - 3
             PROVE  SubSeq(s, i, i + 3) = CRLF2 <=>
                      s[i] = "r" /\ s[i + 1] = "n" /\ s[i + 2] = "r" /\ s[i + 3] = "n"
  BY DEF find_double_crlf
<1> DEFINE t == SubSeq(s, i, i + 3)
<1>1. Len(s) \in Nat /\ \A j \in 1 .. Len(s) : s[j] \in S
  BY LenProperties
<1>2. t \in Seq(S) /\ Len(t) = 4 /\ \A j \in 1 .. 4 : t[j] = s[i + j - 1]
  <2>1. i \in Int /\ i + 3 \in Int /\ \A j \in i .. i + 3 : s[j] \in S
    BY <1>1
  <2>2. /\ t \in Seq(S) /\ Len(t) = IF i <= i + 3 THEN i + 3 - i + 1 ELSE 0
        /\ \A j \in 1 .. i + 3 - i + 1 : t[j] = s[i + j - 1]
    BY <2>1, SubSeqProperties
  <2> QED BY <2>1, <2>2
<1>3. t[1] = s[i] /\ t[2] = s[i + 1] /\ t[3] = s[i + 2] /\ t[4] = s[i + 3]
  BY <1>2
<1> HIDE DEF t
<1>4. t = <<t[1], t[2], t[3], t[4]>>
  BY <1>2
<1> QED BY <1>3, <1>4 DEF t, CRLF2

\* The first terminator in a part that has one is the first there is.
LEMMA FirstStays ==
  ASSUME NEW S, NEW s \in Seq(S), NEW n \in 0 .. Len(s), NEW i, IsFirst(i, Prefix(s, n))
  PROVE  IsFirst(i, s) /\ i \in 1 .. n - 3
<1> DEFINE p == Prefix(s, n)
<1>1. p \in Seq(S) /\ Len(p) = n /\ (\A j \in 1 .. n : p[j] = s[j]) /\ Len(s) \in Nat
  BY Split, LenProperties
<1> HIDE DEF p
<1>2. i \in 1 .. n - 3 /\ i \in find_double_crlf(p) /\ \A j \in find_double_crlf(p) : i <= j
  BY <1>1, Terminator DEF IsFirst, p
<1>a. p \in Seq(S)
  BY <1>1
<1>b. \A k : k \in find_double_crlf(p) <=>
              /\ k \in 1 .. Len(p) - 3
              /\ p[k] = "r" /\ p[k + 1] = "n" /\ p[k + 2] = "r" /\ p[k + 3] = "n"
  BY <1>a, Terminator
<1>3. ASSUME NEW j \in 1 .. n - 3 PROVE j \in find_double_crlf(p) <=> j \in find_double_crlf(s)
  <2>1. /\ p[j] = s[j] /\ p[j + 1] = s[j + 1] /\ p[j + 2] = s[j + 2] /\ p[j + 3] = s[j + 3]
        /\ j \in 1 .. Len(s) - 3 /\ j \in 1 .. Len(p) - 3
    BY <1>1
  <2>2. j \in find_double_crlf(p) <=>
          p[j] = "r" /\ p[j + 1] = "n" /\ p[j + 2] = "r" /\ p[j + 3] = "n"
    BY <2>1, <1>b
  <2>3. j \in find_double_crlf(s) <=>
          s[j] = "r" /\ s[j + 1] = "n" /\ s[j + 2] = "r" /\ s[j + 3] = "n"
    BY <2>1, Terminator
  <2> QED BY <2>1, <2>2, <2>3
<1>4. ASSUME NEW j \in find_double_crlf(s) PROVE i <= j
  <2>1. j \in 1 .. Len(s) - 3
    BY Terminator
  <2> QED BY <1>1, <1>2, <1>3, <2>1
<1> QED BY <1>2, <1>3, <1>4 DEF IsFirst

\* Taking the first elements off a concatenation.
LEMMA SuffixConcat ==
  ASSUME NEW S, NEW a \in Seq(S), NEW b \in Seq(S), NEW n \in 0 .. Len(a)
  PROVE  /\ a \o b \in Seq(S) /\ Len(a \o b) = Len(a) + Len(b)
         /\ n \in 0 .. Len(a \o b)
         /\ Suffix(a \o b, n) = Suffix(a, n) \o b
         /\ Prefix(a \o b, n) = Prefix(a, n)
         /\ Suffix(a \o b, Len(a)) = b /\ Prefix(a \o b, Len(a)) = a
<1> DEFINE p == Prefix(a, n)
           q == Suffix(a, n)
<1>1. /\ p \in Seq(S) /\ Len(p) = n /\ q \in Seq(S) /\ p \o q = a
      /\ Len(a) \in Nat /\ Len(b) \in Nat
  BY Split, LenProperties
<1>2. /\ a \o b \in Seq(S) /\ Len(a \o b) = Len(a) + Len(b) /\ q \o b \in Seq(S)
  BY <1>1, ConcatProperties
<1>3. n \in 0 .. Len(a \o b) /\ Len(a) \in 0 .. Len(a \o b)
  BY <1>1, <1>2
<1> HIDE DEF p, q
<1>4. ASSUME NEW c \in Seq(S), NEW u \in Seq(S), NEW v \in Seq(S), c = u \o v
      PROVE  Prefix(c, Len(u)) = u /\ Suffix(c, Len(u)) = v
  <2>1. Len(u) \in 0 .. Len(c)
    BY <1>4, ConcatProperties, LenProperties
  <2>2. /\ Prefix(c, Len(u)) \in Seq(S) /\ Len(Prefix(c, Len(u))) = Len(u)
        /\ \A i \in 1 .. Len(u) : Prefix(c, Len(u))[i] = c[i]
        /\ Suffix(c, Len(u)) \in Seq(S) /\ Prefix(c, Len(u)) \o Suffix(c, Len(u)) = c
    BY <2>1, Split
  <2>3. \A i \in 1 .. Len(u) : c[i] = u[i]
    BY <1>4, ConcatProperties, LenProperties
  <2>4. Prefix(c, Len(u)) = u
    BY <2>2, <2>3, SeqEqual
  <2>5. u \o Suffix(c, Len(u)) = u \o v
    BY <1>4, <2>2, <2>4
  <2>6. Suffix(c, Len(u)) = v
    BY <2>2, <2>5, ConcatSimplifications
  <2> QED BY <2>4, <2>6
<1>5. a \o b = p \o (q \o b)
  <2>1. (p \o q) \o b = p \o (q \o b)
    <3>1. p \in Seq(S) /\ q \in Seq(S) /\ b \in Seq(S)
      BY <1>1
    <3> QED BY <3>1, ConcatAssociative
  <2> QED BY <1>1, <2>1
<1>6. Suffix(a \o b, Len(p)) = q \o b /\ Prefix(a \o b, Len(p)) = p
  <2> DEFINE c == a \o b
             v == q \o b
  <2>1. c \in Seq(S) /\ v \in Seq(S) /\ p \in Seq(S) /\ c = p \o v
    BY <1>1, <1>2, <1>5
  <2> HIDE DEF c, v
  <2>2. Prefix(c, Len(p)) = p /\ Suffix(c, Len(p)) = v
    BY <2>1, <1>4
  <2> QED BY <2>2 DEF c, v
<1>7. Suffix(a \o b, Len(a)) = b /\ Prefix(a \o b, Len(a)) = a
  BY <1>2, <1>4
<1> QED BY <1>1, <1>2, <1>3, <1>6, <1>7 DEF p, q

\* The peer's header block ends at the first terminator.
LEMMA HttpBegins ==
  ASSUME HttpPeer
  PROVE  net \in Seq(Byte) /\ payload \in Seq(Byte) /\ Headed(net)
<1>1. PICK h \in Headers, b \in Bodies : \E cut \in 0 .. Len(h \o CRLF2 \o b) :
        /\ net = SubSeq(h \o CRLF2 \o b, 1, cut)
        /\ payload = SubSeq(h \o CRLF2 \o b, Len(h) + 5, cut)
  BY DEF HttpPeer
<1> DEFINE hc == h \o CRLF2
           sent == hc \o b
<1>2. PICK cut \in 0 .. Len(sent) : net = Prefix(sent, cut)
                                    /\ payload = SubSeq(sent, Len(h) + 5, cut)
  BY <1>1 DEF Prefix
<1>3. h \in Seq(Text) /\ b \in Seq(Text) /\ CRLF2 \in Seq(Text) /\ Len(CRLF2) = 4
      /\ find_double_crlf(hc) = {Len(h) + 1}
  <2>1. \A i \in 1 .. 4 : CRLF2[i] \in Text
    <3>1. Range(CRLF2) \subseteq Text
      BY DEF Text
    <3> QED BY <3>1 DEF Range, CRLF2
  <2> QED BY <2>1, TextAssumption DEF CRLF2
<1>4. /\ hc \in Seq(Text) /\ Len(hc) = Len(h) + 4 /\ Len(h) \in Nat
      /\ sent \in Seq(Text) /\ Len(sent) \in Nat /\ Len(hc) \in 0 .. Len(sent)
      /\ Prefix(sent, Len(hc)) = hc
  <2>1. hc \in Seq(Text) /\ Len(hc) = Len(h) + 4 /\ Len(h) \in Nat
    <3>1. h \in Seq(Text) /\ CRLF2 \in Seq(Text) /\ Len(CRLF2) = 4
      BY <1>3
    <3>2. h \o CRLF2 \in Seq(Text) /\ Len(h \o CRLF2) = Len(h) + Len(CRLF2)
      BY <3>1, ConcatProperties
    <3> QED BY <3>1, <3>2, LenProperties
  <2> HIDE DEF hc
  <2>2. Len(b) \in Nat /\ Len(hc) \in Nat /\ Len(hc) \in 0 .. Len(hc)
    BY <1>3, <2>1, LenProperties
  <2>3. /\ sent \in Seq(Text) /\ Len(sent) = Len(hc) + Len(b)
        /\ Prefix(sent, Len(hc)) = hc
    <3>1. hc \in Seq(Text) /\ b \in Seq(Text) /\ Len(hc) \in 0 .. Len(hc)
      BY <1>3, <2>1, <2>2
    <3> QED BY <3>1, SuffixConcat
  <2> QED BY <2>1, <2>2, <2>3
<1> DEFINE m == Len(h) + 1
<1>5. IsFirst(m, hc)
  BY <1>3, <1>4 DEF IsFirst
<1> HIDE DEF hc, sent
<1>6. IsFirst(m, sent)
  BY <1>4, <1>5, FirstStays
<1>7. net \in Seq(Text) /\ Len(net) = cut /\ cut \in Nat /\ \A i \in 1 .. cut : net[i] = sent[i]
  <2>1. cut \in 0 .. Len(sent)
    BY <1>2 DEF sent, hc
  <2>2. sent \in Seq(Text)
    BY <1>4
  <2>3. /\ Prefix(sent, cut) \in Seq(Text) /\ Len(Prefix(sent, cut)) = cut
        /\ \A i \in 1 .. cut : Prefix(sent, cut)[i] = sent[i]
    BY <2>1, <2>2, Split
  <2> QED BY <1>2, <1>4, <2>1, <2>3
<1>8. Text \subseteq Byte
  BY DEF Byte
<1>9. CASE cut < Len(h) + 4
  <2>1. payload = <<>>
    BY <1>2, <1>4, <1>7, <1>9, SubSeqEmpty
  <2>2. ASSUME NEW i \in find_double_crlf(net) PROVE FALSE
    <3>1. /\ i \in 1 .. cut - 3
          /\ net[i] = "r" /\ net[i + 1] = "n" /\ net[i + 2] = "r" /\ net[i + 3] = "n"
      BY <1>7, <2>2, Terminator
    <3>2. /\ i \in 1 .. Len(sent) - 3
          /\ sent[i] = "r" /\ sent[i + 1] = "n" /\ sent[i + 2] = "r" /\ sent[i + 3] = "n"
      BY <1>2, <1>4, <1>7, <3>1
    <3>3. i \in find_double_crlf(sent)
      BY <1>4, <3>2, Terminator
    <3>4. m <= i
      BY <1>6, <3>3 DEF IsFirst
    <3> QED BY <1>4, <1>9, <3>1, <3>4
  <2> QED BY <1>7, <1>8, <2>1, <2>2, SeqMonotonic, EmptySeq DEF Headed
<1>10. CASE cut >= Len(h) + 4
  <2>1. Len(hc) \in 0 .. cut /\ Prefix(net, Len(hc)) = hc
    <3>1. Len(hc) \in 0 .. cut
      BY <1>4, <1>7, <1>10
    <3>2. /\ Prefix(net, Len(hc)) \in Seq(Text) /\ Len(Prefix(net, Len(hc))) = Len(hc)
          /\ \A i \in 1 .. Len(hc) : Prefix(net, Len(hc))[i] = net[i]
      BY <1>7, <3>1, Split
    <3>3. \A i \in 1 .. Len(hc) : Prefix(sent, Len(hc))[i] = sent[i]
      BY <1>4, Split
    <3>4. \A i \in 1 .. Len(hc) : net[i] = sent[i]
      BY <1>4, <1>7, <3>1
    <3>5. \A i \in 1 .. Len(hc) : Prefix(net, Len(hc))[i] = hc[i]
      BY <1>4, <3>2, <3>3, <3>4
    <3> QED BY <1>4, <3>1, <3>2, <3>5, SeqEqual
  <2>2. IsFirst(m, net)
    BY <1>5, <1>7, <2>1, FirstStays
  <2>3. payload = Suffix(net, m + 3) /\ payload \in Seq(Text)
    <3>1. m + 3 \in 0 .. cut
      BY <1>4, <1>7, <1>10
    <3>a. m + 3 \in 0 .. Len(net)
      BY <1>7, <3>1
    <3>2. /\ Suffix(net, m + 3) \in Seq(Text) /\ Len(Suffix(net, m + 3)) = cut - (m + 3)
          /\ \A i \in 1 .. cut - (m + 3) : Suffix(net, m + 3)[i] = net[m + 3 + i]
      <4>1. net \in Seq(Text) /\ Len(net) = cut
        BY <1>7
      <4>2. /\ Suffix(net, m + 3) \in Seq(Text) /\ Len(Suffix(net, m + 3)) = Len(net) - (m + 3)
            /\ \A i \in 1 .. Len(net) - (m + 3) : Suffix(net, m + 3)[i] = net[m + 3 + i]
        BY <3>a, <4>1, Split
      <4> QED BY <4>1, <4>2
    <3>3. /\ payload \in Seq(Text)
          /\ Len(payload) = IF m + 4 <= cut THEN cut - (m + 4) + 1 ELSE 0
          /\ \A i \in 1 .. cut - (m + 4) + 1 : payload[i] = sent[m + 4 + i - 1]
      <4>1. m + 4 \in Int /\ cut \in Int /\ \A i \in m + 4 .. cut : sent[i] \in Text
        BY <1>2, <1>4, <1>7, ElementOfSeq
      <4>2. payload = SubSeq(sent, m + 4, cut)
        BY <1>2, <1>4
      <4> QED BY <4>1, <4>2, SubSeqProperties
    <3>4. Len(payload) = cut - (m + 3) /\ cut - (m + 3) \in Nat /\ m \in Nat
      BY <1>4, <1>7, <3>1, <3>3
    <3>5. \A i \in 1 .. cut - (m + 3) : payload[i] = Suffix(net, m + 3)[i]
      <4> SUFFICES ASSUME NEW i \in 1 .. cut - (m + 3) PROVE payload[i] = Suffix(net, m + 3)[i]
        OBVIOUS
      <4>1. payload[i] = sent[m + 3 + i] /\ m + 3 + i \in 1 .. cut
        BY <1>4, <1>7, <3>3, <3>4
      <4> QED BY <1>7, <3>2, <4>1
    <3> QED BY <3>2, <3>3, <3>4, <3>5, SeqEqual
  <2> QED BY <1>7, <1>8, <2>2, <2>3, SeqMonotonic DEF Headed
<1> QED BY <1>4, <1>7, <1>9, <1>10

\* The same, of streams of bytes.
LEMMA Concat == \A s, t \in Seq(Byte) : s \o t \in Seq(Byte) /\ Len(s \o t) = Len(s) + Len(t)
BY ConcatProperties

\* Concatenation is associative.
LEMMA Assoc == \A s, t, u \in Seq(Byte) : (s \o t) \o u = s \o (t \o u)
<1> DEFINE S == Byte
<1>1. \A s, t, u \in Seq(S) : (s \o t) \o u = s \o (t \o u)
  <2> HIDE DEF S
  <2> QED BY ConcatAssociative
<1> QED BY <1>1

\* A concatenation is cut into its parts again.
LEMMA Cut == \A s, t \in Seq(Byte) : Prefix(s \o t, Len(s)) = s /\ Suffix(s \o t, Len(s)) = t
<1> SUFFICES ASSUME NEW s \in Seq(Byte), NEW t \in Seq(Byte)
             PROVE  Prefix(s \o t, Len(s)) = s /\ Suffix(s \o t, Len(s)) = t
  OBVIOUS
<1>1. Len(s) \in 0 .. Len(s)
  BY LenProperties
<1> QED BY <1>1, SuffixConcat

\* A step that passes p on to the caller, with r still to come.
Passes(p, r) ==
  /\ p \in Seq(Byte) /\ r \in Seq(Byte) /\ UNCHANGED payload
  /\ out \o (p \o r) = payload /\ out' = out \o p
  /\ \/ read_status' = read_status /\ (p = <<>> \/ read_status = "open")
     \/ /\ p = <<>> /\ read_status = "open"
        /\ read_status' = "failed" \/ (read_status' = "eof" /\ r = <<>>)

\* Such a step is one of ByteStream, or changes nothing there.
LEMMA Refines ==
  ASSUME out \in Seq(Byte), NEW p, NEW r, Passes(p, r)
  PROVE  [ReadStream!Next]_(ReadStream!vars)
<1> DEFINE input == SubSeq(payload, Len(out) + 1, Len(payload))
           t == p \o r
<1>1. /\ p \in Seq(Byte) /\ r \in Seq(Byte) /\ t \in Seq(Byte) /\ payload = out \o t
      /\ payload' = payload /\ out' = out \o p /\ out' \in Seq(Byte)
  BY ConcatProperties DEF Passes
<1>2. input = t
  <2>1. out \in Seq(Byte) /\ t \in Seq(Byte) /\ Len(out) \in 0 .. Len(out)
    BY <1>1, LenProperties
  <2> HIDE DEF t
  <2>2. Suffix(out \o t, Len(out)) = t
    BY <2>1, SuffixConcat
  <2> QED BY <1>1, <2>2 DEF Suffix
<1>3. input' = r
  <2>1. out' \in Seq(Byte) /\ p \in Seq(Byte) /\ r \in Seq(Byte)
    BY <1>1
  <2>2. Suffix(out' \o r, Len(out')) = r
    BY <2>1, Cut
  <2>3. out' \o r = payload
    <3>1. (out \o p) \o r = out \o (p \o r)
      BY <2>1, Assoc
    <3> QED BY <1>1, <3>1
  <2> QED BY <1>1, <2>2, <2>3 DEF Suffix
<1> HIDE DEF input
<1>4. CASE p # <<>>
  <2> DEFINE n == Len(p)
  <2>1. Len(p) \in 0 .. Len(p) /\ Len(p) \in Nat \ {0} /\ Len(r) \in Nat
    BY <1>1, <1>4, EmptySeq, LenProperties
  <2>2. Prefix(t, n) = p /\ Suffix(t, n) = r /\ n \in 1 .. Len(t)
    <3>1. p \in Seq(Byte) /\ r \in Seq(Byte)
      BY <1>1
    <3>2. Prefix(p \o r, Len(p)) = p /\ Suffix(p \o r, Len(p)) = r
          /\ Len(p \o r) = Len(p) + Len(r)
      BY <3>1, Cut, Concat
    <3> QED BY <2>1, <3>2
  <2>3. n \in 1 .. Len(input) /\ out' = out \o SubSeq(input, 1, n)
        /\ input' = SubSeq(input, n + 1, Len(input))
    BY <1>1, <1>2, <1>3, <2>2 DEF Prefix, Suffix
  <2>4. read_status = "open" /\ read_status' = read_status
    BY <1>4 DEF Passes
  <2> HIDE DEF n
  <2> QED BY <2>3, <2>4 DEF input, ReadStream!Next, ReadStream!Transfer
<1>5. CASE p = <<>>
  <2>1. out' = out /\ t = r
    BY <1>1, <1>5, ConcatEmptySeq
  <2>2. input' = input
    BY <1>2, <1>3, <2>1
  <2>3. CASE read_status' = read_status
    BY <2>1, <2>2, <2>3 DEF input, ReadStream!vars
  <2>4. CASE read_status = "open" /\ read_status' = "failed"
    BY <2>1, <2>2, <2>4 DEF input, ReadStream!Next, ReadStream!Break
  <2>5. CASE read_status = "open" /\ read_status' = "eof" /\ r = <<>>
    BY <1>2, <2>1, <2>2, <2>5 DEF input, ReadStream!Next, ReadStream!Finish
  <2> QED BY <2>3, <2>4, <2>5 DEF Passes
<1> QED BY <1>4, <1>5

\* The smaller of two numbers.
LEMMA AtMostIn == \A m, n \in Nat : AtMost(m, n) \in 0 .. m /\ AtMost(m, n) <= n
BY DEF AtMost

\* What is left of the first response is drained.
LEMMA LeftoverStep ==
  ASSUME ReadTypes, HttpInv, half = "read", kind = "http", read_status = "open",
         NEW room \in 1 .. MaxRoom, ReadLeftover(room)
  PROVE  ReadTypes' /\ HttpInv' /\ \E p, r : Passes(p, r)
<1> DEFINE n == AtMost(Len(leftover), room)
           p == Prefix(leftover, n)
           l == Suffix(leftover, n)
           r == l \o net
<1>1. /\ leftover # <<>> /\ out' = out \o p /\ leftover' = l
      /\ UNCHANGED <<kind, half, payload, net, first_response, response_scratch, read_status>>
  BY DEF ReadLeftover, source
<1>2. ~first_response /\ out \o leftover \o net = payload
  BY <1>1 DEF HttpInv, ReadTypes
<1>3. /\ out \in Seq(Byte) /\ leftover \in Seq(Byte) /\ net \in Seq(Byte)
      /\ n \in 0 .. Len(leftover)
  <2>1. Len(leftover) \in Nat /\ room \in Nat
    BY LenProperties, ReadBounds DEF ReadTypes
  <2> QED BY <2>1, AtMostIn DEF ReadTypes
<1> HIDE DEF n
<1>4. p \in Seq(Byte) /\ l \in Seq(Byte) /\ p \o l = leftover
  BY <1>3, Split
<1> HIDE DEF p, l
<1>5. /\ r \in Seq(Byte) /\ out' \in Seq(Byte) /\ out \o (p \o r) = payload
      /\ out' \o l \o net = payload
  <2>1. r \in Seq(Byte) /\ out' \in Seq(Byte) /\ out \o p \in Seq(Byte)
    BY <1>1, <1>3, <1>4, ConcatProperties
  <2>a. p \in Seq(Byte) /\ l \in Seq(Byte) /\ net \in Seq(Byte) /\ out \in Seq(Byte)
    BY <1>3, <1>4
  <2>2. out \o (p \o l) = (out \o p) \o l
    BY <2>a, Assoc
  <2>3. ((out \o p) \o l) \o net = (out \o p) \o (l \o net)
    <3> DEFINE s == out \o p
    <3>1. s \in Seq(Byte) /\ l \in Seq(Byte) /\ net \in Seq(Byte)
      BY <2>a, <2>1
    <3> HIDE DEF s
    <3>2. (s \o l) \o net = s \o (l \o net)
      BY <3>1, Assoc
    <3> QED BY <3>2 DEF s
  <2>4. (out \o p) \o r = out \o (p \o r)
    BY <2>a, <2>1, Assoc
  <2> HIDE DEF r
  <2>5. out \o leftover = (out \o p) \o l
    BY <1>4, <2>2
  <2> QED BY <1>1, <1>2, <2>1, <2>3, <2>4, <2>5 DEF r
<1> HIDE DEF r
<1>6. Passes(p, r)
  BY <1>1, <1>4, <1>5 DEF Passes
<1>7. ReadTypes' /\ HttpInv'
  BY <1>1, <1>2, <1>4, <1>5 DEF ReadTypes, HttpInv
<1> QED BY <1>6, <1>7

\* Bytes behind the first response are passed through.
LEMMA PassthroughStep ==
  ASSUME ReadTypes, HttpInv, half = "read", kind = "http", read_status = "open",
         NEW room \in 1 .. MaxRoom, NEW n \in 1 .. Len(net), Passthrough(n, room)
  PROVE  ReadTypes' /\ HttpInv' /\ \E p, r : Passes(p, r)
<1> DEFINE p == Prefix(net, n)
           r == Suffix(net, n)
<1>1. /\ leftover = <<>> /\ ~first_response /\ out' = out \o p /\ net' = r
      /\ UNCHANGED <<kind, half, payload, leftover, first_response, response_scratch, read_status>>
  BY DEF Passthrough, source, http
<1>2. out \in Seq(Byte) /\ net \in Seq(Byte) /\ n \in 0 .. Len(net)
  BY LenProperties DEF ReadTypes
<1>3. p \in Seq(Byte) /\ r \in Seq(Byte) /\ p \o r = net
  BY <1>2, Split
<1> HIDE DEF p, r
<1>4. out \o (p \o r) = payload
  <2>1. out \o leftover = out
    BY <1>1, <1>2, ConcatEmptySeq
  <2> QED BY <1>1, <1>3, <2>1 DEF HttpInv
<1>5. out' \in Seq(Byte) /\ out' \o leftover' \o net' = payload
  <2>1. out' \in Seq(Byte)
    BY <1>1, <1>2, <1>3, ConcatProperties
  <2>2. out' \o <<>> = out'
    BY <2>1, ConcatEmptySeq
  <2>3. (out \o p) \o r = out \o (p \o r)
    <3>1. p \in Seq(Byte) /\ r \in Seq(Byte) /\ out \in Seq(Byte)
      BY <1>2, <1>3
    <3> QED BY <3>1, Assoc
  <2> QED BY <1>1, <1>4, <2>1, <2>2, <2>3
<1>6. Passes(p, r)
  BY <1>1, <1>3, <1>4 DEF Passes
<1>7. ReadTypes' /\ HttpInv'
  BY <1>1, <1>3, <1>5 DEF ReadTypes, HttpInv
<1> QED BY <1>6, <1>7

\* Nothing is passed on, by a caller that has everything but r.
LEMMA PassesNothing ==
  ASSUME out \in Seq(Byte), NEW r \in Seq(Byte), out \o r = payload, read_status = "open",
         UNCHANGED <<out, payload>>,
         \/ read_status' \in {"open", "failed"}
         \/ read_status' = "eof" /\ r = <<>>
  PROVE  Passes(<<>>, r)
<1>1. <<>> \in Seq(Byte) /\ out \o <<>> = out /\ <<>> \o r = r
  BY ConcatEmptySeq, EmptySeq
<1> QED BY <1>1 DEF Passes

\* One more read of the first response.
LEMMA HeaderStep ==
  ASSUME ReadTypes, HttpInv, half = "read", kind = "http", read_status = "open",
         NEW room \in 1 .. MaxRoom, NEW n \in 1 .. Len(net), ReadHeader(n, room)
  PROVE  ReadTypes' /\ HttpInv' /\ \E p, r : Passes(p, r)
<1> DEFINE head == Prefix(net, n)
           tail == Suffix(net, n)
           s == response_scratch \o head
           t == response_scratch \o net
           found == find_double_crlf(s)
<1>1. /\ first_response /\ net' = tail
      /\ UNCHANGED <<kind, half, payload>>
  BY DEF ReadHeader, source
<1>2. /\ out = <<>> /\ leftover = <<>> /\ Headed(t)
      /\ net \in Seq(Byte) /\ response_scratch \in Seq(Byte) /\ payload \in Seq(Byte)
      /\ n \in 0 .. Len(net)
  BY <1>1, LenProperties DEF HttpInv, ReadTypes
<1>3. head \in Seq(Byte) /\ tail \in Seq(Byte) /\ head \o tail = net
  BY <1>2, Split
<1>4. s \in Seq(Byte) /\ s \o tail = t
  <2> HIDE DEF head, tail
  <2>1. head \in Seq(Byte) /\ tail \in Seq(Byte) /\ response_scratch \in Seq(Byte)
    BY <1>2, <1>3
  <2>2. (response_scratch \o head) \o tail = response_scratch \o (head \o tail)
    BY <2>1, Assoc
  <2>3. response_scratch \o head \in Seq(Byte)
    BY <2>1, Concat
  <2> QED BY <1>3, <2>2, <2>3
<1>5. CASE found = {}
  <2>1. /\ response_scratch' = s /\ read_status' \in {"failed", "open"}
        /\ UNCHANGED <<out, leftover, first_response>>
    BY <1>5 DEF ReadHeader
  <2>2. <<>> \o payload = payload
    BY <1>2, ConcatEmptySeq
  <2>3. Passes(<<>>, payload)
    BY <1>1, <1>2, <2>1, <2>2, PassesNothing, EmptySeq
  <2>4. HttpInv'
    <3>1. response_scratch' \o net' = t
      BY <1>1, <1>4, <2>1
    <3>2. Headed(response_scratch \o net)'
      <4> HIDE DEF t
      <4> QED BY <1>1, <1>2, <3>1 DEF Headed
    <3>3. find_double_crlf(response_scratch)' = {}
      BY <1>5, <2>1 DEF find_double_crlf
    <3> QED BY <1>1, <1>2, <2>1, <3>2, <3>3 DEF HttpInv
  <2>5. ReadTypes'
    BY <1>1, <1>3, <1>4, <2>1 DEF ReadTypes
  <2> QED BY <2>3, <2>4, <2>5
<1>6. CASE found # {}
  <2> DEFINE idx == CHOOSE i \in found : \A j \in found : i <= j
             rest == Suffix(s, body_start(idx) - 1)
             take == AtMost(Len(rest), room)
             p == Prefix(rest, take)
             l == Suffix(rest, take)
  <2>1. /\ out' = out \o p /\ leftover' = l /\ read_status' = "open"
        /\ first_response' = FALSE /\ response_scratch' = <<>>
    BY <1>6 DEF ReadHeader, AfterHeader
  <2>2. IsFirst(idx, s)
    <3>1. found \in SUBSET Nat
      <4> HIDE DEF s
      <4>1. s \in Seq(Byte) /\ Len(s) \in Nat
        BY <1>4, LenProperties
      <4>2. \A i \in find_double_crlf(s) : i \in 1 .. Len(s) - 3
        BY <4>1, Terminator
      <4> QED BY <4>1, <4>2
    <3>2. \E i \in found : \A j \in found : i <= j
      BY <1>6, <3>1, Least
    <3> QED BY <3>2 DEF IsFirst
  <2>3. Prefix(t, Len(s)) = s /\ t \in Seq(Byte) /\ Len(s) \in 0 .. Len(t)
    <3> HIDE DEF s, t, tail
    <3>1. Prefix(s \o tail, Len(s)) = s /\ Len(s \o tail) = Len(s) + Len(tail)
          /\ s \o tail \in Seq(Byte)
      BY <1>3, <1>4, Cut, Concat
    <3>2. Len(s) \in Nat /\ Len(tail) \in Nat
      BY <1>3, <1>4, LenProperties
    <3> QED BY <1>4, <3>1, <3>2
  <2> HIDE DEF idx, s, t, tail
  <2>4. IsFirst(idx, t) /\ idx \in 1 .. Len(s) - 3
    BY <2>2, <2>3, FirstStays
  <2>5. payload = Suffix(t, idx + 3)
    <3>1. PICK i : IsFirst(i, t) /\ payload = Suffix(t, i + 3)
      BY <1>2, <2>4 DEF Headed, IsFirst
    <3>2. i \in Int /\ idx \in Int /\ i <= idx /\ idx <= i
      BY <2>3, <2>4, <3>1, Terminator DEF IsFirst
    <3> QED BY <3>1, <3>2
  <2>6. rest = Suffix(s, idx + 3) /\ rest \in Seq(Byte) /\ payload = rest \o tail
    <3>1. Len(s) \in Nat /\ idx + 3 \in 0 .. Len(s)
      BY <1>4, <2>4, LenProperties
    <3>2. body_start(idx) - 1 = idx + 3
      BY <2>4 DEF body_start
    <3>3. Suffix(s \o tail, idx + 3) = Suffix(s, idx + 3) \o tail
      <4>1. s \in Seq(Byte) /\ tail \in Seq(Byte) /\ idx + 3 \in 0 .. Len(s)
        BY <1>3, <1>4, <3>1
      <4> HIDE DEF rest
      <4>2. \A k \in 0 .. Len(s) : Suffix(s \o tail, k) = Suffix(s, k) \o tail
        BY <4>1, SuffixConcat
      <4> QED BY <4>1, <4>2
    <3>4. Suffix(s, idx + 3) \in Seq(Byte)
      BY <1>4, <3>1, Split
    <3> QED BY <1>4, <2>5, <3>2, <3>3, <3>4
  <2> HIDE DEF rest
  <2>7. take \in 0 .. Len(rest)
    BY <2>6, AtMostIn, LenProperties, ReadBounds
  <2> HIDE DEF take
  <2>8. p \in Seq(Byte) /\ l \in Seq(Byte) /\ p \o l = rest
    BY <2>6, <2>7, Split
  <2> HIDE DEF p, l
  <2>9. l \o tail \in Seq(Byte) /\ p \o (l \o tail) = payload /\ (p \o l) \o tail = payload
    <3>1. p \in Seq(Byte) /\ l \in Seq(Byte) /\ tail \in Seq(Byte)
      BY <1>3, <2>8
    <3>2. (p \o l) \o tail = p \o (l \o tail) /\ l \o tail \in Seq(Byte)
      BY <3>1, Assoc, Concat
    <3> QED BY <2>6, <2>8, <3>2
  <2>10. out' = p /\ <<>> \o payload = payload
    BY <1>2, <2>1, <2>8, ConcatEmptySeq
  <2>11. Passes(p, l \o tail)
    BY <1>1, <1>2, <2>1, <2>8, <2>9, <2>10 DEF Passes
  <2>12. HttpInv'
    BY <1>1, <2>1, <2>9, <2>10 DEF HttpInv
  <2>13. ReadTypes'
    BY <1>1, <1>3, <2>1, <2>8, <2>10, EmptySeq DEF ReadTypes
  <2> QED BY <2>11, <2>12, <2>13
<1> QED BY <1>5, <1>6

\* What is still to come, when the inner stream is looked at.
LEMMA HttpOwed ==
  ASSUME ReadTypes, HttpInv, half = "read", kind = "http"
  PROVE  \E r \in Seq(Byte) : out \o r = payload /\ (net = <<>> /\ leftover = <<>> => r = <<>>)
<1>0. {net, leftover, out, payload, response_scratch} \subseteq Seq(Byte)
  BY DEF ReadTypes
<1>1. CASE first_response
  <2>1. out = <<>> /\ find_double_crlf(response_scratch) = {} /\ Headed(response_scratch \o net)
    BY <1>1 DEF HttpInv
  <2>2. <<>> \o payload = payload /\ response_scratch \o <<>> = response_scratch
    BY <1>0, ConcatEmptySeq
  <2>3. net = <<>> => payload = <<>>
    BY <2>1, <2>2 DEF Headed, IsFirst
  <2> QED BY <1>0, <2>1, <2>2, <2>3
<1>2. CASE ~first_response
  <2>1. (out \o leftover) \o net = payload
    BY <1>2 DEF HttpInv, ReadTypes
  <2>2. (out \o leftover) \o net = out \o (leftover \o net) /\ leftover \o net \in Seq(Byte)
    <3>1. out \in Seq(Byte) /\ leftover \in Seq(Byte) /\ net \in Seq(Byte)
      BY <1>0
    <3> QED BY <3>1, Assoc, Concat
  <2>3. <<>> \o <<>> = <<>>
    BY <1>0, ConcatEmptySeq, EmptySeq
  <2> QED BY <2>1, <2>2, <2>3
<1> QED BY <1>1, <1>2 DEF ReadTypes

-----------------------------------------------------------------------------
(* The read side: TlsObfs.                                                 *)

Length == 0 .. Base * Base - 1

\* The elements of a concatenation.
LEMMA Joined ==
  ASSUME NEW s \in Seq(Nat), NEW t \in Seq(Nat)
  PROVE  /\ s \o t \in Seq(Nat) /\ Len(s \o t) = Len(s) + Len(t)
         /\ Len(s) \in Nat /\ Len(t) \in Nat
         /\ \A j \in 1 .. Len(s) : (s \o t)[j] = s[j]
         /\ \A j \in 1 .. Len(t) : (s \o t)[Len(s) + j] = t[j]
<1> DEFINE c == s \o t
<1>1. Len(s) \in Nat /\ Len(t) \in Nat
  BY LenProperties
<1>2. /\ c \in Seq(Nat) /\ Len(c) = Len(s) + Len(t)
      /\ \A j \in 1 .. Len(s) + Len(t) : c[j] = IF j <= Len(s) THEN s[j] ELSE t[j - Len(s)]
  BY ConcatProperties
<1> HIDE DEF c
<1>3. ASSUME NEW j \in 1 .. Len(t)
      PROVE  Len(s) + j \in 1 .. Len(s) + Len(t) /\ ~(Len(s) + j <= Len(s))
             /\ (Len(s) + j) - Len(s) = j
  BY <1>1
<1>4. \A j \in 1 .. Len(s) : j \in 1 .. Len(s) + Len(t) /\ j <= Len(s)
  BY <1>1
<1> QED BY <1>1, <1>2, <1>3, <1>4 DEF c

\* A record: no payload in its head, its length, then payload only.
LEMMA FramedBytes ==
  ASSUME NEW head \in Nat, NEW k \in Nat, NEW n \in Length
  PROVE  LET f == Framed(head, k, n)
         IN /\ f \in Seq(Nat) /\ Len(f) = head + 2 + n
            /\ \A j \in 1 .. head + 2 : f[j] <= Base
            /\ f[head + 1] * Base + f[head + 2] = n
            /\ \A j \in head + 3 .. head + 2 + n : f[j] > Base
<1> DEFINE h == n \div Base
           l == n % Base
           p == Pad(head)
           m == <<h, l>>
           d == [i \in 1 .. n |-> Base + k + i]
           f == p \o m \o d
<1>1. Base \in Nat \ {0, 1} /\ n \in Nat /\ n < Base * Base
  <2>1. Base \in Nat /\ Base * Base \in Nat
    BY KindsAssumption
  <2> QED BY <2>1, KindsAssumption DEF Length
<1>2. h \in Nat /\ l \in 0 .. Base - 1 /\ h * Base + l = n
  BY <1>1
<1>3. h <= Base
  <2> SUFFICES ASSUME h > Base PROVE FALSE
    BY <1>1, <1>2
  <2> HIDE DEF h, l
  <2>1. h * Base >= Base * Base
    BY <1>1, <1>2
  <2> QED BY <1>1, <1>2, <2>1
<1> HIDE DEF h, l
<1>4. p \in Seq(Nat) /\ Len(p) = head /\ \A j \in 1 .. head : p[j] = 0
  BY DEF Pad
<1>5. m \in Seq(Nat) /\ Len(m) = 2 /\ m[1] = h /\ m[2] = l
  BY <1>2
<1>6. d \in Seq(Nat) /\ Len(d) = n /\ \A j \in 1 .. n : d[j] = Base + k + j
  BY <1>1
<1> HIDE DEF p, m, d
<1>7. /\ p \o m \in Seq(Nat) /\ Len(p \o m) = head + 2
      /\ \A j \in 1 .. head : (p \o m)[j] = 0
      /\ (p \o m)[head + 1] = h /\ (p \o m)[head + 2] = l
  <2> DEFINE c == p \o m
  <2>1. /\ c \in Seq(Nat) /\ Len(c) = Len(p) + Len(m)
        /\ \A j \in 1 .. Len(p) : c[j] = p[j]
        /\ \A j \in 1 .. Len(m) : c[Len(p) + j] = m[j]
    BY <1>4, <1>5, Joined
  <2>2. 1 \in 1 .. Len(m) /\ 2 \in 1 .. Len(m)
    BY <1>5
  <2> HIDE DEF c
  <2>3. c[head + 1] = m[1] /\ c[head + 2] = m[2]
    BY <1>4, <2>1, <2>2
  <2> QED BY <1>4, <1>5, <2>1, <2>3 DEF c
<1> DEFINE pm == p \o m
<1> HIDE DEF pm
<1>8. /\ f \in Seq(Nat) /\ Len(f) = head + 2 + n
      /\ \A j \in 1 .. head + 2 : f[j] = pm[j]
      /\ \A j \in head + 3 .. head + 2 + n : f[j] = d[j - (head + 2)]
  <2>1. pm \in Seq(Nat) /\ Len(pm) = head + 2 /\ f = pm \o d
    BY <1>7 DEF pm
  <2>a. pm \in Seq(Nat) /\ d \in Seq(Nat)
    BY <1>6, <2>1
  <2>b. /\ pm \o d \in Seq(Nat) /\ Len(pm \o d) = Len(pm) + Len(d)
        /\ \A j \in 1 .. Len(pm) : (pm \o d)[j] = pm[j]
        /\ \A j \in 1 .. Len(d) : (pm \o d)[Len(pm) + j] = d[j]
    BY <2>a, Joined
  <2>2. /\ f \in Seq(Nat) /\ Len(f) = Len(pm) + Len(d)
        /\ \A j \in 1 .. Len(pm) : f[j] = pm[j]
        /\ \A j \in 1 .. Len(d) : f[Len(pm) + j] = d[j]
    <3> HIDE DEF f
    <3> QED BY <2>1, <2>b
  <2>3. ASSUME NEW j \in head + 3 .. head + 2 + n
        PROVE  j - (head + 2) \in 1 .. n /\ (head + 2) + (j - (head + 2)) = j
    BY <1>1
  <2> HIDE DEF f
  <2> QED BY <1>1, <1>6, <2>1, <2>2, <2>3
<1> HIDE DEF f
<1>9. \A j \in 1 .. head + 2 : f[j] <= Base
  <2> SUFFICES ASSUME NEW j \in 1 .. head + 2 PROVE f[j] <= Base
    OBVIOUS
  <2>1. j \in 1 .. head \/ j = head + 1 \/ j = head + 2
    OBVIOUS
  <2>2. f[j] = pm[j]
    BY <1>8
  <2>3. pm[j] = 0 \/ pm[j] = h \/ pm[j] = l
    BY <1>7, <2>1 DEF pm
  <2> HIDE DEF pm
  <2> QED BY <1>1, <1>2, <1>3, <2>2, <2>3
<1>10. f[head + 1] * Base + f[head + 2] = n
  <2>1. head + 1 \in 1 .. head + 2 /\ head + 2 \in 1 .. head + 2
    OBVIOUS
  <2>2. f[head + 1] = h /\ f[head + 2] = l
    BY <1>7, <1>8, <2>1 DEF pm
  <2> QED BY <1>2, <2>2
<1>11. \A j \in head + 3 .. head + 2 + n : f[j] > Base
  <2> SUFFICES ASSUME NEW j \in head + 3 .. head + 2 + n PROVE f[j] > Base
    OBVIOUS
  <2>1. j - (head + 2) \in 1 .. n
    BY <1>1
  <2>2. f[j] = Base + k + (j - (head + 2))
    BY <1>6, <1>8, <2>1
  <2> QED BY <1>1, <2>1, <2>2
<1> QED BY <1>8, <1>9, <1>10, <1>11 DEF f, d, m, p, h, l, Framed

\* The recursive function inside Response.
Sends(sent, q, n) ==
  sent = [i \in 0 .. n |-> IF i = 0 THEN <<>>
                           ELSE sent[i - 1] \o Framed(HeadOf(i), Len(sent[i - 1]), q[i])]

\* There are the bytes of every sequence of records.
LEMMA SentExists ==
  ASSUME NEW q, NEW n \in Nat
  PROVE  \E sent : Sends(sent, q, n)
<1> DEFINE N == {k \in Nat : \E sent : Sends(sent, q, k)}
<1>1. 0 \in N
  <2> DEFINE sent == [i \in 0 .. 0 |-> <<>>]
  <2>1. Sends(sent, q, 0)
    BY DEF Sends
  <2> QED BY <2>1
<1>2. ASSUME NEW k \in N PROVE k + 1 \in N
  <2>1. PICK old : Sends(old, q, k)
    OBVIOUS
  <2> DEFINE sent == [i \in 0 .. k + 1 |->
                        IF i \in 0 .. k THEN old[i]
                        ELSE old[i - 1] \o Framed(HeadOf(i), Len(old[i - 1]), q[i])]
  <2>2. ASSUME NEW i \in 0 .. k + 1
        PROVE  sent[i] = IF i = 0 THEN <<>>
                         ELSE sent[i - 1] \o Framed(HeadOf(i), Len(sent[i - 1]), q[i])
    <3>1. CASE i = k + 1
      BY <3>1
    <3>2. CASE i \in 0 .. k
      <4>1. old[i] = IF i = 0 THEN <<>>
                     ELSE old[i - 1] \o Framed(HeadOf(i), Len(old[i - 1]), q[i])
        BY <2>1, <3>2 DEF Sends
      <4>2. sent[i] = old[i] /\ (i # 0 => sent[i - 1] = old[i - 1])
        BY <3>2
      <4> QED BY <4>1, <4>2
    <3> QED BY <3>1, <3>2
  <2>3. Sends(sent, q, k + 1)
    <3>1. sent = [i \in 0 .. k + 1 |-> sent[i]]
      OBVIOUS
    <3> HIDE DEF sent
    <3> QED BY <2>2, <3>1 DEF Sends
  <2>4. k + 1 \in Nat
    OBVIOUS
  <2> HIDE DEF sent
  <2> QED BY <2>3, <2>4
<1>3. N = Nat
  <2>1. N \in SUBSET Nat
    OBVIOUS
  <2> HIDE DEF N
  <2> QED BY <1>1, <1>2, <2>1, Induction
<1> QED BY <1>3

\* Record i of the lengths q, in the stream R, behind a[i - 1] bytes.
RecordIn(R, q, a, i) ==
  LET b == a[i - 1] + HeadOf(i)
  IN /\ a[i] = b + 2 + q[i] /\ a[i] <= Len(R)
     /\ \A j \in a[i - 1] + 1 .. b + 2 : R[j] <= Base
     /\ R[b + 1] * Base + R[b + 2] = q[i]
     /\ \A j \in b + 3 .. a[i] : R[j] > Base

\* R is the first n records, a[i] bytes to the end of the i-th.
AreRecords(R, q, a, n) ==
  /\ R \in Seq(Nat) /\ a \in [0 .. n -> Nat]
  /\ a[0] = 0 /\ a[n] = Len(R)
  /\ \A i \in 1 .. n : RecordIn(R, q, a, i)

\* One record more.
LEMMA RecordMore ==
  ASSUME NEW q \in Seq(Length), NEW n \in Nat, n + 1 <= Len(q), NEW R, NEW a, AreRecords(R, q, a, n)
  PROVE  LET more == R \o Framed(HeadOf(n + 1), Len(R), q[n + 1])
             to == [i \in 0 .. n + 1 |-> IF i = n + 1 THEN Len(more) ELSE a[i]]
         IN AreRecords(more, q, to, n + 1)
<1> DEFINE head == HeadOf(n + 1)
           f == Framed(head, Len(R), q[n + 1])
           more == R \o f
           to == [i \in 0 .. n + 1 |-> IF i = n + 1 THEN Len(more) ELSE a[i]]
<1>1. q[n + 1] \in Length /\ Len(R) \in Nat /\ head \in Nat /\ R \in Seq(Nat)
  <2>1. n + 1 \in 1 .. Len(q)
    BY LenProperties
  <2> QED BY <2>1, LenProperties, ReadBounds DEF AreRecords, HeadOf
<1> HIDE DEF head
<1>2. /\ f \in Seq(Nat) /\ Len(f) = head + 2 + q[n + 1]
      /\ \A j \in 1 .. head + 2 : f[j] <= Base
      /\ f[head + 1] * Base + f[head + 2] = q[n + 1]
      /\ \A j \in head + 3 .. head + 2 + q[n + 1] : f[j] > Base
  BY <1>1, FramedBytes
<1> HIDE DEF f
<1>3. /\ more \in Seq(Nat) /\ Len(more) = Len(R) + Len(f)
      /\ \A j \in 1 .. Len(R) : more[j] = R[j]
      /\ \A j \in 1 .. Len(f) : more[Len(R) + j] = f[j]
  <2>1. Len(f) \in Nat /\ f \in Seq(Nat) /\ R \in Seq(Nat)
    BY <1>1, <1>2, LenProperties
  <2> QED BY <2>1, Joined
<1> HIDE DEF more
<1>4. q[n + 1] \in Nat
  <2>1. Base \in Nat /\ Base * Base \in Nat
    BY KindsAssumption
  <2> QED BY <1>1, <2>1 DEF Length
<1>5. /\ a \in [0 .. n -> Nat] /\ a[0] = 0 /\ a[n] = Len(R)
      /\ \A i \in 1 .. n : RecordIn(R, q, a, i)
  BY DEF AreRecords
<1>6. /\ to \in [0 .. n + 1 -> Nat] /\ to[n + 1] = Len(more)
      /\ \A i \in 0 .. n : to[i] = a[i]
  <2>1. Len(more) \in Nat /\ n + 1 \in 0 .. n + 1
    BY <1>3, LenProperties
  <2>2. \A i \in 0 .. n + 1 : i # n + 1 => i \in 0 .. n
    OBVIOUS
  <2>3. \A i \in 0 .. n : i # n + 1 /\ i \in 0 .. n + 1
    OBVIOUS
  <2> QED BY <1>5, <2>1, <2>2, <2>3
<1> HIDE DEF to
<1>7. ASSUME NEW i \in 1 .. n PROVE RecordIn(more, q, to, i)
  <2> DEFINE b == a[i - 1] + HeadOf(i)
  <2>1. i - 1 \in 0 .. n /\ i \in 0 .. n /\ to[i] = a[i] /\ to[i - 1] = a[i - 1]
    BY <1>6
  <2>2. a[i - 1] \in Nat /\ a[i] \in Nat /\ HeadOf(i) \in Nat /\ b \in Nat
    BY <1>5, <2>1, ReadBounds DEF HeadOf
  <2> HIDE DEF b
  <2>3. /\ a[i] = b + 2 + q[i] /\ a[i] <= Len(R)
        /\ \A j \in a[i - 1] + 1 .. b + 2 : R[j] <= Base
        /\ R[b + 1] * Base + R[b + 2] = q[i]
        /\ \A j \in b + 3 .. a[i] : R[j] > Base
    BY <1>5 DEF RecordIn, b
  <2>4. q[i] \in Nat
    <3>1. i \in 1 .. Len(q)
      BY LenProperties
    <3>2. Base \in Nat /\ Base * Base \in Nat
      BY KindsAssumption
    <3> QED BY <3>1, <3>2 DEF Length
  <2>5. a[i] <= Len(more)
    BY <1>1, <1>2, <1>3, <1>4, <2>2, <2>3
  <2>6. \A j \in a[i - 1] + 1 .. a[i] : more[j] = R[j]
    <3>1. \A j \in a[i - 1] + 1 .. a[i] : j \in 1 .. Len(R)
      BY <1>1, <2>2, <2>3
    <3> QED BY <1>3, <3>1
  <2>7. b >= a[i - 1]
    BY <2>2 DEF b
  <2>8. \A j \in a[i - 1] + 1 .. b + 2 : j \in a[i - 1] + 1 .. a[i]
    BY <2>2, <2>3, <2>4
  <2>9. \A j \in b + 3 .. a[i] : j \in a[i - 1] + 1 .. a[i]
    BY <2>2, <2>7
  <2>10. b + 1 \in a[i - 1] + 1 .. b + 2 /\ b + 2 \in a[i - 1] + 1 .. b + 2
    BY <2>2, <2>7
  <2>11. more[b + 1] = R[b + 1] /\ more[b + 2] = R[b + 2]
    BY <2>6, <2>8, <2>10
  <2>12. /\ \A j \in a[i - 1] + 1 .. b + 2 : more[j] <= Base
         /\ \A j \in b + 3 .. a[i] : more[j] > Base
    BY <2>3, <2>6, <2>8, <2>9
  <2> QED BY <2>1, <2>3, <2>5, <2>11, <2>12 DEF RecordIn, b
<1>8. RecordIn(more, q, to, n + 1)
  <2> DEFINE l == Len(R)
             b == l + head
  <2>1. to[n] = l /\ (n + 1) - 1 = n
    BY <1>5, <1>6
  <2>2. to[n + 1] = b + 2 + q[n + 1] /\ b \in Nat
    <3>1. Len(more) = l + (head + 2 + q[n + 1])
      BY <1>2, <1>3
    <3>2. l \in Nat
      BY <1>1
    <3> HIDE DEF l
    <3>3. to[n + 1] = l + (head + 2 + q[n + 1])
      BY <1>6, <3>1
    <3>4. head \in Nat /\ q[n + 1] \in Nat
      BY <1>1, <1>4
    <3> QED BY <3>2, <3>3, <3>4
  <2>3. ASSUME NEW j \in l + 1 .. to[n + 1]
        PROVE  j - l \in 1 .. Len(f) /\ more[j] = f[j - l]
    <3>1. j - l \in 1 .. Len(f) /\ l + (j - l) = j
      BY <1>1, <1>2, <1>4, <2>2
    <3> QED BY <1>3, <3>1
  <2>4. \A j \in l + 1 .. b + 2 : more[j] <= Base
    <3> SUFFICES ASSUME NEW j \in l + 1 .. b + 2 PROVE more[j] <= Base
      OBVIOUS
    <3>1. j \in l + 1 .. to[n + 1] /\ j - l \in 1 .. head + 2
      BY <1>1, <1>4, <2>2
    <3> QED BY <1>2, <2>3, <3>1
  <2>5. \A j \in b + 3 .. to[n + 1] : more[j] > Base
    <3> SUFFICES ASSUME NEW j \in b + 3 .. to[n + 1] PROVE more[j] > Base
      OBVIOUS
    <3>1. j \in l + 1 .. to[n + 1] /\ j - l \in head + 3 .. head + 2 + q[n + 1]
      BY <1>1, <1>4, <2>2
    <3> QED BY <1>2, <2>3, <3>1
  <2>6. more[b + 1] = f[head + 1] /\ more[b + 2] = f[head + 2]
    <3>1. /\ head + 1 \in 1 .. Len(f) /\ head + 2 \in 1 .. Len(f)
          /\ l + (head + 1) = b + 1 /\ l + (head + 2) = b + 2
      BY <1>1, <1>2, <1>4
    <3>2. \A j \in 1 .. Len(f) : more[l + j] = f[j]
      BY <1>3
    <3>3. more[l + (head + 1)] = f[head + 1] /\ more[l + (head + 2)] = f[head + 2]
      BY <3>1, <3>2
    <3> HIDE DEF l, b
    <3> QED BY <3>1, <3>3
  <2>7. more[b + 1] * Base + more[b + 2] = q[n + 1]
    BY <1>2, <2>6
  <2>8. to[n + 1] <= Len(more)
    <3>1. Len(more) \in Nat
      BY <1>3, LenProperties
    <3> QED BY <1>6, <3>1
  <2> HIDE DEF l, b
  <2>9. b = to[n] + HeadOf(n + 1)
    BY <2>1 DEF b, head
  <2> QED BY <2>1, <2>2, <2>4, <2>5, <2>7, <2>8, <2>9 DEF RecordIn
<1>9. \A i \in 1 .. n + 1 : i = n + 1 \/ i \in 1 .. n
  OBVIOUS
<1>10. to[0] = 0
  BY <1>5, <1>6
<1>11. AreRecords(more, q, to, n + 1)
  BY <1>3, <1>6, <1>7, <1>8, <1>9, <1>10 DEF AreRecords
<1> QED BY <1>11 DEF to, more, f, head

\* What the peer sends is its records, one after the other.
LEMMA ResponseIs ==
  ASSUME NEW q \in Seq(Length)
  PROVE  \E a : AreRecords(Response(q), q, a, Len(q))
<1> DEFINE sent == CHOOSE sent : Sends(sent, q, Len(q))
           N == {k \in Nat : k <= Len(q) => \E a : AreRecords(sent[k], q, a, k)}
<1>0. Len(q) \in Nat
  BY LenProperties
<1>1. Response(q) = sent[Len(q)]
  BY DEF Response, Sends
<1>2. Sends(sent, q, Len(q))
  BY <1>0, SentExists
<1> HIDE DEF sent
<1>3. 0 \in N
  <2>1. sent[0] = <<>>
    BY <1>0, <1>2 DEF Sends
  <2>2. AreRecords(<<>>, q, [i \in 0 .. 0 |-> 0], 0)
    BY DEF AreRecords
  <2>3. \E a : AreRecords(sent[0], q, a, 0)
    BY <2>1, <2>2
  <2> QED BY <2>3
<1>4. ASSUME NEW k \in N PROVE k + 1 \in N
  <2> SUFFICES ASSUME k + 1 <= Len(q)
               PROVE  \E a : AreRecords(sent[k + 1], q, a, k + 1)
    OBVIOUS
  <2>1. sent[k + 1] = sent[k] \o Framed(HeadOf(k + 1), Len(sent[k]), q[k + 1])
    <3>1. k + 1 \in 0 .. Len(q) /\ k + 1 # 0 /\ (k + 1) - 1 = k
      BY <1>0
    <3> QED BY <1>2, <3>1 DEF Sends
  <2>2. PICK a : AreRecords(sent[k], q, a, k)
    BY <1>0
  <2>3. k \in Nat
    OBVIOUS
  <2> QED BY <2>1, <2>2, <2>3, RecordMore
<1>5. N = Nat
  <2>1. N \in SUBSET Nat
    OBVIOUS
  <2> HIDE DEF N
  <2> QED BY <1>3, <1>4, <2>1, Induction
<1> QED BY <1>0, <1>1, <1>5

\* What is on its way are the bytes of R behind the first r.
Ahead(R, r) == r + Len(net) <= Len(R) /\ \A j \in 1 .. Len(net) : net[j] = R[r + j]

\* The parser is in record i.
Where(R, q, a, r, i) ==
  LET b == a[i - 1] + HeadOf(i)
  IN \/ At("discard") /\ read_phase.n <= HeadOf(i) /\ r + read_phase.n = b
     \/ /\ At("length") /\ r = b + len_progress
        /\ \A k \in 1 .. len_progress : len_buf[k] = R[b + k]
     \/ At("payload") /\ i <= Len(q) /\ read_phase.n <= q[i] /\ r + read_phase.n = a[i]

TlsTypes == /\ read_phase \in [at : {"discard", "length", "payload"}, n : Nat]
            /\ len_buf \in [1 .. 2 -> Nat] /\ len_progress \in 0 .. 2

InRecords == \E q \in Seq(Length), r \in Nat : \E R, a : \E i \in 1 .. Len(q) + 1 :
               AreRecords(R, q, a, Len(q)) /\ Ahead(R, r) /\ Where(R, q, a, r, i)

\* The payload is what the caller has and what of it is on its way.
TlsOwed == payload = out \o PayloadOf(net)

TlsInv == half = "read" /\ kind = "tls" => TlsTypes /\ TlsOwed /\ InRecords

\* Where a record is in the bytes of all of them.
LEMMA RecordAt ==
  ASSUME NEW q \in Seq(Length), NEW R, NEW a, AreRecords(R, q, a, Len(q)),
         NEW i \in 1 .. Len(q) + 1
  PROVE  /\ Len(q) \in Nat /\ i \in Nat \ {0} /\ Len(R) \in Nat /\ R \in Seq(Nat)
         /\ a[i - 1] \in Nat /\ HeadOf(i) \in Nat
         /\ a[i - 1] <= Len(R) /\ (a[i - 1] < Len(R) => i <= Len(q))
         /\ i <= Len(q) => /\ q[i] \in Nat /\ a[i] \in Nat /\ RecordIn(R, q, a, i)
                           /\ (i + 1) - 1 = i /\ i + 1 \in 1 .. Len(q) + 1
<1>1. /\ Len(q) \in Nat /\ i \in Nat \ {0} /\ Len(R) \in Nat /\ R \in Seq(Nat)
      /\ i - 1 \in 0 .. Len(q) /\ HeadOf(i) \in Nat
  <2>1. Len(q) \in Nat
    BY LenProperties
  <2> QED BY <2>1, LenProperties, ReadBounds DEF AreRecords, HeadOf
<1>2. /\ \A k \in 0 .. Len(q) : a[k] \in Nat
      /\ a[0] = 0 /\ a[Len(q)] = Len(R)
      /\ \A k \in 1 .. Len(q) : RecordIn(R, q, a, k)
  BY DEF AreRecords
<1>3. a[i - 1] <= Len(R)
  <2>1. i - 1 = 0 \/ i - 1 \in 1 .. Len(q)
    BY <1>1
  <2>2. \A k \in 1 .. Len(q) : a[k] <= Len(R)
    BY <1>2 DEF RecordIn
  <2> QED BY <1>1, <1>2, <2>1, <2>2
<1>4. a[i - 1] < Len(R) => i <= Len(q)
  <2>1. i > Len(q) => i - 1 = Len(q)
    BY <1>1
  <2> QED BY <1>1, <1>2, <2>1
<1>5. ASSUME i <= Len(q)
      PROVE  /\ q[i] \in Nat /\ a[i] \in Nat /\ RecordIn(R, q, a, i)
             /\ (i + 1) - 1 = i /\ i + 1 \in 1 .. Len(q) + 1
  <2>1. i \in 1 .. Len(q) /\ i \in 0 .. Len(q)
    BY <1>1, <1>5
  <2>2. Length \subseteq Nat
    <3>1. Base \in Nat /\ Base * Base \in Nat
      BY KindsAssumption
    <3> QED BY <3>1 DEF Length
  <2>3. q[i] \in Length
    BY <2>1
  <2>4. a[i] \in Nat /\ RecordIn(R, q, a, i)
    BY <1>2, <2>1
  <2>5. (i + 1) - 1 = i /\ i + 1 \in 1 .. Len(q) + 1
    BY <1>1, <1>5
  <2> QED BY <2>2, <2>3, <2>4, <2>5
<1> QED BY <1>1, <1>2, <1>3, <1>4, <1>5

\* Reading n bytes off the network leaves the later ones of the same records.
LEMMA Window ==
  ASSUME net \in Seq(Byte), NEW n \in 1 .. Len(net), net' = Suffix(net, n),
         NEW R, NEW r \in Nat, Len(R) \in Nat, Ahead(R, r)
  PROVE  /\ Ahead(R, r + n)' /\ r + n \in Nat /\ r + n <= Len(R) /\ r < Len(R)
         /\ \A j \in 1 .. n : net[j] = R[r + j]
<1>1. Len(net) \in Nat /\ n \in 0 .. Len(net)
  BY LenProperties
<1>2. Len(net') = Len(net) - n /\ \A j \in 1 .. Len(net) - n : net'[j] = net[n + j]
  BY <1>1, Split
<1>3. \A j \in 1 .. Len(net) - n : n + j \in 1 .. Len(net) /\ r + (n + j) = (r + n) + j
  BY <1>1
<1>4. Ahead(R, r + n)'
  BY <1>1, <1>2, <1>3 DEF Ahead
<1> QED BY <1>1, <1>4 DEF Ahead

\* Bytes of framing are thrown away, bytes of payload are passed on.
LEMMA TakeStep ==
  ASSUME net \in Seq(Byte), out \in Seq(Byte), TlsOwed, read_status = "open",
         NEW n \in 1 .. Len(net), net' = Suffix(net, n), UNCHANGED <<payload, read_status>>,
         \/ out' = out /\ \A j \in 1 .. n : net[j] \in 0 .. Base
         \/ out' = out \o Prefix(net, n) /\ \A j \in 1 .. n : net[j] \notin 0 .. Base
  PROVE  TlsOwed' /\ net' \in Seq(Byte) /\ out' \in Seq(Byte) /\ \E p, r : Passes(p, r)
<1> DEFINE h == Prefix(net, n)
           t == Suffix(net, n)
           p == PayloadOf(h)
           r == PayloadOf(t)
<1>1. /\ h \in Seq(Byte) /\ t \in Seq(Byte) /\ h \o t = net /\ Len(h) = n
      /\ \A j \in 1 .. n : h[j] = net[j]
  <2>1. n \in 0 .. Len(net)
    BY LenProperties
  <2> QED BY <2>1, Split
<1> HIDE DEF h, t
<1>2. p \in Seq(Byte) /\ r \in Seq(Byte)
  BY <1>1, WithoutPicks DEF PayloadOf
<1>3. PayloadOf(net) = p \o r
  <2>1. PayloadOf(h \o t) = p \o r
    BY <1>1, WithoutConcat DEF PayloadOf
  <2> QED BY <1>1, <2>1
<1>4. out' = out \o p
  <2>1. CASE out' = out /\ \A j \in 1 .. n : net[j] \in 0 .. Base
    <3>1. p = <<>>
      BY <1>1, <2>1, WithoutAll DEF PayloadOf
    <3>2. out \o <<>> = out
      BY ConcatEmptySeq
    <3> QED BY <2>1, <3>1, <3>2
  <2>2. CASE out' = out \o Prefix(net, n) /\ \A j \in 1 .. n : net[j] \notin 0 .. Base
    <3>1. p = h
      BY <1>1, <2>2, WithoutNone DEF PayloadOf
    <3> QED BY <2>2, <3>1 DEF h
  <2> QED BY <2>1, <2>2
<1>5. net' = t /\ payload = out \o (p \o r)
  BY <1>3 DEF TlsOwed, t
<1>6. PayloadOf(net)' = r
  BY <1>5 DEF PayloadOf
<1> HIDE DEF p, r
<1>7. (out \o p) \o r = out \o (p \o r) /\ out \o p \in Seq(Byte)
  BY <1>2, Assoc, Concat
<1>8. TlsOwed'
  BY <1>4, <1>5, <1>6, <1>7 DEF TlsOwed
<1>9. Passes(p, r)
  BY <1>2, <1>4, <1>5 DEF Passes
<1> QED BY <1>1, <1>4, <1>5, <1>7, <1>8, <1>9

\* What is still to come, and a step that takes no byte.
LEMMA QuietStep ==
  ASSUME net \in Seq(Byte), out \in Seq(Byte), TlsOwed, read_status = "open",
         UNCHANGED <<net, out, payload>>,
         \/ read_status' \in {"open", "failed"}
         \/ read_status' = "eof" /\ net = <<>>
  PROVE  TlsOwed' /\ \E p, r : Passes(p, r)
<1>1. PayloadOf(net) \in Seq(Byte)
  BY WithoutPicks DEF PayloadOf
<1>2. PayloadOf(net)' = PayloadOf(net)
  BY DEF PayloadOf
<1>3. net = <<>> => PayloadOf(net) = <<>>
  BY WithoutEmpty DEF PayloadOf
<1>4. TlsOwed'
  BY <1>2 DEF TlsOwed
<1>5. Passes(<<>>, PayloadOf(net))
  BY <1>1, <1>3, PassesNothing DEF TlsOwed
<1> QED BY <1>4, <1>5

\* Which bytes of a record are framing.
LEMMA RecordBytes ==
  ASSUME NEW q \in Seq(Length), NEW R, NEW a, AreRecords(R, q, a, Len(q)),
         NEW i \in 1 .. Len(q) + 1
  PROVE  LET b == a[i - 1] + HeadOf(i)
         IN /\ b \in Nat /\ a[i - 1] \in Nat /\ a[i - 1] <= b /\ Len(R) \in Nat
            /\ a[i - 1] <= Len(R) /\ (a[i - 1] < Len(R) => i <= Len(q))
            /\ i <= Len(q) =>
                 /\ q[i] \in Nat /\ a[i] \in Nat /\ a[i] = b + 2 + q[i] /\ a[i] <= Len(R)
                 /\ R[b + 1] * Base + R[b + 2] = q[i]
                 /\ \A j \in Nat : a[i - 1] < j /\ j <= b + 2 => R[j] \in 0 .. Base
                 /\ \A j \in Nat : b + 2 < j /\ j <= a[i] => R[j] > Base /\ R[j] \in Nat
<1> DEFINE b == a[i - 1] + HeadOf(i)
<1>1. /\ Len(R) \in Nat /\ R \in Seq(Nat)
      /\ a[i - 1] \in Nat /\ HeadOf(i) \in Nat
      /\ a[i - 1] <= Len(R) /\ (a[i - 1] < Len(R) => i <= Len(q))
      /\ i <= Len(q) => q[i] \in Nat /\ a[i] \in Nat /\ RecordIn(R, q, a, i)
  BY RecordAt
<1>2. b \in Nat /\ a[i - 1] <= b
  BY <1>1
<1>3. ASSUME i <= Len(q)
      PROVE  /\ a[i] = b + 2 + q[i] /\ a[i] <= Len(R)
             /\ R[b + 1] * Base + R[b + 2] = q[i]
             /\ \A j \in Nat : a[i - 1] < j /\ j <= b + 2 => R[j] \in 0 .. Base
             /\ \A j \in Nat : b + 2 < j /\ j <= a[i] => R[j] > Base /\ R[j] \in Nat
  <2>1. /\ a[i] = b + 2 + q[i] /\ a[i] <= Len(R)
        /\ \A j \in a[i - 1] + 1 .. b + 2 : R[j] <= Base
        /\ R[b + 1] * Base + R[b + 2] = q[i]
        /\ \A j \in b + 3 .. a[i] : R[j] > Base
    BY <1>1, <1>3 DEF RecordIn
  <2>2. q[i] \in Nat /\ a[i] \in Nat
    BY <1>1, <1>3
  <2> DEFINE c == a[i - 1]
  <2>a. b \in Nat /\ c \in Nat /\ c <= b /\ Len(R) \in Nat /\ b + 2 <= Len(R) /\ Base \in Nat
    <3>1. b \in Nat /\ c \in Nat /\ c <= b /\ Len(R) \in Nat /\ Base \in Nat
      BY <1>1, <1>2, KindsAssumption
    <3> HIDE DEF b, c
    <3>2. b + 2 <= Len(R)
      BY <2>1, <2>2, <3>1
    <3> QED BY <3>1, <3>2
  <2>b. \A j \in 1 .. Len(R) : R[j] \in Nat
    BY <1>1, LenProperties
  <2> HIDE DEF b, c
  <2>3. ASSUME NEW j \in Nat, c < j, j <= b + 2 PROVE R[j] \in 0 .. Base
    <3>1. j \in c + 1 .. b + 2 /\ j \in 1 .. Len(R)
      BY <2>a, <2>3
    <3>2. R[j] \in Nat /\ R[j] <= Base
      BY <2>1, <2>b, <3>1 DEF c
    <3> QED BY <2>a, <3>2
  <2>4. ASSUME NEW j \in Nat, b + 2 < j, j <= a[i] PROVE R[j] > Base /\ R[j] \in Nat
    <3>1. j \in b + 3 .. a[i] /\ j \in 1 .. Len(R)
      BY <2>1, <2>2, <2>a, <2>4
    <3> QED BY <2>1, <2>b, <3>1
  <2> QED BY <2>1, <2>3, <2>4 DEF c
<1> QED BY <1>1, <1>2, <1>3

\* What every step of the parser starts from.
LEMMA Parsing ==
  ASSUME ReadTypes, TlsInv, half = "read", kind = "tls"
  PROVE  /\ net \in Seq(Byte) /\ out \in Seq(Byte) /\ payload \in Seq(Byte) /\ Len(net) \in Nat
         /\ TlsTypes /\ TlsOwed /\ InRecords
         /\ read_phase.n \in Nat /\ len_progress \in 0 .. 2 /\ Base \in Nat
BY LenProperties, KindsAssumption DEF ReadTypes, TlsInv, TlsTypes

\* poll_read of TLS that throws framing away.
LEMMA DiscardStep ==
  ASSUME ReadTypes, TlsInv, half = "read", kind = "tls", read_status = "open",
         NEW n \in 1 .. Len(net), Discard(n)
  PROVE  ReadTypes' /\ TlsInv' /\ \E p, r : Passes(p, r)
<1>1. /\ At("discard") /\ n <= read_phase.n /\ net' = Suffix(net, n)
      /\ read_phase' = [at |-> "discard", n |-> read_phase.n - n]
      /\ UNCHANGED <<kind, half, payload, len_buf, len_progress, first_response,
                     response_scratch, leftover, out, read_status>>
  BY DEF Discard, Phase, source, http
<1>2. /\ net \in Seq(Byte) /\ out \in Seq(Byte) /\ payload \in Seq(Byte) /\ Len(net) \in Nat
      /\ TlsTypes /\ TlsOwed /\ InRecords
      /\ read_phase.n \in Nat /\ len_progress \in 0 .. 2 /\ Base \in Nat
  BY Parsing
<1>3. PICK q \in Seq(Length), r \in Nat : \E R, a : \E i \in 1 .. Len(q) + 1 :
        AreRecords(R, q, a, Len(q)) /\ Ahead(R, r) /\ Where(R, q, a, r, i)
  BY <1>2 DEF InRecords
<1>b. PICK R, a : \E i \in 1 .. Len(q) + 1 :
        AreRecords(R, q, a, Len(q)) /\ Ahead(R, r) /\ Where(R, q, a, r, i)
  BY <1>3
<1>4. PICK i \in 1 .. Len(q) + 1 :
        AreRecords(R, q, a, Len(q)) /\ Ahead(R, r) /\ Where(R, q, a, r, i)
  BY <1>b
<1> DEFINE b == a[i - 1] + HeadOf(i)
           c == a[i - 1]
           m == read_phase.n
<1>5. /\ b \in Nat /\ c \in Nat /\ c <= b /\ Len(R) \in Nat
      /\ c <= Len(R) /\ (c < Len(R) => i <= Len(q))
      /\ i <= Len(q) => \A j \in Nat : c < j /\ j <= b + 2 => R[j] \in 0 .. Base
  BY <1>4, RecordBytes
<1>6. m <= HeadOf(i) /\ r + m = b /\ m \in Nat /\ HeadOf(i) \in Nat /\ c + HeadOf(i) = b
      /\ n \in Nat \ {0} /\ n <= m
  BY <1>1, <1>2, <1>4, ReadBounds DEF Where, At, HeadOf
<1>7. /\ Ahead(R, r + n)' /\ r + n \in Nat /\ r < Len(R)
      /\ \A j \in 1 .. n : net[j] = R[r + j]
  <2>1. net \in Seq(Byte) /\ Len(R) \in Nat /\ Ahead(R, r) /\ net' = Suffix(net, n)
    BY <1>1, <1>2, <1>4, <1>5
  <2> HIDE DEF b, c, m
  <2> QED BY <2>1, Window
<1> HIDE DEF b, c, m
<1>8. i <= Len(q)
  BY <1>5, <1>6, <1>7
<1>9. \A j \in 1 .. n : net[j] \in 0 .. Base
  <2> SUFFICES ASSUME NEW j \in 1 .. n PROVE net[j] \in 0 .. Base
    OBVIOUS
  <2>1. r + j \in Nat /\ c < r + j /\ r + j <= b + 2
    BY <1>5, <1>6
  <2> QED BY <1>5, <1>7, <1>8, <2>1
<1>10. TlsOwed' /\ net' \in Seq(Byte) /\ out' \in Seq(Byte) /\ \E p, t : Passes(p, t)
  BY <1>1, <1>2, <1>9, TakeStep
<1>11. m - n \in Nat /\ (r + n) + (m - n) = b /\ m - n <= HeadOf(i)
  BY <1>5, <1>6
<1>12. TlsTypes'
  BY <1>1, <1>2, <1>11 DEF TlsTypes, m
<1>13. Where(R, q, a, r + n, i)'
  <2>1. read_phase'.at = "discard" /\ read_phase'.n = m - n
    BY <1>1 DEF m
  <2> QED BY <1>11, <2>1 DEF Where, At, b
<1>14. InRecords'
  BY <1>4, <1>7, <1>13 DEF InRecords
<1>15. ReadTypes'
  BY <1>1, <1>10 DEF ReadTypes
<1> QED BY <1>10, <1>12, <1>14, <1>15 DEF TlsInv

\* poll_read of TLS that reads a record's length.
LEMMA ReadLengthStep ==
  ASSUME ReadTypes, TlsInv, half = "read", kind = "tls", read_status = "open",
         NEW n \in 1 .. Len(net), ReadLength(n)
  PROVE  ReadTypes' /\ TlsInv' /\ \E p, r : Passes(p, r)
<1>1. /\ At("length") /\ n <= 2 - len_progress /\ net' = Suffix(net, n)
      /\ len_buf' = [j \in 1 .. 2 |-> IF \E i \in 1 .. n : len_progress + i = j
                                      THEN net[CHOOSE i \in 1 .. n : len_progress + i = j]
                                      ELSE len_buf[j]]
      /\ len_progress' = len_progress + n
      /\ UNCHANGED <<kind, half, payload, read_phase, first_response, response_scratch,
                     leftover, out, read_status>>
  BY DEF ReadLength, LenSlot, source, http
<1>2. /\ net \in Seq(Byte) /\ out \in Seq(Byte) /\ payload \in Seq(Byte) /\ Len(net) \in Nat
      /\ TlsTypes /\ TlsOwed /\ InRecords
      /\ read_phase.n \in Nat /\ len_progress \in 0 .. 2 /\ Base \in Nat
  BY Parsing
<1>3. PICK q \in Seq(Length), r \in Nat : \E R, a : \E i \in 1 .. Len(q) + 1 :
        AreRecords(R, q, a, Len(q)) /\ Ahead(R, r) /\ Where(R, q, a, r, i)
  BY <1>2 DEF InRecords
<1>b. PICK R, a : \E i \in 1 .. Len(q) + 1 :
        AreRecords(R, q, a, Len(q)) /\ Ahead(R, r) /\ Where(R, q, a, r, i)
  BY <1>3
<1>4. PICK i \in 1 .. Len(q) + 1 :
        AreRecords(R, q, a, Len(q)) /\ Ahead(R, r) /\ Where(R, q, a, r, i)
  BY <1>b
<1> DEFINE b == a[i - 1] + HeadOf(i)
           c == a[i - 1]
           l == len_progress
<1>5. /\ b \in Nat /\ c \in Nat /\ c <= b /\ Len(R) \in Nat
      /\ c <= Len(R) /\ (c < Len(R) => i <= Len(q))
      /\ i <= Len(q) => \A j \in Nat : c < j /\ j <= b + 2 => R[j] \in 0 .. Base
  BY <1>4, RecordBytes
<1>6. r = b + l /\ \A k \in 1 .. l : len_buf[k] = R[b + k]
  BY <1>1, <1>4 DEF Where, At
<1>7. /\ Ahead(R, r + n)' /\ r + n \in Nat /\ r < Len(R)
      /\ \A j \in 1 .. n : net[j] = R[r + j]
  <2>1. net \in Seq(Byte) /\ Len(R) \in Nat /\ Ahead(R, r) /\ net' = Suffix(net, n)
    BY <1>1, <1>2, <1>4, <1>5
  <2> HIDE DEF b, c, l
  <2> QED BY <2>1, Window
<1>a. l \in Nat /\ n \in Nat \ {0} /\ n <= 2 - l
  BY <1>1, <1>2
<1> HIDE DEF b, c, l
<1>8. i <= Len(q)
  BY <1>a, <1>5, <1>6, <1>7
<1>9. \A j \in 1 .. n : net[j] \in 0 .. Base
  <2> SUFFICES ASSUME NEW j \in 1 .. n PROVE net[j] \in 0 .. Base
    OBVIOUS
  <2>1. r + j \in Nat /\ c < r + j /\ r + j <= b + 2
    <3>1. j \in Nat /\ 1 <= j /\ j <= n /\ b \in Nat /\ c \in Nat /\ c <= b /\ r = b + l
      BY <1>a, <1>5, <1>6
    <3> QED BY <1>a, <3>1
  <2> QED BY <1>5, <1>7, <1>8, <2>1
<1>10. TlsOwed' /\ net' \in Seq(Byte) /\ out' \in Seq(Byte) /\ \E p, t : Passes(p, t)
  BY <1>1, <1>2, <1>9, TakeStep
<1>11. l + n \in 0 .. 2 /\ r + n = b + (l + n)
  BY <1>a, <1>5, <1>6
<1>12. ASSUME NEW k \in 1 .. 2
       PROVE  /\ len_buf'[k] \in Nat
              /\ k <= l => len_buf'[k] = len_buf[k]
              /\ k > l /\ k <= l + n => len_buf'[k] = R[b + k]
  <2> DEFINE x == CHOOSE x \in 1 .. n : l + x = k
  <2>1. CASE \E x1 \in 1 .. n : l + x1 = k
    <3>1. x \in 1 .. n /\ l + x = k
      BY <2>1
    <3>2. len_buf'[k] = net[x]
      BY <1>1, <2>1 DEF l
    <3> HIDE DEF x
    <3>3. net[x] = R[r + x] /\ net[x] \in Nat
      <4>1. net[x] \in 0 .. Base /\ Base \in Nat
        BY <1>2, <1>9, <3>1
      <4> QED BY <1>7, <3>1, <4>1
    <3>4. r + x = b + k /\ ~(k <= l)
      BY <1>a, <1>5, <1>6, <3>1
    <3> QED BY <3>2, <3>3, <3>4
  <2>2. CASE ~\E x1 \in 1 .. n : l + x1 = k
    <3>1. len_buf'[k] = len_buf[k]
      BY <1>1, <2>2 DEF l
    <3>2. len_buf[k] \in Nat
      BY <1>2 DEF TlsTypes
    <3>3. ~(k > l /\ k <= l + n)
      <4>1. k > l /\ k <= l + n => k - l \in 1 .. n /\ l + (k - l) = k
        BY <1>a
      <4> QED BY <2>2, <4>1
    <3> QED BY <3>1, <3>2, <3>3
  <2> QED BY <2>1, <2>2
<1>13. TlsTypes'
  <2>1. len_buf' = [k \in 1 .. 2 |-> len_buf'[k]]
    BY <1>1
  <2>2. len_buf' \in [1 .. 2 -> Nat]
    BY <1>12, <2>1
  <2> QED BY <1>1, <1>2, <1>11, <2>2 DEF TlsTypes, l
<1>14. Where(R, q, a, r + n, i)'
  <2>1. \A k \in 1 .. l + n : len_buf'[k] = R[b + k]
    <3> SUFFICES ASSUME NEW k \in 1 .. l + n PROVE len_buf'[k] = R[b + k]
      OBVIOUS
    <3>1. k \in 1 .. 2 /\ (k <= l => k \in 1 .. l)
          /\ (k <= l \/ (k > l /\ k <= l + n))
      BY <1>a, <1>11
    <3> QED BY <1>6, <1>12, <3>1
  <2> QED BY <1>1, <1>11, <2>1 DEF Where, At, b, l
<1>15. InRecords'
  BY <1>4, <1>7, <1>14 DEF InRecords
<1>16. ReadTypes'
  BY <1>1, <1>10 DEF ReadTypes
<1> QED BY <1>10, <1>13, <1>15, <1>16 DEF TlsInv

\* poll_read of TLS that passes payload on.
LEMMA ReadPayloadStep ==
  ASSUME ReadTypes, TlsInv, half = "read", kind = "tls", read_status = "open",
         NEW n \in 1 .. Len(net), NEW room \in 1 .. MaxRoom, ReadPayload(n, room)
  PROVE  ReadTypes' /\ TlsInv' /\ \E p, r : Passes(p, r)
<1>1. /\ At("payload") /\ net' = Suffix(net, n) /\ out' = out \o Prefix(net, n)
      /\ read_phase' = [at |-> "payload", n |-> read_phase.n - n]
      /\ UNCHANGED <<kind, half, payload, len_buf, len_progress, first_response,
                     response_scratch, leftover, read_status>>
  BY DEF ReadPayload, Phase, source, http
<1>2. /\ net \in Seq(Byte) /\ out \in Seq(Byte) /\ payload \in Seq(Byte) /\ Len(net) \in Nat
      /\ TlsTypes /\ TlsOwed /\ InRecords
      /\ read_phase.n \in Nat /\ len_progress \in 0 .. 2 /\ Base \in Nat
  BY Parsing
<1>3. PICK q \in Seq(Length), r \in Nat : \E R, a : \E i \in 1 .. Len(q) + 1 :
        AreRecords(R, q, a, Len(q)) /\ Ahead(R, r) /\ Where(R, q, a, r, i)
  BY <1>2 DEF InRecords
<1>b. PICK R, a : \E i \in 1 .. Len(q) + 1 :
        AreRecords(R, q, a, Len(q)) /\ Ahead(R, r) /\ Where(R, q, a, r, i)
  BY <1>3
<1>4. PICK i \in 1 .. Len(q) + 1 :
        AreRecords(R, q, a, Len(q)) /\ Ahead(R, r) /\ Where(R, q, a, r, i)
  BY <1>b
<1> DEFINE b == a[i - 1] + HeadOf(i)
           e == a[i]
           m == read_phase.n
<1>5. i <= Len(q) /\ m <= q[i] /\ r + m = e /\ m \in Nat
  BY <1>1, <1>2, <1>4 DEF Where, At
<1>6. /\ b \in Nat /\ Len(R) \in Nat /\ q[i] \in Nat /\ e \in Nat /\ e = b + 2 + q[i]
      /\ \A j \in Nat : b + 2 < j /\ j <= e => R[j] > Base /\ R[j] \in Nat
  BY <1>4, <1>5, RecordBytes
<1>7. /\ Ahead(R, r + n)' /\ r + n \in Nat
      /\ \A j \in 1 .. n : net[j] = R[r + j]
  <2>1. net \in Seq(Byte) /\ Len(R) \in Nat /\ Ahead(R, r) /\ net' = Suffix(net, n)
    BY <1>1, <1>2, <1>4, <1>6
  <2> HIDE DEF b, e, m
  <2>2. /\ Ahead(R, r + n)' /\ r + n \in Nat /\ r + n <= Len(R) /\ r < Len(R)
        /\ \A j \in 1 .. n : net[j] = R[r + j]
    BY <2>1, Window, SMTT(60)
  <2> QED BY <2>2
<1>8. n \in Nat /\ n <= m
  <2>1. room \in Nat
    BY ReadBounds
  <2> QED BY <1>2, <2>1 DEF ReadPayload, Space, AtMost
<1> HIDE DEF b, e, m
<1>9. \A j \in 1 .. n : net[j] \notin 0 .. Base
  <2> SUFFICES ASSUME NEW j \in 1 .. n PROVE net[j] \notin 0 .. Base
    OBVIOUS
  <2>1. r + j \in Nat /\ b + 2 < r + j /\ r + j <= e
    <3>1. j \in Nat /\ 1 <= j /\ j <= n
      BY <1>8
    <3>2. r \in Nat /\ e = b + 2 + q[i] /\ r + m = e /\ m <= q[i] /\ q[i] \in Nat /\ b \in Nat
      BY <1>5, <1>6
    <3> QED BY <1>5, <1>8, <3>1, <3>2
  <2>2. R[r + j] > Base /\ R[r + j] \in Nat
    BY <1>6, <2>1
  <2>3. net[j] > Base /\ net[j] \in Nat
    BY <1>7, <2>2
  <2>4. Base \in Nat
    BY <1>2
  <2> QED BY <2>3, <2>4
<1>10. TlsOwed' /\ net' \in Seq(Byte) /\ out' \in Seq(Byte) /\ \E p, t : Passes(p, t)
  BY <1>1, <1>2, <1>9, TakeStep
<1>11. m - n \in Nat /\ (r + n) + (m - n) = e /\ m - n <= q[i]
  BY <1>5, <1>6, <1>8
<1>12. TlsTypes'
  BY <1>1, <1>2, <1>11 DEF TlsTypes, m
<1>13. Where(R, q, a, r + n, i)'
  <2>1. read_phase'.at = "payload" /\ read_phase'.n = m - n
    BY <1>1 DEF m
  <2> QED BY <1>5, <1>11, <2>1 DEF Where, At, e
<1>14. InRecords'
  BY <1>4, <1>7, <1>13 DEF InRecords
<1>15. ReadTypes'
  BY <1>1, <1>10 DEF ReadTypes
<1> QED BY <1>10, <1>12, <1>14, <1>15 DEF TlsInv

\* The steps from phase to phase.
LEMMA PhaseStep ==
  ASSUME ReadTypes, TlsInv, half = "read", kind = "tls", read_status = "open",
         DiscardDone \/ LengthDone \/ RecordDone
  PROVE  ReadTypes' /\ TlsInv' /\ \E p, r : Passes(p, r)
<1>1. UNCHANGED <<kind, half, payload, net, len_buf, first_response,
                  response_scratch, leftover, out, read_status>>
  BY DEF DiscardDone, LengthDone, RecordDone, source, http
<1>2. /\ net \in Seq(Byte) /\ out \in Seq(Byte) /\ payload \in Seq(Byte) /\ Len(net) \in Nat
      /\ TlsTypes /\ TlsOwed /\ InRecords
      /\ read_phase.n \in Nat /\ len_progress \in 0 .. 2 /\ Base \in Nat
  BY Parsing
<1>3. PICK q \in Seq(Length), r \in Nat : \E R, a : \E i \in 1 .. Len(q) + 1 :
        AreRecords(R, q, a, Len(q)) /\ Ahead(R, r) /\ Where(R, q, a, r, i)
  BY <1>2 DEF InRecords
<1>b. PICK R, a : \E i \in 1 .. Len(q) + 1 :
        AreRecords(R, q, a, Len(q)) /\ Ahead(R, r) /\ Where(R, q, a, r, i)
  BY <1>3
<1>4. PICK i \in 1 .. Len(q) + 1 :
        AreRecords(R, q, a, Len(q)) /\ Ahead(R, r) /\ Where(R, q, a, r, i)
  BY <1>b
<1> DEFINE b == a[i - 1] + HeadOf(i)
           c == a[i - 1]
<1>5. TlsOwed' /\ (\E p, t : Passes(p, t)) /\ ReadTypes' /\ Ahead(R, r)'
  <2>1. read_status' \in {"open", "failed"}
    BY <1>1
  <2>2. TlsOwed' /\ \E p, t : Passes(p, t)
    BY <1>1, <1>2, <2>1, QuietStep
  <2>3. ReadTypes'
    BY <1>1 DEF ReadTypes
  <2>4. Ahead(R, r)'
    BY <1>1, <1>4 DEF Ahead
  <2> QED BY <2>2, <2>3, <2>4
<1>6. ASSUME TlsTypes', NEW k \in 1 .. Len(q) + 1, Where(R, q, a, r, k)' PROVE InRecords'
  BY <1>4, <1>5, <1>6 DEF InRecords
<1>7. CASE DiscardDone
  <2>1. /\ At("discard") /\ read_phase.n = 0 /\ len_progress' = 0
        /\ read_phase' = [at |-> "length", n |-> 0]
    BY <1>7 DEF DiscardDone, Phase
  <2>2. r = b
    <3>1. r + read_phase.n = b
      BY <1>4, <2>1 DEF Where, At
    <3> QED BY <2>1, <3>1
  <2>3. r = b + 0
    BY <2>2
  <2>4. Where(R, q, a, r, i)'
    <3>1. read_phase'.at = "length" /\ \A k \in 1 .. 0 : len_buf'[k] = R[b + k]
      BY <2>1
    <3> HIDE DEF b
    <3> QED BY <2>1, <2>3, <3>1 DEF Where, At, b
  <2>5. TlsTypes'
    BY <1>1, <1>2, <2>1 DEF TlsTypes
  <2> QED BY <1>5, <1>6, <2>4, <2>5 DEF TlsInv
<1>8. CASE LengthDone
  <2>1. /\ At("length") /\ len_progress = 2 /\ UNCHANGED len_progress
        /\ read_phase' = [at |-> "payload", n |-> len_buf[1] * Base + len_buf[2]]
    BY <1>2, <1>8 DEF LengthDone, Phase
  <2>2. r = b + 2 /\ len_buf[1] = R[b + 1] /\ len_buf[2] = R[b + 2]
    BY <1>4, <2>1 DEF Where, At
  <2>3. /\ b \in Nat /\ c \in Nat /\ c <= b /\ Len(R) \in Nat
        /\ (c < Len(R) => i <= Len(q))
        /\ i <= Len(q) => /\ q[i] \in Nat /\ a[i] = b + 2 + q[i]
                          /\ R[b + 1] * Base + R[b + 2] = q[i]
    BY <1>4, RecordBytes
  <2>4. r <= Len(R)
    BY <1>2, <1>4, <2>3 DEF Ahead
  <2> HIDE DEF b, c
  <2>5. i <= Len(q)
    BY <2>2, <2>3, <2>4
  <2>6. read_phase'.at = "payload" /\ read_phase'.n = q[i] /\ q[i] \in Nat /\ r + q[i] = a[i]
    BY <2>1, <2>2, <2>3, <2>5
  <2>7. Where(R, q, a, r, i)'
    BY <2>5, <2>6 DEF Where, At
  <2>8. TlsTypes'
    BY <1>1, <1>2, <2>1, <2>6 DEF TlsTypes
  <2> QED BY <1>5, <1>6, <2>7, <2>8 DEF TlsInv
<1>9. CASE RecordDone
  <2>1. /\ At("payload") /\ read_phase.n = 0 /\ UNCHANGED len_progress
        /\ read_phase' = [at |-> "discard", n |-> HeaderDiscard]
    BY <1>9 DEF RecordDone, Phase
  <2>2. i <= Len(q) /\ r + read_phase.n = a[i]
    BY <1>4, <2>1 DEF Where, At
  <2>3. /\ i \in Nat \ {0} /\ (i + 1) - 1 = i /\ i + 1 \in 1 .. Len(q) + 1
        /\ a[i] \in Nat
    BY <1>4, <2>2, RecordAt
  <2>4. HeadOf(i + 1) = HeaderDiscard /\ HeaderDiscard \in Nat
    BY <2>3, ReadBounds DEF HeadOf
  <2>5. r + HeaderDiscard = a[(i + 1) - 1] + HeadOf(i + 1) /\ HeaderDiscard <= HeadOf(i + 1)
    BY <2>1, <2>2, <2>3, <2>4
  <2>6. Where(R, q, a, r, i + 1)'
    <3>1. read_phase'.at = "discard" /\ read_phase'.n = HeaderDiscard
      BY <2>1
    <3> QED BY <2>5, <3>1 DEF Where, At
  <2>7. TlsTypes'
    BY <1>1, <1>2, <2>1, <2>4 DEF TlsTypes
  <2> QED BY <1>5, <1>6, <2>3, <2>6, <2>7 DEF TlsInv
<1> QED BY <1>7, <1>8, <1>9

\* While the parser reads a payload, that is what is on its way.
LEMMA InStep ==
  ASSUME ReadTypes, TlsInv, half = "read", kind = "tls"
  PROVE  TlsInStep
<1> SUFFICES ASSUME At("payload")
             PROVE  LET k == AtMost(read_phase.n, Len(net))
                    IN /\ \A j \in 1 .. k : net[j] > Base
                       /\ Len(net) > read_phase.n => net[read_phase.n + 1] <= Base
  BY DEF TlsInStep
<1>2. Len(net) \in Nat /\ InRecords /\ read_phase.n \in Nat /\ Base \in Nat
  BY Parsing
<1>3. PICK q \in Seq(Length), r \in Nat : \E R, a : \E i \in 1 .. Len(q) + 1 :
        AreRecords(R, q, a, Len(q)) /\ Ahead(R, r) /\ Where(R, q, a, r, i)
  BY <1>2 DEF InRecords
<1>b. PICK R, a : \E i \in 1 .. Len(q) + 1 :
        AreRecords(R, q, a, Len(q)) /\ Ahead(R, r) /\ Where(R, q, a, r, i)
  BY <1>3
<1>4. PICK i \in 1 .. Len(q) + 1 :
        AreRecords(R, q, a, Len(q)) /\ Ahead(R, r) /\ Where(R, q, a, r, i)
  BY <1>b
<1> DEFINE b == a[i - 1] + HeadOf(i)
           e == a[i]
           m == read_phase.n
           l == Len(net)
<1>5. i <= Len(q) /\ m <= q[i] /\ r + m = e /\ m \in Nat
  BY <1>2, <1>4 DEF Where, At
<1>6. /\ b \in Nat /\ Len(R) \in Nat /\ q[i] \in Nat /\ e \in Nat /\ e = b + 2 + q[i]
      /\ \A j \in Nat : b + 2 < j /\ j <= e => R[j] > Base /\ R[j] \in Nat
  BY <1>4, <1>5, RecordBytes
<1>7. r + l <= Len(R) /\ \A j \in 1 .. l : net[j] = R[r + j]
  BY <1>4 DEF Ahead
<1>8. /\ i + 1 \in 1 .. Len(q) + 1 /\ (i + 1) - 1 = i
  BY <1>4, <1>5, RecordAt
<1>9. LET d == a[(i + 1) - 1] + HeadOf(i + 1)
      IN /\ d \in Nat /\ a[(i + 1) - 1] \in Nat /\ a[(i + 1) - 1] <= d
         /\ (a[(i + 1) - 1] < Len(R) => i + 1 <= Len(q))
         /\ i + 1 <= Len(q) =>
              \A j \in Nat : a[(i + 1) - 1] < j /\ j <= d + 2 => R[j] \in 0 .. Base
  <2> DEFINE k == i + 1
  <2>1. k \in 1 .. Len(q) + 1
    BY <1>8
  <2> HIDE DEF k
  <2>2. LET d == a[k - 1] + HeadOf(k)
        IN /\ d \in Nat /\ a[k - 1] \in Nat /\ a[k - 1] <= d
           /\ (a[k - 1] < Len(R) => k <= Len(q))
           /\ k <= Len(q) => \A j \in Nat : a[k - 1] < j /\ j <= d + 2 => R[j] \in 0 .. Base
    BY <1>4, <2>1, RecordBytes
  <2> QED BY <2>2 DEF k
<1>10. PICK d \in Nat :
         /\ e <= d /\ (e < Len(R) => \A j \in Nat : e < j /\ j <= d + 2 => R[j] \in 0 .. Base)
  BY <1>8, <1>9
<1> HIDE DEF b, e, m, l
<1>11. ASSUME NEW j \in 1 .. AtMost(m, l) PROVE net[j] > Base
  <2>1. j \in Nat /\ 1 <= j /\ j <= m /\ j <= l
    BY <1>2, <1>5, <1>11 DEF AtMost, l
  <2>2. r + j \in Nat /\ b + 2 < r + j /\ r + j <= e /\ j \in 1 .. l
    BY <1>2, <1>5, <1>6, <2>1 DEF l
  <2> QED BY <1>6, <1>7, <2>2
<1>12. ASSUME l > m PROVE net[m + 1] <= Base
  <2>1. r + (m + 1) \in Nat /\ r + (m + 1) = e + 1 /\ m + 1 \in 1 .. l /\ l \in Nat
    BY <1>2, <1>5, <1>6, <1>12 DEF l
  <2>2. e < Len(R) /\ e < r + (m + 1) /\ r + (m + 1) <= d + 2
    BY <1>5, <1>6, <1>7, <1>10, <1>12, <2>1
  <2>3. R[r + (m + 1)] \in 0 .. Base
    BY <1>10, <2>1, <2>2
  <2> QED BY <1>2, <1>7, <2>1, <2>3
<1> QED BY <1>11, <1>12 DEF m, l

-----------------------------------------------------------------------------
(* The read side.                                                          *)

ScratchInv == ScratchBounded /\ (read_status = "open" => Len(response_scratch) <= MAX_HEADER)

\* No read happens while another half is looked at.
Idle == half # "read" => first_response /\ out = <<>> /\ leftover = <<>> /\ At("discard")

ReadInv == ReadTypes /\ HttpInv /\ TlsInv /\ ScratchInv /\ Idle

\* The invariant of the TLS reader holds at the first record.
LEMMA TlsBegins ==
  ASSUME TlsPeer, out = <<>>, read_phase = [at |-> "discard", n |-> FirstDiscard],
         len_buf = <<0, 0>>, len_progress = 0
  PROVE  /\ net \in Seq(Byte) /\ payload \in Seq(Byte)
         /\ TlsTypes /\ TlsOwed /\ InRecords
<1>1. PICK q \in Records : \E cut \in 0 .. Len(Response(q)) : net = Prefix(Response(q), cut)
  BY DEF TlsPeer, Prefix
<1> DEFINE R == Response(q)
<1>2. q \in Seq(Length) /\ Records \subseteq Seq(Length)
  BY <1>1, ReadBounds DEF Length
<1>3. PICK a : AreRecords(R, q, a, Len(q))
  BY <1>2, ResponseIs
<1> HIDE DEF R
<1>4. PICK cut \in 0 .. Len(R) : net = Prefix(R, cut)
  BY <1>1 DEF R
<1>5. R \in Seq(Nat) /\ Len(R) \in Nat
  BY <1>3, LenProperties DEF AreRecords
<1>6. /\ net \in Seq(Nat) /\ Len(net) = cut
      /\ \A j \in 1 .. cut : net[j] = R[j]
  BY <1>4, <1>5, Split
<1>7. net \in Seq(Byte)
  BY <1>6, SeqMonotonic DEF Byte
<1>8. payload = PayloadOf(net) /\ payload \in Seq(Byte)
  BY <1>7, WithoutPicks DEF TlsPeer, PayloadOf
<1>9. <<>> \o payload = payload
  BY <1>8, ConcatEmptySeq
<1>10. Ahead(R, 0)
  BY <1>4, <1>5, <1>6 DEF Ahead
<1>11. 1 \in 1 .. Len(q) + 1 /\ 1 - 1 = 0
  BY <1>2, LenProperties
<1>12. Where(R, q, a, 0, 1)
  <2>1. a[0] = 0 /\ HeadOf(1) = FirstDiscard /\ FirstDiscard \in Nat
    BY <1>3, ReadBounds DEF AreRecords, HeadOf
  <2>2. read_phase.n = FirstDiscard /\ read_phase.at = "discard"
    OBVIOUS
  <2> QED BY <1>11, <2>1, <2>2 DEF Where, At
<1>13. InRecords
  <2>1. ASSUME NEW r \in Nat, NEW i \in 1 .. Len(q) + 1, Ahead(R, r), Where(R, q, a, r, i)
        PROVE  InRecords
    BY <1>2, <1>3, <2>1 DEF InRecords
  <2>2. 0 \in Nat
    OBVIOUS
  <2> QED BY <1>10, <1>11, <1>12, <2>1, <2>2
<1>14. TlsTypes
  BY ReadBounds DEF TlsTypes
<1> QED BY <1>7, <1>8, <1>9, <1>13, <1>14 DEF TlsOwed

\* The reader's invariant holds at first.
LEMMA ReadBegins == kind \in Kinds /\ ReadInit => ReadInv
<1> SUFFICES ASSUME kind \in Kinds, ReadInit PROVE ReadInv
  OBVIOUS
<1>1. /\ first_response = TRUE /\ response_scratch = <<>> /\ leftover = <<>>
      /\ out = <<>> /\ read_status = "open"
      /\ read_phase = [at |-> "discard", n |-> FirstDiscard]
      /\ len_buf = <<0, 0>> /\ len_progress = 0
      /\ kind \in {"http", "tls"}
  BY KindsAssumption DEF ReadInit
<1>2. <<>> \in Seq(Byte) /\ Len(<<>>) = 0
  BY EmptySeq
<1>3. ScratchInv
  <2>1. 0 <= MAX_HEADER /\ 0 <= MAX_HEADER + TmpSize
    BY ReadBounds
  <2> QED BY <1>1, <1>2, <2>1 DEF ScratchInv, ScratchBounded
<1>a. Idle
  BY <1>1 DEF Idle, At
<1>4. CASE half # "read"
  <2>1. net = <<>> /\ payload = <<>>
    BY <1>4 DEF ReadInit
  <2> QED BY <1>1, <1>2, <1>3, <1>4, <1>a, <2>1 DEF ReadInv, ReadTypes, HttpInv, TlsInv
<1>5. CASE half = "read" /\ kind = "http"
  <2>1. HttpPeer
    BY <1>5 DEF ReadInit
  <2>2. net \in Seq(Byte) /\ payload \in Seq(Byte) /\ Headed(net)
    BY <2>1, HttpBegins
  <2>3. <<>> \o net = net
    BY <2>2, ConcatEmptySeq
  <2>4. find_double_crlf(<<>>) = {}
    <3>1. Len(<<>>) - 3 = 0 - 3 /\ 1 .. 0 - 3 = {}
      BY <1>2
    <3> QED BY <3>1 DEF find_double_crlf
  <2>5. HttpInv
    BY <1>1, <2>2, <2>3, <2>4 DEF HttpInv
  <2> QED BY <1>1, <1>2, <1>3, <1>5, <1>a, <2>2, <2>5 DEF ReadInv, ReadTypes, TlsInv
<1>6. CASE half = "read" /\ kind = "tls"
  <2>1. TlsPeer
    BY <1>6 DEF ReadInit
  <2>2. /\ net \in Seq(Byte) /\ payload \in Seq(Byte)
        /\ TlsTypes /\ TlsOwed /\ InRecords
    BY <1>1, <2>1, TlsBegins
  <2> QED BY <1>1, <1>2, <1>3, <1>6, <1>a, <2>2 DEF ReadInv, ReadTypes, HttpInv, TlsInv
<1> QED BY <1>1, <1>4, <1>5, <1>6

\* The scratch buffer in each step.
LEMMA ScratchStep ==
  ASSUME ReadTypes, ScratchInv, ReadNext
  PROVE  ScratchInv'
<1>1. /\ response_scratch \in Seq(Byte) /\ net \in Seq(Byte)
      /\ Len(response_scratch) \in Nat /\ Len(net) \in Nat
      /\ MAX_HEADER \in Nat /\ TmpSize \in Nat
  BY LenProperties, ReadBounds DEF ReadTypes
<1>2. read_status = "open"
  BY DEF ReadNext, poll_read, InnerError
<1>3. CASE \E room \in 1 .. MaxRoom, n \in 1 .. Len(net) : ReadHeader(n, room)
  <2>1. PICK room \in 1 .. MaxRoom, n \in 1 .. Len(net) : ReadHeader(n, room)
    BY <1>3
  <2> DEFINE h == Prefix(net, n)
             s == response_scratch \o h
  <2>2. n <= TmpSize /\ n \in Nat /\ n \in 0 .. Len(net)
    BY <1>1, <2>1 DEF ReadHeader
  <2>3. h \in Seq(Byte) /\ Len(h) = n
    BY <1>1, <2>2, Split
  <2> HIDE DEF h
  <2>4. Len(s) = Len(response_scratch) + n
    BY <1>1, <2>3, Concat
  <2>5. CASE response_scratch' = <<>>
    <3>1. Len(<<>>) = 0
      OBVIOUS
    <3> QED BY <1>1, <2>5, <3>1 DEF ScratchInv, ScratchBounded
  <2>6. CASE response_scratch' = s /\ read_status' = IF TooLong(s) THEN "failed" ELSE "open"
    <3> HIDE DEF s
    <3>1. Len(s) <= MAX_HEADER + TmpSize /\ Len(s) \in Nat
      BY <1>1, <1>2, <2>2, <2>4 DEF ScratchInv
    <3>2. read_status' = "open" => Len(s) <= MAX_HEADER
      BY <1>1, <2>6, <3>1 DEF TooLong
    <3> QED BY <2>6, <3>1, <3>2 DEF ScratchInv, ScratchBounded
  <2> QED BY <2>1, <2>5, <2>6 DEF ReadHeader, h
<1>4. CASE response_scratch' = response_scratch
  BY <1>2, <1>4 DEF ScratchInv, ScratchBounded
<1>5. ReadNext => \/ response_scratch' = response_scratch
                  \/ \E room \in 1 .. MaxRoom, n \in 1 .. Len(net) : ReadHeader(n, room)
  BY DEF ReadNext, poll_read, poll_read_http, poll_read_tls, InnerError, ReadEof, ReadLeftover,
         Passthrough, Discard, DiscardDone, ReadLength, LengthDone, RecordDone, ReadPayload, http
<1> QED BY <1>3, <1>4, <1>5

\* A step that only tells the caller something.
LEMMA TellStep ==
  ASSUME ReadTypes, HttpInv, TlsInv, half = "read", read_status = "open",
         UNCHANGED <<source, net, http, tls, out>>, InnerRead,
         read_status' = "failed" \/ (read_status' = "eof" /\ net = <<>>)
  PROVE  ReadTypes' /\ HttpInv' /\ TlsInv' /\ \E p, r : Passes(p, r)
<1>1. /\ UNCHANGED <<kind, half, payload, net, out, first_response, response_scratch, leftover,
                     read_phase, len_buf, len_progress>>
      /\ out \in Seq(Byte) /\ net \in Seq(Byte) /\ payload \in Seq(Byte)
  BY DEF source, http, tls, ReadTypes
<1>2. ReadTypes'
  BY <1>1 DEF ReadTypes
<1>3. HttpInv'
  BY <1>1 DEF HttpInv, Headed, IsFirst, find_double_crlf
<1>4. TlsTypes' = TlsTypes /\ InRecords' = InRecords /\ TlsOwed' = TlsOwed
  BY <1>1 DEF TlsTypes, InRecords, Ahead, Where, At, TlsOwed, PayloadOf
<1>5. TlsInv'
  BY <1>1, <1>4 DEF TlsInv
<1>6. \E p, r : Passes(p, r)
  <2>1. CASE kind = "http"
    <3>1. leftover = <<>>
      BY <2>1 DEF InnerRead, HttpEof
    <3>2. PICK r \in Seq(Byte) : out \o r = payload /\ (net = <<>> /\ leftover = <<>> => r = <<>>)
      BY <2>1, HttpOwed
    <3>3. Passes(<<>>, r)
      BY <1>1, <3>1, <3>2, PassesNothing
    <3> QED BY <3>3
  <2>2. CASE kind = "tls"
    <3>1. TlsOwed
      BY <2>2 DEF TlsInv
    <3> QED BY <1>1, <3>1, QuietStep
  <2> QED BY <2>1, <2>2 DEF InnerRead
<1> QED BY <1>2, <1>3, <1>5, <1>6

\* Every step of the reader keeps its invariant and is one of the stream's.
LEMMA ReadStep ==
  ASSUME ReadInv, [ReadNext]_reading
  PROVE  ReadInv' /\ [ReadStream!Next]_(ReadStream!vars)
<1>1. ReadTypes /\ HttpInv /\ TlsInv /\ ScratchInv /\ Idle
  BY DEF ReadInv
<1>2. CASE ReadNext
  <2>1. half = "read" /\ read_status = "open"
    BY <1>2 DEF ReadNext, poll_read, InnerError
  <2>2. ScratchInv'
    BY <1>1, <1>2, ScratchStep
  <2>3. ReadTypes' /\ HttpInv' /\ TlsInv' /\ \E p, r : Passes(p, r)
    <3>1. CASE kind = "http" /\ poll_read_http
      <4>1. ReadTypes' /\ HttpInv' /\ \E p, r : Passes(p, r)
        BY <1>1, <2>1, <3>1, LeftoverStep, HeaderStep, PassthroughStep DEF poll_read_http
      <4>2. UNCHANGED kind
        BY <3>1 DEF poll_read_http, ReadLeftover, ReadHeader, Passthrough, source
      <4> QED BY <3>1, <4>1, <4>2 DEF TlsInv
    <3>2. CASE kind = "tls" /\ poll_read_tls
      <4>1. ReadTypes' /\ TlsInv' /\ \E p, r : Passes(p, r)
        BY <1>1, <2>1, <3>2, DiscardStep, ReadLengthStep, ReadPayloadStep, PhaseStep
           DEF poll_read_tls
      <4>2. UNCHANGED kind
        BY <3>2 DEF poll_read_tls, DiscardDone, LengthDone, RecordDone, Discard, ReadLength,
                    ReadPayload, source
      <4> QED BY <3>2, <4>1, <4>2 DEF HttpInv
    <3>3. CASE ReadEof \/ InnerError
      BY <1>1, <2>1, <3>3, TellStep DEF ReadEof, InnerError
    <3> QED BY <1>2, <3>1, <3>2, <3>3 DEF ReadNext, poll_read
  <2>a. Idle'
    <3>1. UNCHANGED half
      BY <1>2 DEF ReadNext, poll_read, poll_read_http, poll_read_tls, InnerError, ReadEof,
         ReadLeftover, ReadHeader, Passthrough, Discard, DiscardDone, ReadLength, LengthDone,
         RecordDone, ReadPayload, source
    <3> QED BY <2>1, <3>1 DEF Idle
  <2>4. out \in Seq(Byte)
    BY <1>1 DEF ReadTypes
  <2>5. [ReadStream!Next]_(ReadStream!vars)
    BY <2>3, <2>4, Refines
  <2> QED BY <2>2, <2>3, <2>5, <2>a DEF ReadInv
<1>3. CASE UNCHANGED reading
  <2>1. UNCHANGED <<kind, half, net, payload, first_response, response_scratch, leftover,
                    read_phase, len_buf, len_progress, out, read_status>>
    BY <1>3 DEF reading
  <2>2. ReadTypes' /\ ScratchInv' /\ Idle'
    BY <1>1, <2>1 DEF ReadTypes, ScratchInv, ScratchBounded, Idle, At
  <2>3. HttpInv'
    BY <1>1, <2>1 DEF HttpInv, Headed, IsFirst, find_double_crlf
  <2>4. TlsTypes' = TlsTypes /\ InRecords' = InRecords /\ TlsOwed' = TlsOwed
    BY <2>1 DEF TlsTypes, InRecords, Ahead, Where, At, TlsOwed, PayloadOf
  <2>5. TlsInv'
    BY <1>1, <2>1, <2>4 DEF TlsInv
  <2>6. UNCHANGED ReadStream!vars
    BY <2>1 DEF ReadStream!vars
  <2> QED BY <2>2, <2>3, <2>5, <2>6 DEF ReadInv
<1> QED BY <1>2, <1>3

\* The reader's invariant always holds.
LEMMA ReadAlways == Spec => []ReadInv
<1>1. Init => ReadInv
  BY ReadBegins DEF Init
<1>2. [Next]_vars => [ReadNext]_reading
  BY DEF Next, vars
<1>3. ReadInv /\ [Next]_vars => ReadInv'
  BY <1>2, ReadStep
<1> QED BY <1>1, <1>2, <1>3, PTL DEF Spec

\* HttpObfs and TlsObfs, poll_read: between any two reads of the inner stream the
\* body is what the caller has, the leftover and what is on its way, and the
\* parser of records knows which bytes are payload.
THEOREM BytesAccounted == Spec => []Accounted
<1>1. ReadInv => Accounted
  <2> SUFFICES ASSUME ReadInv PROVE Accounted
    OBVIOUS
  <2>0. <<>> \o <<>> = <<>>
    BY ConcatEmptySeq, EmptySeq
  <2>1. ASSUME kind = "http" PROVE HttpAccounted
    <3>1. CASE half = "read"
      BY <2>1, <3>1, ConcatEmptySeq DEF ReadInv, ReadTypes, HttpInv, HttpAccounted
    <3>2. CASE half # "read"
      BY <2>0, <3>2 DEF ReadInv, Idle, HttpAccounted
    <3> QED BY <3>1, <3>2
  <2>2. ASSUME kind = "tls" PROVE TlsInStep
    <3>1. CASE half = "read"
      BY <2>2, <3>1, InStep DEF ReadInv
    <3>2. CASE half # "read"
      BY <3>2 DEF ReadInv, Idle, At, TlsInStep
    <3> QED BY <3>1, <3>2
  <2> QED BY <2>1, <2>2 DEF Accounted
<1> QED BY <1>1, ReadAlways, PTL

\* HttpObfs::poll_read, MAX_HEADER: the scratch buffer never outgrows the limit by
\* more than one read.
THEOREM HeaderBounded == Spec => []ScratchBounded
<1>1. ReadInv => ScratchBounded
  BY DEF ReadInv, ScratchInv
<1> QED BY <1>1, ReadAlways, PTL

\* poll_read of both wrappers implements a byte stream.
THEOREM ReadImplements == Spec => ReadDelivers
<1>1. Init => ReadStream!Init
  BY DEF Init, ReadInit, ReadStream!Init
<1>2. ReadInv /\ [Next]_vars => [ReadStream!Next]_(ReadStream!vars)
  <2>1. [Next]_vars => [ReadNext]_reading
    BY DEF Next, vars
  <2> QED BY <2>1, ReadStep
<1> QED BY <1>1, <1>2, ReadAlways, PTL DEF Spec, ReadDelivers, ReadStream!Spec

-----------------------------------------------------------------------------
(* The write side: the server's parser.                                    *)

\* One byte, as the server takes it: a payload byte exactly where it expects one.
Takes(p, b, r) == /\ p.at # "closed" /\ r = AfterByte(p, b)
                  /\ b > Base <=> p.at \in {"data", "pass"}

\* The parser gets from p to r over s.
Run(ph, s, p, r) == /\ ph[0] = p /\ ph[Len(s)] = r
                    /\ \A k \in 1 .. Len(s) : Takes(ph[k - 1], s[k], ph[k])

Parses(s, p, r) == \E ph : Run(ph, s, p, r)

\* No bytes leave the server where it is.
LEMMA ParsesEmpty == ASSUME NEW p PROVE Parses(<<>>, p, p)
<1>1. Run([k \in {0} |-> p], <<>>, p, p)
  BY DEF Run
<1> QED BY <1>1 DEF Parses

\* The server reads one run of bytes after another.
LEMMA ParsesConcat ==
  ASSUME NEW s \in Seq(Nat), NEW t \in Seq(Nat), NEW p, NEW q, NEW r,
         Parses(s, p, q), Parses(t, q, r)
  PROVE  Parses(s \o t, p, r)
<1>1. PICK f : Run(f, s, p, q)
  BY DEF Parses
<1>2. PICK g : Run(g, t, q, r)
  BY DEF Parses
<1> DEFINE m == Len(s)
           n == Len(t)
           c == s \o t
           ph == [k \in 0 .. m + n |-> IF k <= m THEN f[k] ELSE g[k - m]]
<1>3. /\ c \in Seq(Nat) /\ Len(c) = m + n /\ m \in Nat /\ n \in Nat
      /\ \A j \in 1 .. m : c[j] = s[j]
      /\ \A j \in 1 .. n : c[m + j] = t[j]
  BY Joined
<1>4. /\ f[0] = p /\ f[m] = q /\ \A k \in 1 .. m : Takes(f[k - 1], s[k], f[k])
      /\ g[0] = q /\ g[n] = r /\ \A k \in 1 .. n : Takes(g[k - 1], t[k], g[k])
  BY <1>1, <1>2 DEF Run
<1> HIDE DEF m, n, c
<1>5. /\ \A k \in 0 .. m : ph[k] = f[k]
      /\ \A k \in 0 .. n : ph[m + k] = g[k]
  <2>1. \A k \in 0 .. m : k \in 0 .. m + n /\ k <= m
    BY <1>3
  <2>2. ASSUME NEW k \in 0 .. n PROVE ph[m + k] = g[k]
    <3>1. m + k \in 0 .. m + n /\ (m + k) - m = k /\ (m + k <= m <=> k = 0)
      BY <1>3
    <3>2. CASE k = 0
      BY <1>3, <1>4, <3>1, <3>2
    <3>3. CASE k # 0
      BY <3>1, <3>3
    <3> QED BY <3>2, <3>3
  <2> QED BY <2>1, <2>2
<1> HIDE DEF ph
<1>6. ASSUME NEW k \in 1 .. m + n PROVE Takes(ph[k - 1], c[k], ph[k])
  <2>1. CASE k <= m
    <3>1. k \in 1 .. m /\ k - 1 \in 0 .. m /\ k \in 0 .. m
      BY <1>3, <2>1
    <3>2. ph[k - 1] = f[k - 1] /\ ph[k] = f[k] /\ c[k] = s[k]
      BY <1>3, <1>5, <3>1
    <3> QED BY <1>4, <3>1, <3>2
  <2>2. CASE ~(k <= m)
    <3> DEFINE j == k - m
    <3>1. j \in 1 .. n /\ j - 1 \in 0 .. n /\ j \in 0 .. n /\ m + j = k /\ m + (j - 1) = k - 1
      BY <1>3, <2>2
    <3> HIDE DEF j
    <3>2. ph[m + (j - 1)] = g[j - 1] /\ ph[m + j] = g[j] /\ c[m + j] = t[j]
      BY <1>3, <1>5, <3>1
    <3>3. ph[k - 1] = g[j - 1] /\ ph[k] = g[j] /\ c[k] = t[j]
      BY <3>1, <3>2
    <3> QED BY <1>4, <3>1, <3>3
  <2> QED BY <2>1, <2>2
<1>7. ph[0] = p /\ ph[m + n] = r
  <2>1. 0 \in 0 .. m /\ n \in 0 .. n
    BY <1>3
  <2> QED BY <1>4, <1>5, <2>1
<1>8. Run(ph, c, p, r)
  BY <1>3, <1>6, <1>7 DEF Run
<1> QED BY <1>8 DEF Parses, c

\* The first byte is taken.
LEMMA ParsesFirst ==
  ASSUME NEW s \in Seq(Nat), s # <<>>, NEW p, NEW r, Parses(s, p, r)
  PROVE  /\ Takes(p, s[1], AfterByte(p, s[1]))
         /\ Parses(Tail(s), AfterByte(p, s[1]), r)
<1>1. PICK f : Run(f, s, p, r)
  BY DEF Parses
<1> DEFINE n == Len(s)
           t == Tail(s)
           g == [k \in 0 .. n - 1 |-> f[k + 1]]
<1>2. /\ n \in Nat \ {0} /\ t \in Seq(Nat) /\ Len(t) = n - 1
      /\ \A k \in 1 .. n - 1 : t[k] = s[k + 1]
  BY EmptySeq, LenProperties, HeadTailProperties
<1>3. /\ f[0] = p /\ f[n] = r /\ \A k \in 1 .. n : Takes(f[k - 1], s[k], f[k])
  BY <1>1 DEF Run
<1> HIDE DEF n, t
<1>4. Takes(p, s[1], f[1])
  <2>1. 1 \in 1 .. n /\ 1 - 1 = 0
    BY <1>2
  <2> QED BY <1>3, <2>1
<1>5. f[1] = AfterByte(p, s[1])
  BY <1>4 DEF Takes
<1>6. \A k \in 0 .. n - 1 : g[k] = f[k + 1]
  OBVIOUS
<1> HIDE DEF g
<1>7. ASSUME NEW k \in 1 .. n - 1 PROVE Takes(g[k - 1], t[k], g[k])
  <2>1. k - 1 \in 0 .. n - 1 /\ k \in 0 .. n - 1 /\ (k - 1) + 1 = k
        /\ k + 1 \in 1 .. n /\ (k + 1) - 1 = k
    BY <1>2
  <2>2. g[k - 1] = f[k] /\ g[k] = f[k + 1] /\ t[k] = s[k + 1]
    BY <1>2, <1>6, <2>1
  <2> QED BY <1>3, <2>1, <2>2
<1>8. g[0] = f[1] /\ g[n - 1] = r
  <2>1. 0 \in 0 .. n - 1 /\ n - 1 \in 0 .. n - 1 /\ (n - 1) + 1 = n /\ 0 + 1 = 1
    BY <1>2
  <2> QED BY <1>3, <1>6, <2>1
<1>9. Run(g, t, f[1], r)
  BY <1>2, <1>7, <1>8 DEF Run
<1>10. Parses(t, f[1], r)
  BY <1>9 DEF Parses
<1> QED BY <1>4, <1>5, <1>10 DEF t

\* It is not closed before its end.
LEMMA ParsesOpen ==
  ASSUME NEW s \in Seq(Nat), NEW p, NEW r, Parses(s, p, r), r.at # "closed"
  PROVE  p.at # "closed"
<1>1. CASE s = <<>>
  <2>1. Len(s) = 0
    BY <1>1
  <2> QED BY <2>1 DEF Parses, Run
<1>2. CASE s # <<>>
  BY <1>2, ParsesFirst DEF Takes
<1> QED BY <1>1, <1>2

\* Padding.
LEMMA PadBytes ==
  ASSUME NEW n \in Nat
  PROVE  Pad(n) \in Seq(Nat) /\ Len(Pad(n)) = n /\ \A k \in 1 .. n : Pad(n)[k] = 0
BY DEF Pad

\* The server reads the head of a frame.
LEMMA ParsesHead ==
  ASSUME NEW n \in Nat \ {0}, NEW tail
  PROVE  Parses(Pad(n), [at |-> "head", n |-> n, tail |-> tail],
                [at |-> IF kind = "http" THEN "pass" ELSE "high", n |-> 0, tail |-> tail])
<1> DEFINE p == [at |-> "head", n |-> n, tail |-> tail]
           r == [at |-> IF kind = "http" THEN "pass" ELSE "high", n |-> 0, tail |-> tail]
           ph == [k \in 0 .. n |-> IF k = n THEN r ELSE [p EXCEPT !.n = n - k]]
<1>1. Len(Pad(n)) = n /\ \A k \in 1 .. n : Pad(n)[k] = 0
  BY PadBytes
<1>2. Base \in Nat
  BY KindsAssumption
<1>3. ASSUME NEW k \in 1 .. n PROVE Takes(ph[k - 1], 0, ph[k])
  <2>1. k - 1 \in 0 .. n /\ k - 1 # n /\ k \in 0 .. n
    OBVIOUS
  <2>2. ph[k - 1] = [at |-> "head", n |-> n - (k - 1), tail |-> tail]
    BY <2>1
  <2>3. ph[k] = IF k = n THEN r ELSE [at |-> "head", n |-> n - k, tail |-> tail]
    BY <2>1
  <2> HIDE DEF ph
  <2>4. CASE k = n
    <3>1. n - (k - 1) = 1
      BY <2>4
    <3> QED BY <1>2, <2>2, <2>3, <2>4, <3>1 DEF Takes, AfterByte, Parser
  <2>5. CASE k # n
    <3>1. n - (k - 1) > 1 /\ (n - (k - 1)) - 1 = n - k
      BY <2>5
    <3> QED BY <1>2, <2>2, <2>3, <2>5, <3>1 DEF Takes, AfterByte, Parser
  <2> QED BY <2>4, <2>5
<1>4. ph[0] = p /\ ph[n] = r
  <2>1. 0 \in 0 .. n /\ n \in 0 .. n /\ 0 # n /\ n - 0 = n
    OBVIOUS
  <2> QED BY <2>1
<1> HIDE DEF ph
<1>5. Run(ph, Pad(n), p, r)
  BY <1>1, <1>3, <1>4 DEF Run
<1> QED BY <1>5 DEF Parses

\* The server reads the tail of a client hello.
LEMMA ParsesTail ==
  ASSUME NEW n \in Nat \ {0}
  PROVE  Parses(Pad(n), [at |-> "tail", n |-> n, tail |-> 0],
                [at |-> "head", n |-> RecordHead, tail |-> 0])
<1> DEFINE p == [at |-> "tail", n |-> n, tail |-> 0]
           r == [at |-> "head", n |-> RecordHead, tail |-> 0]
           ph == [k \in 0 .. n |-> IF k = n THEN r ELSE [p EXCEPT !.n = n - k]]
<1>1. Len(Pad(n)) = n /\ \A k \in 1 .. n : Pad(n)[k] = 0
  BY PadBytes
<1>2. Base \in Nat
  BY KindsAssumption
<1>3. ASSUME NEW k \in 1 .. n PROVE Takes(ph[k - 1], 0, ph[k])
  <2>1. k - 1 \in 0 .. n /\ k - 1 # n /\ k \in 0 .. n
    OBVIOUS
  <2>2. ph[k - 1] = [at |-> "tail", n |-> n - (k - 1), tail |-> 0]
    BY <2>1
  <2>3. ph[k] = IF k = n THEN r ELSE [at |-> "tail", n |-> n - k, tail |-> 0]
    BY <2>1
  <2> HIDE DEF ph
  <2>4. CASE k = n
    <3>1. n - (k - 1) = 1
      BY <2>4
    <3> QED BY <1>2, <2>2, <2>3, <2>4, <3>1 DEF Takes, AfterByte, Parser, EndOfFrame
  <2>5. CASE k # n
    <3>1. n - (k - 1) > 1 /\ (n - (k - 1)) - 1 = n - k
      BY <2>5
    <3> QED BY <1>2, <2>2, <2>3, <2>5, <3>1 DEF Takes, AfterByte, Parser
  <2> QED BY <2>4, <2>5
<1>4. ph[0] = p /\ ph[n] = r
  <2>1. 0 \in 0 .. n /\ n \in 0 .. n /\ 0 # n /\ n - 0 = n
    OBVIOUS
  <2> QED BY <2>1
<1> HIDE DEF ph
<1>5. Run(ph, Pad(n), p, r)
  BY <1>1, <1>3, <1>4 DEF Run
<1> QED BY <1>5 DEF Parses

\* The length field of a record that is not empty.
LEMMA LenBytesAre ==
  ASSUME NEW n \in Length
  PROVE  /\ LenBytes(n) \in Seq(Nat) /\ Len(LenBytes(n)) = 2
         /\ LenBytes(n)[1] \in 0 .. Base /\ LenBytes(n)[2] \in 0 .. Base
         /\ LenBytes(n)[1] * Base + LenBytes(n)[2] = n
<1> DEFINE h == n \div Base
           l == n % Base
<1>1. Base \in Nat \ {0, 1} /\ n \in Nat /\ n < Base * Base
  <2>1. Base \in Nat /\ Base * Base \in Nat
    BY KindsAssumption
  <2> QED BY <2>1, KindsAssumption DEF Length
<1>2. h \in Nat /\ l \in 0 .. Base - 1 /\ h * Base + l = n
  BY <1>1
<1>3. h < Base
  <2> SUFFICES ASSUME h >= Base PROVE FALSE
    BY <1>1, <1>2
  <2> HIDE DEF h, l
  <2>1. h * Base >= Base * Base
    BY <1>1, <1>2
  <2> QED BY <1>1, <1>2, <2>1
<1> HIDE DEF h, l
<1>4. h % Base = h
  BY <1>1, <1>2, <1>3
<1>5. LenBytes(n) = <<h, l>>
  BY <1>4 DEF LenBytes, h, l
<1> QED BY <1>1, <1>2, <1>3, <1>5

\* The server reads the length of a record.
LEMMA ParsesLength ==
  ASSUME NEW n \in Length \ {0}, NEW tail
  PROVE  Parses(LenBytes(n), [at |-> "high", n |-> 0, tail |-> tail],
                [at |-> "data", n |-> n, tail |-> tail])
<1> DEFINE a == [at |-> "high", n |-> 0, tail |-> tail]
           h == LenBytes(n)[1]
           l == LenBytes(n)[2]
           b == [at |-> "low", n |-> h * Base, tail |-> tail]
           c == [at |-> "data", n |-> n, tail |-> tail]
           ph == [k \in 0 .. 2 |-> IF k = 0 THEN a ELSE IF k = 1 THEN b ELSE c]
<1>1. /\ LenBytes(n) \in Seq(Nat) /\ Len(LenBytes(n)) = 2
      /\ h \in 0 .. Base /\ l \in 0 .. Base /\ h * Base + l = n
  BY LenBytesAre
<1>2. Base \in Nat
  BY KindsAssumption
<1> HIDE DEF h, l
<1>3. Takes(a, h, b)
  <2>1. ~(h > Base)
    BY <1>1, <1>2
  <2> QED BY <2>1 DEF Takes, AfterByte, Parser
<1>4. Takes(b, l, c)
  <2>1. ~(l > Base) /\ h * Base + l # 0
    BY <1>1, <1>2
  <2> QED BY <1>1, <2>1 DEF Takes, AfterByte, Parser
<1>5. ph[0] = a /\ ph[1] = b /\ ph[2] = c
  OBVIOUS
<1> HIDE DEF ph, a, b, c
<1>6. \A k \in 1 .. 2 : Takes(ph[k - 1], LenBytes(n)[k], ph[k])
  <2>1. \A k \in 1 .. 2 : (k = 1 /\ k - 1 = 0) \/ (k = 2 /\ k - 1 = 1)
    OBVIOUS
  <2> QED BY <1>3, <1>4, <1>5, <2>1 DEF h, l
<1>7. Run(ph, LenBytes(n), a, c)
  BY <1>1, <1>5, <1>6 DEF Run
<1> QED BY <1>7 DEF Parses, a, c

\* Payload bytes are numbered, and unlike those of framing.
LEMMA BytesAre ==
  ASSUME NEW i \in Nat, NEW n \in Nat
  PROVE  /\ Bytes(i, n) \in Seq(Nat) /\ Len(Bytes(i, n)) = n
         /\ \A k \in 1 .. n : Bytes(i, n)[k] = Base + (i + k) /\ Bytes(i, n)[k] > Base
<1>1. Base \in Nat
  BY KindsAssumption
<1>2. \A k \in 1 .. n : Base + (i + k) \in Nat /\ Base + (i + k) > Base
  BY <1>1
<1> QED BY <1>2 DEF Bytes, Data

\* Payload in two parts is the payload.
LEMMA BytesMore ==
  ASSUME NEW i \in Nat, NEW n \in Nat
  PROVE  Bytes(0, i) \o Bytes(i, n) = Bytes(0, i + n)
<1> DEFINE a == Bytes(0, i)
           b == Bytes(i, n)
           c == Bytes(0, i + n)
           d == a \o b
<1>0. i + n \in Nat /\ 0 \in Nat /\ Base \in Nat
  BY KindsAssumption
<1>1. /\ a \in Seq(Nat) /\ Len(a) = i /\ \A k \in 1 .. i : a[k] = Base + (0 + k)
      /\ b \in Seq(Nat) /\ Len(b) = n /\ \A k \in 1 .. n : b[k] = Base + (i + k)
      /\ c \in Seq(Nat) /\ Len(c) = i + n /\ \A k \in 1 .. i + n : c[k] = Base + (0 + k)
  BY <1>0, BytesAre
<1> HIDE DEF a, b, c
<1>2. /\ d \in Seq(Nat) /\ Len(d) = Len(a) + Len(b)
      /\ \A j \in 1 .. Len(a) : d[j] = a[j]
      /\ \A j \in 1 .. Len(b) : d[Len(a) + j] = b[j]
  BY <1>1, Joined
<1> HIDE DEF d
<1>3. ASSUME NEW k \in 1 .. i + n PROVE d[k] = c[k]
  <2>1. CASE k <= i
    BY <1>1, <1>2, <2>1
  <2>2. CASE ~(k <= i)
    <3>1. k - i \in 1 .. n /\ i + (k - i) = k
      BY <2>2
    <3>2. d[i + (k - i)] = b[k - i] /\ b[k - i] = Base + (i + (k - i))
      BY <1>1, <1>2, <3>1
    <3> QED BY <1>1, <3>1, <3>2
  <2> QED BY <2>1, <2>2
<1>4. d = c
  BY <1>1, <1>2, <1>3, SeqEqual
<1> QED BY <1>4 DEF a, b, c, d

Behind(tail) == IF tail > 0 THEN [at |-> "tail", n |-> tail, tail |-> 0]
                ELSE [at |-> "head", n |-> RecordHead, tail |-> 0]

\* The server reads the payload of a record.
LEMMA ParsesData ==
  ASSUME NEW i \in Nat, NEW n \in Nat \ {0}, NEW tail \in Nat
  PROVE  Parses(Bytes(i, n), [at |-> "data", n |-> n, tail |-> tail], Behind(tail))
<1> DEFINE p == [at |-> "data", n |-> n, tail |-> tail]
           s == Bytes(i, n)
           ph == [k \in 0 .. n |-> IF k = n THEN Behind(tail) ELSE [p EXCEPT !.n = n - k]]
<1>1. Len(s) = n /\ \A k \in 1 .. n : s[k] > Base
  BY BytesAre
<1> HIDE DEF s
<1>3. ASSUME NEW k \in 1 .. n PROVE Takes(ph[k - 1], s[k], ph[k])
  <2>1. k - 1 \in 0 .. n /\ k - 1 # n /\ k \in 0 .. n
    OBVIOUS
  <2>2. ph[k - 1] = [at |-> "data", n |-> n - (k - 1), tail |-> tail]
    BY <2>1
  <2>3. ph[k] = IF k = n THEN Behind(tail) ELSE [at |-> "data", n |-> n - k, tail |-> tail]
    BY <2>1
  <2>a. s[k] > Base
    BY <1>1
  <2> HIDE DEF ph
  <2>4. CASE k = n
    <3>1. n - (k - 1) = 1
      BY <2>4
    <3> QED BY <2>a, <2>2, <2>3, <2>4, <3>1 DEF Takes, AfterByte, EndOfFrame, Behind
  <2>5. CASE k # n
    <3>1. n - (k - 1) > 1 /\ (n - (k - 1)) - 1 = n - k
      BY <2>5
    <3> QED BY <2>a, <2>2, <2>3, <2>5, <3>1 DEF Takes, AfterByte, Parser
  <2> QED BY <2>4, <2>5
<1>4. ph[0] = p /\ ph[n] = Behind(tail)
  <2>1. 0 \in 0 .. n /\ n \in 0 .. n /\ 0 # n /\ n - 0 = n
    OBVIOUS
  <2> QED BY <2>1
<1> HIDE DEF ph
<1>5. Run(ph, s, p, Behind(tail))
  BY <1>1, <1>3, <1>4 DEF Run
<1> QED BY <1>5 DEF Parses, s

\* Behind the HTTP head the server takes everything as it is.
LEMMA ParsesPass ==
  ASSUME NEW i \in Nat, NEW n \in Nat, NEW p, p.at = "pass"
  PROVE  Parses(Bytes(i, n), p, p)
<1> DEFINE s == Bytes(i, n)
           ph == [k \in 0 .. n |-> p]
<1>1. Len(s) = n /\ \A k \in 1 .. n : s[k] > Base
  BY BytesAre
<1> HIDE DEF s
<1>2. \A k \in 0 .. n : ph[k] = p
  OBVIOUS
<1> HIDE DEF ph
<1>3. ASSUME NEW k \in 1 .. n PROVE Takes(ph[k - 1], s[k], ph[k])
  <2>1. ph[k - 1] = p /\ ph[k] = p
    <3>1. k - 1 \in 0 .. n /\ k \in 0 .. n
      OBVIOUS
    <3> QED BY <1>2, <3>1
  <2>2. s[k] > Base
    BY <1>1
  <2> QED BY <2>1, <2>2 DEF Takes, AfterByte
<1>4. ph[0] = p /\ ph[n] = p
  <2>1. 0 \in 0 .. n /\ n \in 0 .. n
    OBVIOUS
  <2> QED BY <1>2, <2>1
<1>5. Run(ph, s, p, p)
  BY <1>1, <1>3, <1>4 DEF Run
<1> QED BY <1>5 DEF Parses, s

-----------------------------------------------------------------------------
(* The write side: the frames.                                             *)

\* The payload of one run of bytes after another.
LEMMA PayloadConcat ==
  \A s, t \in Seq(Nat) : /\ s \o t \in Seq(Nat)
                         /\ PayloadOf(s \o t) = PayloadOf(s) \o PayloadOf(t)
BY ConcatProperties, WithoutConcat DEF PayloadOf

\* The payload of bytes are bytes.
LEMMA PayloadIn == \A s \in Seq(Nat) : PayloadOf(s) \in Seq(Nat)
BY WithoutPicks DEF PayloadOf

\* Framing has no payload in it.
LEMMA FramingOnly ==
  ASSUME NEW s \in Seq(Nat), \A k \in 1 .. Len(s) : s[k] \in 0 .. Base
  PROVE  PayloadOf(s) = <<>>
BY WithoutAll DEF PayloadOf

\* Payload is its own payload.
LEMMA PayloadOfBytes ==
  ASSUME NEW i \in Nat, NEW n \in Nat
  PROVE  PayloadOf(Bytes(i, n)) = Bytes(i, n)
<1> DEFINE s == Bytes(i, n)
<1>1. s \in Seq(Nat) /\ Len(s) = n /\ \A k \in 1 .. n : s[k] > Base
  BY BytesAre
<1> HIDE DEF s
<1>2. \A k \in 1 .. Len(s) : s[k] \notin 0 .. Base
  <2> SUFFICES ASSUME NEW k \in 1 .. n PROVE s[k] \notin 0 .. Base
    BY <1>1
  <2>1. s[k] \in Nat /\ s[k] > Base
    BY <1>1, LenProperties
  <2> QED BY <2>1, KindsAssumption
<1>3. PayloadOf(s) = s
  BY <1>1, <1>2, WithoutNone DEF PayloadOf
<1> QED BY <1>3 DEF s

\* Padding has no payload in it.
LEMMA PayloadOfPad ==
  ASSUME NEW n \in Nat
  PROVE  Pad(n) \in Seq(Nat) /\ PayloadOf(Pad(n)) = <<>>
<1> DEFINE s == Pad(n)
<1>1. s \in Seq(Nat) /\ Len(s) = n /\ \A k \in 1 .. n : s[k] = 0
  BY PadBytes
<1> HIDE DEF s
<1>2. 0 \in 0 .. Base
  BY KindsAssumption
<1>3. PayloadOf(s) = <<>>
  BY <1>1, <1>2, FramingOnly
<1> QED BY <1>1, <1>3 DEF s

\* A length has no payload in it.
LEMMA PayloadOfLength ==
  ASSUME NEW n \in Length
  PROVE  LenBytes(n) \in Seq(Nat) /\ PayloadOf(LenBytes(n)) = <<>>
<1> DEFINE s == LenBytes(n)
<1>1. s \in Seq(Nat) /\ Len(s) = 2 /\ s[1] \in 0 .. Base /\ s[2] \in 0 .. Base
  BY LenBytesAre
<1> HIDE DEF s
<1>2. \A k \in 1 .. 2 : k = 1 \/ k = 2
  OBVIOUS
<1>3. PayloadOf(s) = <<>>
  BY <1>1, <1>2, FramingOnly
<1> QED BY <1>1, <1>3 DEF s

Start == [at |-> "head", n |-> HeadLen, tail |-> TailLen]
Between == [at |-> "head", n |-> RecordHead, tail |-> 0]
Raw == [at |-> "pass", n |-> 0, tail |-> TailLen]

\* A frame of n bytes from i on.
IsFrame(s, i, n, p, r) == s \in Seq(Nat) /\ PayloadOf(s) = Bytes(i, n) /\ Parses(s, p, r)

\* What the constants and the sizes made from them are.
LEMMA Sizes ==
  /\ HeadLen \in Nat \ {0} /\ TailLen \in Nat \ {0} /\ RecordHead \in Nat \ {0}
  /\ BufSize \in Nat \ {0} /\ ChunkSize \in Nat \ {0} /\ Total \in Nat
  /\ ChunkSize < Base * Base /\ Base * Base \in Nat
<1>1. Base * Base \in Nat
  <2>1. Base \in Nat
    BY KindsAssumption
  <2> QED BY <2>1
<1> QED BY <1>1, SizesAssumption

\* The server accepts what build_http_request makes, and its payload is the
\* input.
LEMMA HttpFrame ==
  ASSUME kind = "http", NEW i \in Nat, NEW n \in Nat
  PROVE  IsFrame(build_http_request(i, n), i, n, Start, Raw)
<1> DEFINE a == Pad(HeadLen)
           b == Bytes(i, n)
<1>1. /\ a \in Seq(Nat) /\ b \in Seq(Nat) /\ PayloadOf(a) = <<>> /\ PayloadOf(b) = b
  BY Sizes, PayloadOfPad, PayloadOfBytes, BytesAre
<1>2. Parses(a, Start, Raw)
  BY Sizes, ParsesHead DEF Start, Raw
<1>3. Parses(b, Raw, Raw)
  BY ParsesPass DEF Raw
<1> HIDE DEF a, b
<1>4. Parses(a \o b, Start, Raw)
  BY <1>1, <1>2, <1>3, ParsesConcat
<1>5. a \o b \in Seq(Nat) /\ PayloadOf(a \o b) = <<>> \o b
  BY <1>1, PayloadConcat
<1>6. <<>> \o b = b
  BY <1>1, ConcatEmptySeq
<1> QED BY <1>4, <1>5, <1>6 DEF IsFrame, a, b, build_http_request

\* What the two frames of TLS have in common.
LEMMA Lengthy ==
  ASSUME kind # "http", NEW i \in Nat, NEW n \in Length \ {0}, NEW h \in Nat \ {0},
         NEW tail \in Nat
  PROVE  IsFrame(Pad(h) \o LenBytes(n) \o Bytes(i, n), i, n,
                 [at |-> "head", n |-> h, tail |-> tail], Behind(tail))
<1> DEFINE a == Pad(h)
           b == LenBytes(n)
           c == Bytes(i, n)
           p == [at |-> "head", n |-> h, tail |-> tail]
           q == [at |-> "high", n |-> 0, tail |-> tail]
           r == [at |-> "data", n |-> n, tail |-> tail]
<1>0. n \in Nat \ {0} /\ n \in Length
  BY Sizes DEF Length
<1>1. /\ a \in Seq(Nat) /\ b \in Seq(Nat) /\ c \in Seq(Nat)
      /\ PayloadOf(a) = <<>> /\ PayloadOf(b) = <<>> /\ PayloadOf(c) = c
  BY <1>0, PayloadOfPad, PayloadOfLength, PayloadOfBytes, BytesAre
<1>2. Parses(a, p, q)
  BY ParsesHead
<1>3. Parses(b, q, r)
  BY ParsesLength
<1>4. Parses(c, r, Behind(tail))
  BY <1>0, ParsesData
<1> HIDE DEF a, b, c, p, q, r
<1> DEFINE d == a \o b
           e == <<>> \o <<>>
<1>5. d \in Seq(Nat) /\ PayloadOf(d) = e /\ Parses(d, p, r)
  BY <1>1, <1>2, <1>3, PayloadConcat, ParsesConcat
<1>6. e = <<>> /\ <<>> \o c = c
  BY <1>1, ConcatEmptySeq, EmptySeq
<1> HIDE DEF d, e
<1>7. d \o c \in Seq(Nat) /\ PayloadOf(d \o c) = <<>> \o c /\ Parses(d \o c, p, Behind(tail))
  <2>1. d \in Seq(Nat) /\ c \in Seq(Nat) /\ PayloadOf(d) = <<>> /\ PayloadOf(c) = c
    BY <1>1, <1>5, <1>6
  <2>2. d \o c \in Seq(Nat) /\ PayloadOf(d \o c) = <<>> \o c
    <3>0. d \in Seq(Nat) /\ c \in Seq(Nat)
      BY <2>1
    <3>1. d \o c \in Seq(Nat) /\ PayloadOf(d \o c) = PayloadOf(d) \o PayloadOf(c)
      BY <3>0, PayloadConcat
    <3> QED BY <2>1, <3>1
  <2>3. Parses(d \o c, p, Behind(tail))
    BY <1>4, <1>5, <2>1, ParsesConcat
  <2> QED BY <2>2, <2>3
<1> QED BY <1>6, <1>7 DEF IsFrame, a, b, c, d, p

\* The server accepts what build_record makes, and its payload is the input.
LEMMA RecordFrame ==
  ASSUME kind # "http", NEW i \in Nat, NEW n \in Length \ {0}
  PROVE  IsFrame(build_record(i, n), i, n, Between, Between)
<1>1. 0 \in Nat /\ Behind(0) = Between
  BY DEF Behind, Between
<1>2. IsFrame(Pad(RecordHead) \o LenBytes(n) \o Bytes(i, n), i, n, Between, Behind(0))
  BY <1>1, Sizes, Lengthy DEF Between
<1> QED BY <1>1, <1>2 DEF build_record

\* The server accepts what build_client_hello makes, and its payload is the
\* input.
LEMMA HelloFrame ==
  ASSUME kind # "http", NEW i \in Nat, NEW n \in Length \ {0}
  PROVE  IsFrame(build_client_hello(i, n), i, n, Start, Between)
<1> DEFINE a == Pad(HeadLen) \o LenBytes(n) \o Bytes(i, n)
           b == Pad(TailLen)
           c == Bytes(i, n)
<1>1. IsFrame(a, i, n, Start, Behind(TailLen))
  BY Sizes, Lengthy DEF Start
<1>2. b \in Seq(Nat) /\ PayloadOf(b) = <<>>
  BY Sizes, PayloadOfPad
<1>3. Parses(b, Behind(TailLen), Between)
  BY Sizes, ParsesTail DEF Behind, Between
<1>0. n \in Nat
  BY Sizes DEF Length
<1>4. c \in Seq(Nat)
  BY <1>0, BytesAre
<1>5. build_client_hello(i, n) = a \o b
  BY DEF build_client_hello
<1> HIDE DEF a, b, c
<1>6. a \in Seq(Nat) /\ PayloadOf(a) = c /\ Parses(a, Start, Behind(TailLen))
  BY <1>1 DEF IsFrame, c
<1>7. /\ a \o b \in Seq(Nat) /\ PayloadOf(a \o b) = c \o <<>>
      /\ Parses(a \o b, Start, Between)
  BY <1>2, <1>3, <1>6, PayloadConcat, ParsesConcat
<1>8. c \o <<>> = c
  BY <1>4, ConcatEmptySeq
<1> QED BY <1>5, <1>7, <1>8 DEF IsFrame, c

-----------------------------------------------------------------------------
(* The write side: its invariant.                                          *)

\* Where the server's parser is between two frames.
Boundary == IF first_request THEN Start ELSE IF kind = "http" THEN Raw ELSE Between

WriteTypes == /\ {start, pos, cap, pending_input} \subseteq Nat
              /\ {wire, write_buf, received} \subseteq Seq(Nat)
              /\ kind \in {"http", "tls"}

\* A frame is in write_buf as long as its bytes are pending, and holds no more of
\* them than those.
Buffered == /\ pos + pending_input <= cap /\ cap <= Total
            /\ write_buf = <<>> <=> pending_input = 0
            /\ Len(PayloadOf(write_buf)) <= pending_input

\* The server has, or will get, the bytes accepted and pending.
WriteOwed == received \o (PayloadOf(wire) \o PayloadOf(write_buf)) = Bytes(0, pos + pending_input)

\* Its parser takes what is on its way, up to the end of a frame.
WriteParses == server.at = "closed" \/ Parses(wire \o write_buf, server, Boundary)

Shut == /\ write_status = "eof" => pos = Total
        /\ server.at = "closed" => write_status = "eof" /\ wire = <<>>

WriteInv == WriteTypes /\ Buffered /\ WriteOwed /\ WriteParses /\ Shut

\* What the server is yet to read after a step, from what it was before it.
LEMMA ParsesNext ==
  ASSUME UNCHANGED kind, NEW s, NEW p, NEW r, Parses(s, p, r),
         s = (wire \o write_buf)', p = server', r = Boundary'
  PROVE  Parses(wire \o write_buf, server, Boundary)'
<1>1. PICK ph : Run(ph, s, p, r)
  BY DEF Parses
<1>2. /\ ph[0] = p /\ ph[Len(s)] = r
      /\ \A k \in 1 .. Len(s) : Takes(ph[k - 1], s[k], ph[k])
  BY <1>1 DEF Run
<1>3. \A k \in 1 .. Len(s) : Takes(ph[k - 1], s[k], ph[k])'
  <2> SUFFICES ASSUME NEW k \in 1 .. Len(s) PROVE Takes(ph[k - 1], s[k], ph[k])'
    OBVIOUS
  <2>1. Takes(ph[k - 1], s[k], ph[k])
    BY <1>2
  <2> QED BY <2>1 DEF Takes, AfterByte, Parser, EndOfFrame
<1>4. Run(ph, wire \o write_buf, server, Boundary)'
  <2>1. (ph[0] = server)' /\ (ph[Len(wire \o write_buf)] = Boundary)'
    BY <1>2
  <2>2. (\A k \in 1 .. Len(wire \o write_buf) :
           Takes(ph[k - 1], (wire \o write_buf)[k], ph[k]))'
    BY <1>3
  <2> QED BY <2>1, <2>2 DEF Run
<1> QED BY <1>4 DEF Parses

\* Two sequences of numbers, one after the other.
LEMMA ConcatN == \A s, t \in Seq(Nat) : s \o t \in Seq(Nat) /\ Len(s \o t) = Len(s) + Len(t)
BY ConcatProperties

\* Concatenation of sequences of numbers is associative.
LEMMA AssocN == \A s, t, u \in Seq(Nat) : (s \o t) \o u = s \o (t \o u)
<1> DEFINE S == Nat
<1>1. \A s, t, u \in Seq(S) : (s \o t) \o u = s \o (t \o u)
  <2> HIDE DEF S
  <2> QED BY ConcatAssociative
<1> QED BY <1>1

\* Nothing before or behind a sequence of numbers.
LEMMA NilN == \A s \in Seq(Nat) : s \o <<>> = s /\ <<>> \o s = s
BY ConcatEmptySeq

\* A sequence of numbers in two parts.
LEMMA SplitN ==
  \A s \in Seq(Nat) : \A n \in 0 .. Len(s) :
    /\ Prefix(s, n) \in Seq(Nat) /\ Suffix(s, n) \in Seq(Nat)
    /\ Prefix(s, n) \o Suffix(s, n) = s
    /\ Len(Prefix(s, n)) = n /\ Len(Suffix(s, n)) = Len(s) - n
    /\ \A i \in 1 .. n : Prefix(s, n)[i] = s[i]
    /\ \A i \in 1 .. Len(s) - n : Suffix(s, n)[i] = s[n + i]
BY Split

\* A sequence cut in two and its first part put behind another.
LEMMA Moved ==
  ASSUME NEW w \in Seq(Nat), NEW b \in Seq(Nat), NEW n \in 0 .. Len(b)
  PROVE  LET h == Prefix(b, n)
             t == Suffix(b, n)
         IN /\ w \o h \in Seq(Nat) /\ t \in Seq(Nat) /\ (w \o h) \o t = w \o b
            /\ PayloadOf(w \o h) \o PayloadOf(t) = PayloadOf(w) \o PayloadOf(b)
            /\ Len(PayloadOf(t)) <= Len(PayloadOf(b))
            /\ t = <<>> <=> n = Len(b)
<1> DEFINE h == Prefix(b, n)
           t == Suffix(b, n)
<1>1. h \in Seq(Nat) /\ t \in Seq(Nat) /\ h \o t = b /\ Len(t) = Len(b) - n
  BY SplitN
<1> HIDE DEF h, t
<1>3. w \o h \in Seq(Nat) /\ (w \o h) \o t = w \o b
  <2>0. w \in Seq(Nat) /\ h \in Seq(Nat) /\ t \in Seq(Nat)
    BY <1>1
  <2>1. (w \o h) \o t = w \o (h \o t)
    BY <2>0, AssocN
  <2>2. w \o h \in Seq(Nat)
    BY <2>0, ConcatN
  <2> QED BY <1>1, <2>1, <2>2
<1> DEFINE pw == PayloadOf(w)
           pb == PayloadOf(b)
           ph == PayloadOf(h)
           pt == PayloadOf(t)
<1>4. pw \in Seq(Nat) /\ pb \in Seq(Nat) /\ ph \in Seq(Nat) /\ pt \in Seq(Nat)
  <2>0. w \in Seq(Nat) /\ b \in Seq(Nat) /\ h \in Seq(Nat) /\ t \in Seq(Nat)
    BY <1>1
  <2> QED BY <2>0, PayloadIn
<1>5. PayloadOf(w \o h) = pw \o ph
  <2>0. w \in Seq(Nat) /\ h \in Seq(Nat)
    BY <1>1
  <2> QED BY <2>0, PayloadConcat
<1>6. pb = ph \o pt
  <2>0. h \in Seq(Nat) /\ t \in Seq(Nat)
    BY <1>1
  <2>1. PayloadOf(h \o t) = ph \o pt
    BY <2>0, PayloadConcat
  <2> QED BY <1>1, <2>1
<1> HIDE DEF pw, pb, ph, pt
<1>7. (pw \o ph) \o pt = pw \o pb
  <2>0. pw \in Seq(Nat) /\ ph \in Seq(Nat) /\ pt \in Seq(Nat)
    BY <1>4
  <2>1. (pw \o ph) \o pt = pw \o (ph \o pt)
    BY <2>0, AssocN
  <2> QED BY <1>6, <2>1
<1>8. Len(pt) <= Len(pb)
  <2>1. Len(ph \o pt) = Len(ph) + Len(pt) /\ Len(ph) \in Nat /\ Len(pt) \in Nat
    BY <1>4, ConcatN, LenProperties
  <2> QED BY <1>6, <2>1
<1>9. t = <<>> <=> n = Len(b)
  <2>1. t = <<>> <=> Len(t) = 0
    BY <1>1, EmptySeq
  <2>2. Len(b) \in Nat /\ n \in Nat
    BY LenProperties
  <2> QED BY <1>1, <2>1, <2>2
<1>10. PayloadOf(w \o h) \o PayloadOf(t) = PayloadOf(w) \o PayloadOf(b)
  BY <1>5, <1>7 DEF pw, pb, pt
<1>11. Len(PayloadOf(t)) <= Len(PayloadOf(b))
  BY <1>8 DEF pb, pt
<1> QED BY <1>1, <1>3, <1>9, <1>10, <1>11 DEF h, t

-----------------------------------------------------------------------------
(* The write side: each step.                                              *)

\* Nothing moves that the parser sees.
LEMMA ParsesSame ==
  ASSUME WriteParses, UNCHANGED <<kind, first_request, server>>,
         (wire \o write_buf)' = wire \o write_buf
  PROVE  WriteParses'
<1>1. CASE server.at = "closed"
  BY <1>1 DEF WriteParses
<1>2. CASE Parses(wire \o write_buf, server, Boundary)
  <2>1. Boundary' = Boundary
    BY DEF Boundary, Start, Raw, Between
  <2>2. Parses(wire \o write_buf, server, Boundary)'
    BY <1>2, <2>1, ParsesNext
  <2> QED BY <2>2 DEF WriteParses
<1> QED BY <1>1, <1>2 DEF WriteParses

\* Where a frame ends the server still reads.
LEMMA AtBoundary == Boundary.at # "closed"
BY DEF Boundary, Start, Raw, Between

\* With nothing buffered, all that is owed is on its way.
LEMMA NothingBuffered ==
  ASSUME WriteTypes, Buffered, WriteOwed, write_buf = <<>>
  PROVE  /\ pending_input = 0 /\ received \o PayloadOf(wire) = Bytes(0, pos)
         /\ PayloadOf(wire) \in Seq(Nat) /\ received \in Seq(Nat) /\ pos \in Nat
         /\ wire \in Seq(Nat) /\ wire \o write_buf = wire
<1> DEFINE w == PayloadOf(wire)
<1>1. wire \in Seq(Nat) /\ received \in Seq(Nat) /\ pos \in Nat
  BY DEF WriteTypes
<1>2. w \in Seq(Nat)
  BY <1>1, PayloadIn
<1>3. pending_input = 0 /\ pos + 0 = pos
  BY <1>1 DEF Buffered
<1>4. PayloadOf(write_buf) = <<>>
  BY WithoutEmpty DEF PayloadOf
<1>5. received \o (w \o <<>>) = Bytes(0, pos)
  BY <1>3, <1>4 DEF WriteOwed
<1> HIDE DEF w
<1>6. w \o <<>> = w
  BY <1>2, NilN
<1>7. wire \o write_buf = wire
  BY <1>1, NilN
<1> QED BY <1>1, <1>2, <1>3, <1>5, <1>6, <1>7 DEF w

\* Fresh bytes behind those owed.
LEMMA Further ==
  ASSUME NEW r \in Seq(Nat), NEW w \in Seq(Nat), NEW i \in Nat, NEW n \in Nat,
         r \o w = Bytes(0, i)
  PROVE  r \o (w \o Bytes(i, n)) = Bytes(0, i + n)
<1> DEFINE b == Bytes(i, n)
           a == Bytes(0, i)
<1>1. b \in Seq(Nat) /\ a \o b = Bytes(0, i + n)
  BY BytesAre, BytesMore
<1>2. r \o w = a
  OBVIOUS
<1> HIDE DEF a, b
<1>3. r \in Seq(Nat) /\ w \in Seq(Nat) /\ b \in Seq(Nat)
  BY <1>1
<1>4. (r \o w) \o b = r \o (w \o b)
  BY <1>3, AssocN
<1> QED BY <1>1, <1>2, <1>4 DEF b

\* The relay reads ahead.
LEMMA FillStep ==
  ASSUME WriteInv, Fill
  PROVE  WriteInv'
<1>1. /\ UNCHANGED <<kind, pos, first_request, write_buf, pending_input, wire, server,
                     received, write_status>>
      /\ start' = (IF pos = cap THEN cap ELSE start)
  BY DEF Fill, sink
<1>2. WriteTypes /\ Buffered /\ WriteOwed /\ WriteParses /\ Shut
  BY DEF WriteInv
<1>3. PICK n \in 1 .. AtMost(Total, (IF pos = cap THEN cap ELSE start) + BufSize) - cap :
        cap' = cap + n
  BY DEF Fill
<1>4. start \in Nat /\ cap \in Nat /\ pos \in Nat /\ Total \in Nat /\ BufSize \in Nat
  BY <1>2, Sizes DEF WriteTypes
<1>5. cap' \in Nat /\ cap' <= Total /\ cap <= cap' /\ start' \in Nat
  BY <1>1, <1>3, <1>4 DEF AtMost
<1>6. WriteTypes'
  BY <1>1, <1>2, <1>5 DEF WriteTypes
<1>7. Buffered'
  <2>1. pos + pending_input <= cap' /\ pending_input \in Nat
    BY <1>2, <1>4, <1>5 DEF Buffered, WriteTypes
  <2> QED BY <1>1, <1>2, <1>5, <2>1 DEF Buffered, PayloadOf
<1>8. WriteOwed'
  BY <1>1, <1>2 DEF WriteOwed, PayloadOf, Bytes, Data
<1>9. WriteParses'
  BY <1>1, <1>2, ParsesSame
<1>10. Shut'
  BY <1>1, <1>2 DEF Shut
<1> QED BY <1>6, <1>7, <1>8, <1>9, <1>10 DEF WriteInv

\* The inner stream fails.
LEMMA FailStep ==
  ASSUME WriteInv, WriteFails, write_status = "open"
  PROVE  WriteInv'
<1>1. /\ UNCHANGED <<kind, start, pos, cap, first_request, write_buf, pending_input, wire,
                     server, received>>
      /\ write_status' = "failed"
  BY DEF WriteFails, sink, caller
<1>2. WriteTypes /\ Buffered /\ WriteOwed /\ WriteParses /\ Shut
  BY DEF WriteInv
<1>6. WriteTypes'
  BY <1>1, <1>2 DEF WriteTypes
<1>7. Buffered'
  BY <1>1, <1>2 DEF Buffered, PayloadOf
<1>8. WriteOwed'
  BY <1>1, <1>2 DEF WriteOwed, PayloadOf, Bytes, Data
<1>9. WriteParses'
  BY <1>1, <1>2, ParsesSame
<1>10. Shut'
  BY <1>1, <1>2 DEF Shut
<1> QED BY <1>6, <1>7, <1>8, <1>9, <1>10 DEF WriteInv

\* Flushing and shutting down: there is nothing to drain.
LEMMA EndStep ==
  ASSUME WriteInv, write_status = "open", poll_flush \/ poll_shutdown
  PROVE  WriteInv' /\ UNCHANGED <<server, received>> /\ write_status' \in {"open", "eof"}
<1>2. WriteTypes /\ Buffered /\ WriteOwed /\ WriteParses /\ Shut
  BY DEF WriteInv
<1>3. write_buf = <<>> /\ pending_input = 0
  <2>1. pos = cap /\ pos \in Nat /\ pending_input \in Nat /\ pos + pending_input <= cap
    BY <1>2 DEF poll_flush, poll_shutdown, Buffered, WriteTypes
  <2>2. pending_input = 0
    BY <2>1
  <2> QED BY <1>2, <2>2 DEF Buffered
<1>4. wire \o write_buf = wire
  BY <1>2, <1>3, NothingBuffered
<1>1. /\ UNCHANGED <<kind, start, pos, cap, first_request, write_buf, pending_input, wire,
                     server, received>>
      /\ write_status' = "eof" => pos = Total
      /\ write_status' \in {"open", "eof"}
  BY <1>3, <1>4 DEF poll_flush, poll_shutdown, DrainAll, sink, caller
<1>6. WriteTypes'
  BY <1>1, <1>2 DEF WriteTypes
<1>7. Buffered'
  BY <1>1, <1>2 DEF Buffered, PayloadOf
<1>8. WriteOwed'
  BY <1>1, <1>2 DEF WriteOwed, PayloadOf, Bytes, Data
<1>9. WriteParses'
  BY <1>1, <1>2, ParsesSame
<1>10. Shut'
  BY <1>1, <1>2 DEF Shut
<1> QED BY <1>1, <1>6, <1>7, <1>8, <1>9, <1>10 DEF WriteInv

\* poll_write builds a frame.
LEMMA FrameIs ==
  ASSUME WriteTypes, pos < cap, Framing
  PROVE  /\ ChunkLen \in 1 .. cap - pos
         /\ IsFrame(Frame, pos, ChunkLen, Boundary, IF kind = "http" THEN Raw ELSE Between)
<1>1. pos \in Nat /\ cap \in Nat /\ ChunkSize \in Nat \ {0} /\ ChunkSize < Base * Base
      /\ Base * Base \in Nat
  BY Sizes DEF WriteTypes
<1>2. ChunkLen \in 1 .. cap - pos /\ (kind # "http" => ChunkLen <= ChunkSize)
  BY <1>1 DEF ChunkLen, AtMost
<1> DEFINE n == ChunkLen
<1> HIDE DEF n
<1>3. n \in Nat /\ (kind # "http" => n \in Length \ {0})
  BY <1>1, <1>2 DEF Length, n
<1>4. CASE kind = "http"
  <2>1. first_request /\ Frame = build_http_request(pos, n) /\ Boundary = Start
    BY <1>4 DEF Framing, Frame, Boundary, n
  <2>2. IsFrame(build_http_request(pos, n), pos, n, Start, Raw)
    BY <1>1, <1>3, <1>4, HttpFrame
  <2> QED BY <1>2, <1>4, <2>1, <2>2 DEF n
<1>5. CASE kind # "http" /\ first_request
  <2>1. Frame = build_client_hello(pos, n) /\ Boundary = Start
    BY <1>5 DEF Frame, Boundary, n
  <2>2. IsFrame(build_client_hello(pos, n), pos, n, Start, Between)
    BY <1>1, <1>3, <1>5, HelloFrame
  <2> QED BY <1>2, <1>5, <2>1, <2>2 DEF n
<1>6. CASE kind # "http" /\ ~first_request
  <2>1. Frame = build_record(pos, n) /\ Boundary = Between
    BY <1>6 DEF Frame, Boundary, n
  <2>2. IsFrame(build_record(pos, n), pos, n, Between, Between)
    BY <1>1, <1>3, <1>6, RecordFrame
  <2> QED BY <1>2, <1>6, <2>1, <2>2 DEF n
<1> QED BY <1>4, <1>5, <1>6

\* poll_write that frames a chunk of its input.
LEMMA FramingStep ==
  ASSUME WriteInv, write_status = "open", poll_write, Framing, write_buf' = Frame,
         pending_input' = ChunkLen, first_request' = FALSE,
         UNCHANGED <<pos, need_flush, wire>>
  PROVE  WriteInv' /\ UNCHANGED <<server, received, write_status>>
<1>1. WriteTypes /\ Buffered /\ WriteOwed /\ WriteParses /\ Shut
  BY DEF WriteInv
<1>2. /\ write_buf = <<>> /\ pos < cap
      /\ UNCHANGED <<kind, start, cap, server, received, write_status, pos, wire>>
  BY DEF poll_write, sink
<1> DEFINE f == Frame
           n == ChunkLen
           b == Boundary
           e == IF kind = "http" THEN Raw ELSE Between
           w == PayloadOf(wire)
<1>3. n \in 1 .. cap - pos /\ IsFrame(f, pos, n, b, e)
  BY <1>1, <1>2, FrameIs
<1>4. /\ pending_input = 0 /\ received \o w = Bytes(0, pos) /\ w \in Seq(Nat)
      /\ received \in Seq(Nat) /\ pos \in Nat /\ wire \in Seq(Nat) /\ wire \o write_buf = wire
  BY <1>1, <1>2, NothingBuffered
<1>5. cap \in Nat /\ cap <= Total /\ start \in Nat
  BY <1>1 DEF WriteTypes, Buffered
<1>6. server.at # "closed" /\ Parses(wire, server, b)
  BY <1>1, <1>4 DEF Shut, WriteParses
<1>7. Boundary' = e
  BY <1>2 DEF Boundary, Start, Raw, Between
<1> HIDE DEF f, n, b, e, w
<1>8. f \in Seq(Nat) /\ PayloadOf(f) = Bytes(pos, n) /\ Parses(f, b, e)
  BY <1>3 DEF IsFrame
<1>9. n \in Nat \ {0} /\ pos + n <= cap
  BY <1>3, <1>4, <1>5
<1>10. WriteTypes'
  BY <1>1, <1>2, <1>5, <1>8, <1>9 DEF WriteTypes, f, n
<1>11. Len(Bytes(pos, n)) = n /\ Bytes(pos, n) \in Seq(Nat)
  BY <1>4, <1>9, BytesAre
<1>12. PayloadOf(write_buf') = Bytes(pos, n) /\ pending_input' = n
  BY <1>8 DEF f, n
<1>13. write_buf' # <<>>
  <2>1. CASE f = <<>>
    <3>1. PayloadOf(f) = <<>>
      BY <2>1, WithoutEmpty DEF PayloadOf
    <3>2. Len(<<>>) = 0
      OBVIOUS
    <3> QED BY <1>8, <1>9, <1>11, <3>1, <3>2
  <2> QED BY <2>1 DEF f
<1>14. Buffered'
  <2>1. Len(PayloadOf(write_buf')) <= pending_input' /\ pos' + pending_input' <= cap'
        /\ cap' <= Total /\ pending_input' # 0
    BY <1>2, <1>5, <1>9, <1>11, <1>12
  <2> QED BY <1>13, <2>1 DEF Buffered, PayloadOf
<1>15. WriteOwed'
  <2>1. received \o (w \o Bytes(pos, n)) = Bytes(0, pos + n)
    BY <1>4, <1>9, Further
  <2>2. PayloadOf(wire') = w /\ received' = received /\ pos' = pos
    BY <1>2 DEF w
  <2>3. received' \o (PayloadOf(wire') \o PayloadOf(write_buf')) = Bytes(0, pos' + pending_input')
    BY <1>12, <2>1, <2>2
  <2> QED BY <2>3 DEF WriteOwed, PayloadOf, Bytes, Data
<1>16. WriteParses'
  <2>1. Parses(wire \o f, server, e)
    BY <1>4, <1>6, <1>8, ParsesConcat
  <2>2. (wire \o write_buf)' = wire \o f /\ server' = server
    BY <1>2 DEF f
  <2>3. Parses(wire \o write_buf, server, Boundary)'
    BY <1>2, <1>7, <2>1, <2>2, ParsesNext
  <2> QED BY <2>3 DEF WriteParses
<1>17. Shut'
  BY <1>1, <1>2 DEF Shut
<1> QED BY <1>2, <1>10, <1>14, <1>15, <1>16, <1>17 DEF WriteInv

\* poll_write behind the first request of HTTP.
LEMMA PassingStep ==
  ASSUME WriteInv, write_status = "open", poll_write, ~Framing,
         NEW n \in 1 .. cap - pos, wire' = wire \o Bytes(pos, n), Accepted(n),
         UNCHANGED <<first_request, write_buf, pending_input>>
  PROVE  WriteInv' /\ UNCHANGED <<server, received, write_status>>
<1>1. WriteTypes /\ Buffered /\ WriteOwed /\ WriteParses /\ Shut
  BY DEF WriteInv
<1>2. /\ write_buf = <<>> /\ write_buf' = <<>> /\ pos < cap /\ pos' = pos + n
      /\ UNCHANGED <<kind, start, cap, server, received, write_status, first_request,
                     pending_input>>
  BY DEF poll_write, sink, Accepted
<1>3. Boundary = Raw
  BY <1>1 DEF Framing, Boundary, WriteTypes
<1>4. Boundary' = Raw
  BY <1>2, <1>3 DEF Boundary, Start, Raw, Between
<1> DEFINE b == Bytes(pos, n)
           w == PayloadOf(wire)
<1>5. /\ pending_input = 0 /\ received \o w = Bytes(0, pos) /\ w \in Seq(Nat)
      /\ received \in Seq(Nat) /\ pos \in Nat /\ wire \in Seq(Nat) /\ wire \o write_buf = wire
  BY <1>1, <1>2, NothingBuffered
<1>6. cap \in Nat /\ cap <= Total /\ start \in Nat
  BY <1>1 DEF WriteTypes, Buffered
<1>7. n \in Nat /\ pos + n <= cap
  BY <1>5, <1>6
<1>8. b \in Seq(Nat) /\ PayloadOf(b) = b /\ Parses(b, Raw, Raw)
  BY <1>5, <1>7, BytesAre, PayloadOfBytes, ParsesPass DEF Raw
<1>9. server.at # "closed" /\ Parses(wire, server, Raw)
  BY <1>1, <1>3, <1>5 DEF Shut, WriteParses
<1>10. received \o (w \o b) = Bytes(0, pos + n)
  BY <1>5, <1>7, Further
<1> HIDE DEF b
<1> DEFINE c == wire \o b
<1>11. c \in Seq(Nat) /\ PayloadOf(c) = w \o b
  <2>1. wire \in Seq(Nat) /\ b \in Seq(Nat)
    BY <1>5, <1>8
  <2>2. c \in Seq(Nat) /\ PayloadOf(c) = w \o PayloadOf(b)
    BY <2>1, PayloadConcat
  <2> QED BY <1>8, <2>2
<1>12. Parses(c, server, Raw)
  BY <1>5, <1>8, <1>9, ParsesConcat
<1>13. wire' = c
  BY DEF b
<1> HIDE DEF c, w
<1>a. c \o <<>> = c
  BY <1>11, NilN
<1>b. w \o b \in Seq(Nat)
  BY <1>5, <1>8, ConcatN
<1>c. (w \o b) \o <<>> = w \o b
  BY <1>b, NilN
<1>14. WriteTypes'
  BY <1>1, <1>2, <1>7, <1>11, <1>13, <1>5 DEF WriteTypes
<1>15. Buffered'
  <2>1. pos' + pending_input' <= cap' /\ cap' <= Total
    BY <1>2, <1>5, <1>6, <1>7
  <2> QED BY <1>1, <1>2, <2>1 DEF Buffered, PayloadOf
<1>16. WriteOwed'
  <2>1. PayloadOf(wire') = w \o b /\ PayloadOf(write_buf') = <<>>
    BY <1>2, <1>11, <1>13, WithoutEmpty DEF PayloadOf
  <2>2. pos' + pending_input' = pos + n
    BY <1>2, <1>5, <1>7
  <2>3. received' \o (PayloadOf(wire') \o PayloadOf(write_buf')) = Bytes(0, pos' + pending_input')
    BY <1>2, <1>10, <1>c, <2>1, <2>2
  <2> QED BY <2>3 DEF WriteOwed, PayloadOf, Bytes, Data
<1>17. WriteParses'
  <2>1. (wire \o write_buf)' = c /\ server' = server
    BY <1>2, <1>13, <1>a
  <2>2. Parses(wire \o write_buf, server, Boundary)'
    BY <1>2, <1>4, <1>12, <2>1, ParsesNext
  <2> QED BY <2>2 DEF WriteParses
<1>18. Shut'
  BY <1>1, <1>2 DEF Shut
<1> QED BY <1>2, <1>14, <1>15, <1>16, <1>17, <1>18 DEF WriteInv

\* Every poll_write keeps the writer's invariant and gives the server nothing.
LEMMA PollWriteStep ==
  ASSUME WriteInv, write_status = "open", poll_write
  PROVE  WriteInv' /\ UNCHANGED <<server, received, write_status>>
<1>1. CASE /\ Framing /\ write_buf' = Frame /\ pending_input' = ChunkLen
           /\ first_request' = FALSE /\ UNCHANGED <<pos, need_flush, wire>>
  BY <1>1, FramingStep
<1>2. CASE /\ ~Framing
           /\ \E n \in 1 .. cap - pos : wire' = wire \o Bytes(pos, n) /\ Accepted(n)
           /\ UNCHANGED <<first_request, write_buf, pending_input>>
  <2>1. PICK n \in 1 .. cap - pos : wire' = wire \o Bytes(pos, n) /\ Accepted(n)
    BY <1>2
  <2> QED BY <1>2, <2>1, PassingStep
<1> QED BY <1>1, <1>2 DEF poll_write

\* poll_drain_write_buf.
LEMMA DrainStep ==
  ASSUME WriteInv, write_status = "open", poll_drain_write_buf
  PROVE  WriteInv' /\ UNCHANGED <<server, received, write_status>>
<1>1. WriteTypes /\ Buffered /\ WriteOwed /\ WriteParses /\ Shut
  BY DEF WriteInv
<1>2. PICK n \in 1 .. Len(write_buf) :
        /\ wire' = wire \o Prefix(write_buf, n)
        /\ write_buf' = Suffix(write_buf, n)
        /\ \/ n = Len(write_buf) /\ pos' = pos + pending_input /\ pending_input' = 0
           \/ n < Len(write_buf) /\ UNCHANGED <<pos, pending_input>>
  BY DEF poll_drain_write_buf, Drained, Accepted, Consumed
<1>3. UNCHANGED <<kind, start, cap, first_request, server, received, write_status>>
  BY DEF poll_drain_write_buf, sink
<1>4. /\ pos \in Nat /\ pending_input \in Nat /\ cap \in Nat /\ start \in Nat
      /\ wire \in Seq(Nat) /\ write_buf \in Seq(Nat) /\ received \in Seq(Nat)
      /\ Len(write_buf) \in Nat /\ n \in 0 .. Len(write_buf)
      /\ pos + pending_input <= cap /\ cap <= Total
  BY <1>1, LenProperties DEF WriteTypes, Buffered
<1> DEFINE h == Prefix(write_buf, n)
           t == Suffix(write_buf, n)
           c == wire \o h
           o == PayloadOf(wire) \o PayloadOf(write_buf)
<1>5. /\ c \in Seq(Nat) /\ t \in Seq(Nat) /\ c \o t = wire \o write_buf
      /\ PayloadOf(c) \o PayloadOf(t) = o
      /\ Len(PayloadOf(t)) <= Len(PayloadOf(write_buf))
      /\ t = <<>> <=> n = Len(write_buf)
  BY <1>4, Moved
<1>6. wire' = c /\ write_buf' = t
  BY <1>2
<1>7. PayloadOf(wire') \o PayloadOf(write_buf') = o
  BY <1>5, <1>6
<1>8. (wire \o write_buf)' = wire \o write_buf
  BY <1>5, <1>6
<1> HIDE DEF h, t, c, o
<1>9. pos' + pending_input' = pos + pending_input /\ pos' \in Nat /\ pending_input' \in Nat
  BY <1>2, <1>4
<1>10. WriteTypes'
  BY <1>1, <1>3, <1>4, <1>5, <1>6, <1>9 DEF WriteTypes
<1>11. write_buf # <<>> /\ pending_input # 0
  <2>1. Len(write_buf) # 0
    BY <1>2, <1>4
  <2>2. write_buf # <<>>
    BY <2>1
  <2> QED BY <1>1, <2>2 DEF Buffered
<1>12. Buffered'
  <2>1. pos' + pending_input' <= cap' /\ cap' <= Total
    BY <1>3, <1>4, <1>9
  <2>2. CASE n = Len(write_buf)
    <3>1. write_buf' = <<>> /\ pending_input' = 0
      BY <1>2, <1>4, <1>5, <1>6, <2>2
    <3>2. Len(PayloadOf(write_buf')) <= pending_input'
      <4>1. PayloadOf(write_buf') = <<>>
        BY <3>1, WithoutEmpty DEF PayloadOf
      <4>2. Len(<<>>) = 0
        OBVIOUS
      <4> QED BY <3>1, <4>1, <4>2
    <3> QED BY <2>1, <3>1, <3>2 DEF Buffered, PayloadOf
  <2>3. CASE n < Len(write_buf)
    <3>1. write_buf' # <<>> /\ pending_input' = pending_input
      BY <1>2, <1>4, <1>5, <1>6, <2>3
    <3>2. Len(PayloadOf(write_buf')) <= pending_input'
      <4>1. Len(PayloadOf(write_buf)) <= pending_input
        BY <1>1 DEF Buffered
      <4>2. PayloadOf(t) \in Seq(Nat) /\ PayloadOf(write_buf) \in Seq(Nat)
        BY <1>4, <1>5, PayloadIn
      <4>3. Len(PayloadOf(t)) \in Nat /\ Len(PayloadOf(write_buf)) \in Nat
        BY <4>2, LenProperties
      <4>4. Len(PayloadOf(t)) <= pending_input
        BY <1>4, <1>5, <4>1, <4>3
      <4> QED BY <1>6, <3>1, <4>4
    <3> QED BY <1>11, <2>1, <3>1, <3>2 DEF Buffered, PayloadOf
  <2> QED BY <1>4, <2>2, <2>3
<1>13. WriteOwed'
  <2>1. received \o o = Bytes(0, pos + pending_input)
    BY <1>1 DEF WriteOwed, o
  <2>2. received' \o (PayloadOf(wire') \o PayloadOf(write_buf')) = Bytes(0, pos' + pending_input')
    BY <1>3, <1>7, <1>9, <2>1
  <2> QED BY <2>2 DEF WriteOwed, PayloadOf, Bytes, Data
<1>14. WriteParses'
  BY <1>1, <1>3, <1>8, ParsesSame
<1>15. Shut'
  BY <1>1, <1>3 DEF Shut
<1> QED BY <1>3, <1>10, <1>12, <1>13, <1>14, <1>15 DEF WriteInv

\* A stream is its first byte and the rest.
LEMMA FirstAndRest ==
  ASSUME NEW s \in Seq(Nat), s # <<>>
  PROVE  /\ Tail(s) \in Seq(Nat) /\ Head(s) \in Nat /\ Head(s) = s[1]
         /\ <<Head(s)>> \in Seq(Nat) /\ s = <<Head(s)>> \o Tail(s)
<1> DEFINE b == Head(s)
           t == Tail(s)
           a == <<b>>
<1>1. /\ t \in Seq(Nat) /\ b \in Nat /\ b = s[1] /\ Len(s) \in Nat /\ Len(t) = Len(s) - 1
      /\ \A k \in 1 .. Len(t) : t[k] = s[k + 1]
  BY HeadTailProperties, LenProperties
<1>2. a \in Seq(Nat) /\ Len(a) = 1 /\ a[1] = b
  BY <1>1
<1> HIDE DEF a, b, t
<1>3. /\ a \o t \in Seq(Nat) /\ Len(a \o t) = Len(a) + Len(t)
      /\ \A j \in 1 .. Len(a) : (a \o t)[j] = a[j]
      /\ \A j \in 1 .. Len(t) : (a \o t)[Len(a) + j] = t[j]
  BY <1>1, <1>2, Joined
<1> DEFINE c == a \o t
<1>4. /\ c \in Seq(Nat) /\ Len(c) = Len(s) /\ c[1] = b
      /\ \A j \in 1 .. Len(t) : c[1 + j] = t[j]
  BY <1>1, <1>2, <1>3
<1> HIDE DEF c
<1>5. ASSUME NEW k \in 1 .. Len(s) PROVE c[k] = s[k]
  <2>1. CASE k = 1
    BY <1>1, <1>4, <2>1
  <2>2. CASE k # 1
    <3>1. k - 1 \in 1 .. Len(t) /\ 1 + (k - 1) = k /\ (k - 1) + 1 = k
      BY <1>1, <2>2
    <3>2. c[1 + (k - 1)] = t[k - 1] /\ t[k - 1] = s[(k - 1) + 1]
      BY <1>1, <1>4, <3>1
    <3> QED BY <3>1, <3>2
  <2> QED BY <2>1, <2>2
<1>6. c = s
  BY <1>4, <1>5, SeqEqual
<1> QED BY <1>1, <1>2, <1>6 DEF a, b, t, c

\* The payload in one byte.
LEMMA PayloadOfByte ==
  ASSUME NEW b \in Nat
  PROVE  PayloadOf(<<b>>) = IF b > Base THEN <<b>> ELSE <<>>
<1> DEFINE s == <<b>>
<1>1. s \in Seq(Nat) /\ Len(s) = 1 /\ s[1] = b /\ Base \in Nat
  BY KindsAssumption
<1> HIDE DEF s
<1>2. \A k \in 1 .. Len(s) : s[k] = b
  <2>1. \A k \in 1 .. 1 : k = 1
    OBVIOUS
  <2> QED BY <1>1, <2>1
<1>3. CASE b > Base
  <2>1. \A k \in 1 .. Len(s) : s[k] \notin 0 .. Base
    BY <1>1, <1>2, <1>3
  <2>2. PayloadOf(s) = s
    BY <1>1, <2>1, WithoutNone DEF PayloadOf
  <2> QED BY <1>3, <2>2 DEF s
<1>4. CASE ~(b > Base)
  <2>1. \A k \in 1 .. Len(s) : s[k] \in 0 .. Base
    BY <1>1, <1>2, <1>4
  <2>2. PayloadOf(s) = <<>>
    BY <1>1, <2>1, FramingOnly
  <2> QED BY <1>4, <2>2 DEF s
<1> QED BY <1>3, <1>4

\* Taking the first byte off.
LEMMA FirstOff ==
  ASSUME NEW s \in Seq(Nat), s # <<>>, NEW u \in Seq(Nat)
  PROVE  /\ s \o u \in Seq(Nat) /\ s \o u # <<>>
         /\ (s \o u)[1] = s[1] /\ Tail(s \o u) = Tail(s) \o u
<1> DEFINE c == s \o u
           t == Tail(s)
           d == t \o u
           e == Tail(c)
<1>1. /\ t \in Seq(Nat) /\ Len(s) \in Nat \ {0} /\ Len(u) \in Nat /\ Len(t) = Len(s) - 1
      /\ \A k \in 1 .. Len(t) : t[k] = s[k + 1]
  BY HeadTailProperties, LenProperties, EmptySeq
<1>2. /\ c \in Seq(Nat) /\ Len(c) = Len(s) + Len(u)
      /\ \A j \in 1 .. Len(s) : c[j] = s[j]
      /\ \A j \in 1 .. Len(u) : c[Len(s) + j] = u[j]
  BY Joined
<1> HIDE DEF t
<1>3. /\ d \in Seq(Nat) /\ Len(d) = Len(t) + Len(u)
      /\ \A j \in 1 .. Len(t) : d[j] = t[j]
      /\ \A j \in 1 .. Len(u) : d[Len(t) + j] = u[j]
  BY <1>1, Joined
<1> HIDE DEF c, d
<1>4. c # <<>>
  <2>1. Len(c) # 0
    BY <1>1, <1>2
  <2> QED BY <2>1
<1>5. /\ e \in Seq(Nat) /\ Len(e) = Len(c) - 1
      /\ \A k \in 1 .. Len(c) - 1 : e[k] = c[k + 1]
  BY <1>2, <1>4, HeadTailProperties
<1> HIDE DEF e
<1>6. ASSUME NEW k \in 1 .. Len(e) PROVE e[k] = d[k]
  <2>1. CASE k <= Len(t)
    <3>1. k \in 1 .. Len(t) /\ k + 1 \in 1 .. Len(s) /\ k \in 1 .. Len(c) - 1
      BY <1>1, <1>2, <1>5, <2>1
    <3> QED BY <1>1, <1>2, <1>3, <1>5, <3>1
  <2>2. CASE ~(k <= Len(t))
    <3> DEFINE j == k - Len(t)
    <3>1. /\ j \in 1 .. Len(u) /\ Len(t) + j = k /\ Len(s) + j = k + 1 /\ k \in 1 .. Len(c) - 1
      BY <1>1, <1>2, <1>5, <2>2
    <3> HIDE DEF j
    <3>2. d[Len(t) + j] = u[j] /\ c[Len(s) + j] = u[j] /\ e[k] = c[k + 1]
      BY <1>2, <1>3, <1>5, <3>1
    <3> QED BY <3>1, <3>2
  <2> QED BY <2>1, <2>2
<1>7. e = d
  <2>1. Len(e) = Len(d)
    BY <1>1, <1>2, <1>3, <1>5
  <2> QED BY <1>3, <1>5, <1>6, <2>1, SeqEqual
<1>8. c[1] = s[1]
  <2>1. 1 \in 1 .. Len(s)
    BY <1>1
  <2> QED BY <1>2, <2>1
<1> QED BY <1>2, <1>4, <1>7, <1>8 DEF c, d, e, t

\* The server takes a byte.
LEMMA ReceiveStep ==
  ASSUME WriteInv, Receive
  PROVE  /\ WriteInv' /\ UNCHANGED write_status /\ write_status # "failed"
         /\ server.at # "closed" /\ server'.at # "closed"
         /\ received \in Seq(Nat)
         /\ received' = received \/ \E b \in Nat : received' = received \o <<b>>
         /\ \E r \in Seq(Nat) : received' \o r = Bytes(0, pos + pending_input)
<1>1. WriteTypes /\ Buffered /\ WriteOwed /\ WriteParses /\ Shut
  BY DEF WriteInv
<1> DEFINE b == Head(wire)
           t == Tail(wire)
           q == AfterByte(server, wire[1])
           x == PayloadOf(<<b>>)
           pt == PayloadOf(t)
           pb == PayloadOf(write_buf)
           pw == PayloadOf(wire)
           o == Bytes(0, pos + pending_input)
<1>2. /\ wire # <<>> /\ wire' = t /\ write_status # "failed"
      /\ UNCHANGED <<kind, start, pos, cap, first_request, write_buf, pending_input, write_status>>
  BY DEF Receive, caller
<1>3. /\ wire \in Seq(Nat) /\ write_buf \in Seq(Nat) /\ received \in Seq(Nat)
      /\ {start, pos, cap, pending_input} \subseteq Nat
  BY <1>1 DEF WriteTypes
<1>4. server.at # "closed" /\ Parses(wire \o write_buf, server, Boundary)
  BY <1>1, <1>2 DEF Shut, WriteParses
<1>5. /\ t \in Seq(Nat) /\ b \in Nat /\ b = wire[1] /\ <<b>> \in Seq(Nat)
      /\ wire = <<b>> \o t
  BY <1>2, <1>3, FirstAndRest
<1>6. Takes(server, wire[1], q) /\ Parses(t \o write_buf, q, Boundary)
  <2> DEFINE s == wire \o write_buf
  <2>1. s \in Seq(Nat) /\ s # <<>> /\ s[1] = wire[1] /\ Tail(s) = t \o write_buf
    BY <1>2, <1>3, FirstOff
  <2> HIDE DEF s, t, q
  <2>2. Parses(s, server, Boundary)
    BY <1>4 DEF s
  <2>3. Takes(server, s[1], AfterByte(server, s[1])) /\ Parses(Tail(s), AfterByte(server, s[1]), Boundary)
    BY <2>1, <2>2, ParsesFirst
  <2> QED BY <2>1, <2>3 DEF q
<1>7. q.at # "closed"
  <2> DEFINE s == t \o write_buf
             e == Boundary
  <2>1. s \in Seq(Nat)
    <3> HIDE DEF t
    <3>1. t \in Seq(Nat) /\ write_buf \in Seq(Nat)
      BY <1>3, <1>5
    <3> QED BY <3>1, ConcatN
  <2>2. Parses(s, q, e) /\ e.at # "closed"
    BY <1>6, AtBoundary
  <2> HIDE DEF s, q, e
  <2> QED BY <2>1, <2>2, ParsesOpen
<1>8. server' = q
  BY <1>5 DEF Receive
<1>9. b > Base <=> server.at \in {"data", "pass"}
  BY <1>5, <1>6 DEF Takes
<1>10. x = (IF b > Base THEN <<b>> ELSE <<>>) /\ x \in Seq(Nat)
  <2>1. <<>> \in Seq(Nat)
    OBVIOUS
  <2> QED BY <1>5, <2>1, PayloadOfByte
<1>11. received' = received \o x
  <2>1. CASE b > Base
    <3>1. received' = Append(received, b)
      BY <1>9, <2>1 DEF Receive
    <3> HIDE DEF b
    <3>2. Append(received, b) = received \o <<b>>
      BY <1>3, <1>5, AppendIsConcat
    <3> QED BY <1>10, <2>1, <3>1, <3>2 DEF b
  <2>2. CASE ~(b > Base)
    <3>1. received' = received
      BY <1>9, <2>2 DEF Receive
    <3>2. received \o <<>> = received
      BY <1>3, NilN
    <3> QED BY <1>10, <2>2, <3>1, <3>2
  <2> QED BY <2>1, <2>2
<1>12. pw = x \o pt /\ pt \in Seq(Nat) /\ pb \in Seq(Nat)
  <2> HIDE DEF b, t
  <2>1. PayloadOf(<<b>> \o t) = x \o pt
    BY <1>5, PayloadConcat
  <2>2. pt \in Seq(Nat) /\ pb \in Seq(Nat)
    BY <1>3, <1>5, PayloadIn
  <2> QED BY <1>5, <2>1, <2>2
<1>13. received \o (pw \o pb) = o
  BY <1>1 DEF WriteOwed
<1> HIDE DEF b, t, q, x, pt, pb, pw, o
<1>14. received \o x \in Seq(Nat) /\ (received \o x) \o (pt \o pb) = received \o ((x \o pt) \o pb)
  <2>1. received \in Seq(Nat) /\ x \in Seq(Nat) /\ pt \in Seq(Nat) /\ pb \in Seq(Nat)
    BY <1>3, <1>10, <1>12
  <2> DEFINE y == pt \o pb
             z == x \o pt
  <2>2. received \o x \in Seq(Nat)
    BY <2>1, ConcatN
  <2>3. y \in Seq(Nat) /\ z \o pb = x \o y
    <3>1. y \in Seq(Nat)
      BY <2>1, ConcatN
    <3>2. (x \o pt) \o pb = x \o (pt \o pb)
      BY <2>1, AssocN, Zenon
    <3> QED BY <3>1, <3>2
  <2> HIDE DEF y, z
  <2>4. received \in Seq(Nat) /\ x \in Seq(Nat) /\ y \in Seq(Nat)
    BY <2>1, <2>3
  <2>5. (received \o x) \o y = received \o (x \o y)
    BY <2>4, AssocN
  <2>6. (received \o x) \o y = received \o (z \o pb)
    BY <2>3, <2>5
  <2> QED BY <2>2, <2>6 DEF y, z
<1>15. received' \o (pt \o pb) = o
  BY <1>11, <1>12, <1>13, <1>14
<1>16. pt \o pb \in Seq(Nat)
  BY <1>12, ConcatN
<1>17. WriteTypes'
  BY <1>1, <1>2, <1>3, <1>5, <1>11, <1>14 DEF WriteTypes
<1>18. Buffered'
  BY <1>1, <1>2 DEF Buffered, PayloadOf
<1>19. WriteOwed'
  <2>1. PayloadOf(wire') = pt /\ PayloadOf(write_buf') = pb /\ o = Bytes(0, pos' + pending_input')
    BY <1>2 DEF pt, pb, o
  <2>2. received' \o (PayloadOf(wire') \o PayloadOf(write_buf')) = Bytes(0, pos' + pending_input')
    BY <1>15, <2>1
  <2> QED BY <2>2 DEF WriteOwed, PayloadOf, Bytes, Data
<1>20. WriteParses'
  <2>1. (wire \o write_buf)' = t \o write_buf
    BY <1>2
  <2>2. Boundary' = Boundary
    BY <1>2 DEF Boundary, Start, Raw, Between
  <2>3. Parses(wire \o write_buf, server, Boundary)'
    BY <1>2, <1>6, <1>8, <2>1, <2>2, ParsesNext
  <2> QED BY <2>3 DEF WriteParses
<1>21. Shut'
  BY <1>1, <1>2, <1>7, <1>8 DEF Shut
<1>22. WriteInv'
  BY <1>17, <1>18, <1>19, <1>20, <1>21 DEF WriteInv
<1>23. received' = received \/ \E c \in Nat : received' = received \o <<c>>
  BY <1>3, <1>5, <1>10, <1>11, NilN
<1>24. \E r \in Seq(Nat) : received' \o r = Bytes(0, pos + pending_input)
  BY <1>15, <1>16 DEF o
<1> QED BY <1>2, <1>3, <1>4, <1>7, <1>8, <1>22, <1>23, <1>24

-----------------------------------------------------------------------------
(* The write side implements a byte stream.                                *)

\* The writer's invariant holds at first.
LEMMA WriteBegins == kind \in Kinds /\ WriteInit => WriteInv
<1> SUFFICES ASSUME kind \in Kinds, WriteInit PROVE WriteInv
  OBVIOUS
<1>1. /\ start = 0 /\ pos = 0 /\ cap = 0 /\ pending_input = 0 /\ first_request = TRUE
      /\ write_buf = <<>> /\ wire = <<>> /\ received = <<>> /\ write_status = "open"
      /\ server = Start
  BY DEF WriteInit, Start
<1>2. <<>> \in Seq(Nat) /\ Len(<<>>) = 0 /\ 0 \in Nat /\ 0 + 0 = 0
  OBVIOUS
<1>3. WriteTypes
  BY <1>1, <1>2, KindsAssumption DEF WriteTypes
<1>4. PayloadOf(<<>>) = <<>>
  BY WithoutEmpty DEF PayloadOf
<1>5. Buffered
  <2>1. 0 <= Total
    BY Sizes
  <2> QED BY <1>1, <1>2, <1>4, <2>1 DEF Buffered
<1>6. <<>> \o <<>> = <<>>
  BY <1>2, NilN
<1>7. WriteOwed
  <2>1. Bytes(0, 0) = <<>>
    <3>1. Bytes(0, 0) \in Seq(Nat) /\ Len(Bytes(0, 0)) = 0
      BY <1>2, BytesAre
    <3> QED BY <3>1, EmptySeq
  <2> QED BY <1>1, <1>2, <1>4, <1>6, <2>1 DEF WriteOwed
<1>8. WriteParses
  <2>1. Parses(<<>>, Start, Start)
    BY ParsesEmpty
  <2>2. wire \o write_buf = <<>> /\ Boundary = Start
    BY <1>1, <1>6 DEF Boundary
  <2> QED BY <1>1, <2>1, <2>2 DEF WriteParses
<1>9. Shut
  BY <1>1 DEF Shut, Start
<1> QED BY <1>3, <1>5, <1>7, <1>8, <1>9 DEF WriteInv

\* The state the relay at the other end sees.
Told == IF server.at = "closed" THEN "eof"
        ELSE IF write_status = "failed" THEN "failed" ELSE "open"

Sent == SubSeq(Bytes(0, Total), Len(received) + 1, Total)

\* The next byte of a stream of which l have gone.
LEMMA OneMore ==
  ASSUME NEW s \in Seq(Nat), NEW l \in Nat, l + 1 <= Len(s)
  PROVE  /\ Suffix(s, l) \in Seq(Nat) /\ Len(Suffix(s, l)) >= 1
         /\ SubSeq(Suffix(s, l), 1, 1) = <<s[l + 1]>>
         /\ SubSeq(Suffix(s, l), 1 + 1, Len(Suffix(s, l))) = Suffix(s, l + 1)
<1> DEFINE a == Suffix(s, l)
           h == Prefix(a, 1)
           t == Suffix(a, 1)
           u == Suffix(s, l + 1)
<1>1. Len(s) \in Nat /\ l \in 0 .. Len(s) /\ l + 1 \in 0 .. Len(s)
  BY LenProperties
<1>2. a \in Seq(Nat) /\ Len(a) = Len(s) - l /\ \A i \in 1 .. Len(s) - l : a[i] = s[l + i]
  BY <1>1, Split
<1>3. /\ u \in Seq(Nat) /\ Len(u) = Len(s) - (l + 1)
      /\ \A i \in 1 .. Len(s) - (l + 1) : u[i] = s[l + 1 + i]
  BY <1>1, Split
<1> HIDE DEF a, u
<1>4. 1 \in 0 .. Len(a)
  BY <1>1, <1>2
<1>5. /\ h \in Seq(Nat) /\ Len(h) = 1 /\ \A i \in 1 .. 1 : h[i] = a[i]
      /\ t \in Seq(Nat) /\ Len(t) = Len(a) - 1 /\ \A i \in 1 .. Len(a) - 1 : t[i] = a[1 + i]
  <2>1. a \in Seq(Nat) /\ 1 \in 0 .. Len(a)
    BY <1>2, <1>4
  <2> QED BY <2>1, SplitN
<1>6. h = SubSeq(a, 1, 1) /\ t = SubSeq(a, 1 + 1, Len(a))
  BY DEF Prefix, Suffix
<1> HIDE DEF h, t
<1>7. t = u
  <2>1. Len(t) = Len(u)
    BY <1>1, <1>2, <1>3, <1>5
  <2>2. ASSUME NEW i \in 1 .. Len(t) PROVE t[i] = u[i]
    <3>1. /\ i \in 1 .. Len(a) - 1 /\ 1 + i \in 1 .. Len(s) - l /\ i \in 1 .. Len(s) - (l + 1)
          /\ l + (1 + i) = l + 1 + i
      <4>1. /\ Len(s) \in Nat /\ l \in Nat /\ l + 1 <= Len(s)
            /\ Len(a) = Len(s) - l /\ Len(t) = Len(a) - 1
        BY <1>1, <1>2, <1>5
      <4> QED BY <4>1
    <3> QED BY <1>2, <1>3, <1>5, <3>1
  <2> QED BY <1>3, <1>5, <2>1, <2>2, SeqEqual
<1>8. h = <<s[l + 1]>>
  <2>1. 1 \in 1 .. 1 /\ 1 \in 1 .. Len(s) - l /\ l + 1 \in 1 .. Len(s)
    BY <1>1
  <2>2. h[1] = s[l + 1] /\ s[l + 1] \in Nat
    BY <1>2, <1>5, <2>1, LenProperties
  <2> DEFINE b == s[l + 1]
             c == <<b>>
  <2>3. c \in Seq(Nat) /\ Len(c) = 1 /\ c[1] = b
    BY <2>2
  <2>4. h[1] = b
    BY <2>2
  <2> HIDE DEF b, c
  <2>5. \A i \in 1 .. Len(h) : h[i] = c[i]
    BY <1>5, <2>3, <2>4
  <2>6. h = c
    BY <1>5, <2>3, <2>5, SeqEqual
  <2> QED BY <2>6 DEF b, c
<1>9. Len(a) >= 1
  BY <1>1, <1>2
<1> QED BY <1>2, <1>6, <1>7, <1>8, <1>9 DEF a, u

\* The server gets a payload byte.
LEMMA OneByte ==
  ASSUME received \in Seq(Nat), NEW b \in Nat, received' = received \o <<b>>,
         NEW m \in Nat, m <= Total,
         NEW r \in Seq(Nat), received' \o r = Bytes(0, m)
  PROVE  /\ Len(Sent) >= 1
         /\ received' = received \o SubSeq(Sent, 1, 1)
         /\ Sent' = SubSeq(Sent, 1 + 1, Len(Sent))
<1> DEFINE T == Bytes(0, Total)
           M == Bytes(0, m)
           l == Len(received)
           c == <<b>>
           v == received \o c
           w == v \o r
<1>0. 0 \in Nat /\ Total \in Nat /\ \A k \in Nat : 0 + k = k
  BY Sizes
<1>1. /\ T \in Seq(Nat) /\ Len(T) = Total /\ \A k \in 1 .. Total : T[k] = Base + (0 + k)
      /\ M \in Seq(Nat) /\ Len(M) = m /\ \A k \in 1 .. m : M[k] = Base + (0 + k)
  BY <1>0, BytesAre
<1>2. c \in Seq(Nat) /\ Len(c) = 1 /\ c[1] = b /\ l \in Nat
  BY LenProperties
<1> HIDE DEF T, M, c
<1>3. v \in Seq(Nat) /\ Len(v) = l + 1 /\ v[l + 1] = b
  <2>1. /\ v \in Seq(Nat) /\ Len(v) = Len(received) + Len(c)
        /\ \A j \in 1 .. Len(c) : v[Len(received) + j] = c[j]
    BY <1>2, Joined
  <2>2. 1 \in 1 .. Len(c)
    BY <1>2
  <2> QED BY <1>2, <2>1, <2>2
<1>a. received' = v
  BY DEF c
<1> HIDE DEF v
<1>4. /\ w \in Seq(Nat) /\ Len(w) = Len(v) + Len(r) /\ Len(r) \in Nat
      /\ \A j \in 1 .. Len(v) : w[j] = v[j]
  BY <1>3, Joined, LenProperties
<1>5. w = M
  BY <1>a DEF M
<1> HIDE DEF w, l
<1>6. l + 1 <= m /\ l + 1 \in 1 .. m /\ l + 1 \in 1 .. Len(v) /\ l + 1 \in 1 .. Total
  BY <1>0, <1>1, <1>2, <1>3, <1>4, <1>5
<1>7. b = T[l + 1]
  BY <1>1, <1>3, <1>4, <1>5, <1>6
<1>8. /\ Len(Suffix(T, l)) >= 1
      /\ SubSeq(Suffix(T, l), 1, 1) = <<T[l + 1]>>
      /\ SubSeq(Suffix(T, l), 1 + 1, Len(Suffix(T, l))) = Suffix(T, l + 1)
  <2>1. T \in Seq(Nat) /\ l \in Nat /\ l + 1 <= Len(T)
    BY <1>1, <1>2, <1>6
  <2> QED BY <2>1, OneMore
<1>9. Sent = Suffix(T, l)
  BY <1>1 DEF Sent, Suffix, T, l
<1>10. Sent' = Suffix(T, l + 1)
  <2>1. Sent' = SubSeq(Bytes(0, Total), Len(v) + 1, Total)
    BY <1>a DEF Sent, Bytes, Data
  <2> QED BY <1>1, <1>3, <2>1 DEF Suffix, T
<1>11. received' = received \o <<T[l + 1]>>
  BY <1>7
<1> QED BY <1>8, <1>9, <1>10, <1>11

\* The steps of the byte stream on the write side.
LEMMA WriteQuiet ==
  ASSUME UNCHANGED <<server, received>>,
         \/ UNCHANGED write_status
         \/ write_status = "open" /\ write_status' \in {"open", "eof"}
  PROVE  UNCHANGED WriteStream!vars
<1>1. Sent' = Sent
  BY DEF Sent, Bytes, Data
<1>2. Told' = Told
  BY DEF Told
<1> QED BY <1>1, <1>2 DEF WriteStream!vars, Sent, Told

\* Every step of the writer keeps its invariant and is one of the stream's.
LEMMA WriteStep ==
  ASSUME WriteInv, [WriteNext]_writing
  PROVE  WriteInv' /\ [WriteStream!Next]_(WriteStream!vars)
<1>1. WriteTypes /\ Buffered /\ WriteOwed /\ WriteParses /\ Shut
  BY DEF WriteInv
<1>2. CASE Open /\ Fill
  <2>1. WriteInv'
    BY <1>2, FillStep
  <2>2. UNCHANGED <<server, received, write_status>>
    BY <1>2 DEF Fill, sink
  <2> QED BY <2>1, <2>2, WriteQuiet
<1>3. CASE Open /\ poll_write
  BY <1>3, PollWriteStep, WriteQuiet DEF Open
<1>4. CASE Open /\ poll_drain_write_buf
  BY <1>4, DrainStep, WriteQuiet DEF Open
<1>5. CASE Open /\ (poll_flush \/ poll_shutdown)
  BY <1>5, EndStep, WriteQuiet DEF Open
<1>6. CASE Open /\ WriteFails
  <2>1. WriteInv'
    BY <1>6, FailStep DEF Open
  <2>2. server.at # "closed" /\ write_status = "open"
    BY <1>1, <1>6 DEF Shut, Open
  <2>3. UNCHANGED <<server, received>> /\ write_status' = "failed"
    BY <1>6 DEF WriteFails, sink
  <2>4. Told = "open" /\ Told' = "failed"
    BY <2>2, <2>3 DEF Told
  <2>5. Sent' = Sent /\ received' = received
    BY <2>3 DEF Sent, Bytes, Data
  <2>6. WriteStream!Break
    BY <2>4, <2>5 DEF WriteStream!Break, Sent, Told
  <2> QED BY <2>1, <2>6 DEF WriteStream!Next
<1>7. CASE Receive
  <2>1. /\ WriteInv' /\ UNCHANGED write_status /\ write_status # "failed"
        /\ server.at # "closed" /\ server'.at # "closed"
        /\ received \in Seq(Nat)
        /\ received' = received \/ \E b \in Nat : received' = received \o <<b>>
    BY <1>7, ReceiveStep
  <2>2. PICK r \in Seq(Nat) : received' \o r = Bytes(0, pos + pending_input)
    BY <1>7, ReceiveStep
  <2>3. Told = "open" /\ Told' = "open"
    BY <2>1 DEF Told
  <2>4. CASE received' = received
    <3>1. Sent' = Sent
      BY <2>4 DEF Sent, Bytes, Data
    <3>2. UNCHANGED WriteStream!vars
      BY <2>3, <2>4, <3>1 DEF WriteStream!vars, Sent, Told
    <3> QED BY <2>1, <3>2
  <2>5. CASE \E b \in Nat : received' = received \o <<b>>
    <3>1. PICK b \in Nat : received' = received \o <<b>>
      BY <2>5
    <3> DEFINE m == pos + pending_input
    <3>2. m \in Nat /\ m <= Total
      <4>1. /\ pos \in Nat /\ pending_input \in Nat /\ cap \in Nat /\ Total \in Nat
            /\ pos + pending_input <= cap /\ cap <= Total
        BY <1>1, Sizes DEF WriteTypes, Buffered
      <4> QED BY <4>1
    <3>3. received' \o r = Bytes(0, m)
      BY <2>2
    <3> HIDE DEF m
    <3>4. /\ Len(Sent) >= 1 /\ received' = received \o SubSeq(Sent, 1, 1)
          /\ Sent' = SubSeq(Sent, 1 + 1, Len(Sent))
      BY <2>1, <3>1, <3>2, <3>3, OneByte
    <3>5. 1 \in 1 .. Len(Sent)
      <4>1. Sent \in Seq(Nat)
        <5>1. Bytes(0, Total) \in Seq(Nat) /\ Len(Bytes(0, Total)) = Total /\ Total \in Nat
          BY Sizes, BytesAre
        <5>2. Len(received) + 1 \in Nat \ {0}
          BY <2>1, LenProperties
        <5> DEFINE T == Bytes(0, Total)
                   l == Len(received) + 1
        <5>3. \A i \in l .. Total : T[i] \in Nat
          <6>1. \A i \in 1 .. Len(T) : T[i] \in Nat
            BY <5>1, LenProperties
          <6> QED BY <5>1, <5>2, <6>1
        <5> HIDE DEF T, l
        <5>4. SubSeq(T, l, Total) \in Seq(Nat)
          BY <5>1, <5>2, <5>3, SubSeqProperties DEF l
        <5> QED BY <5>4 DEF Sent, T, l
      <4>2. Len(Sent) \in Nat
        BY <4>1, LenProperties
      <4> QED BY <3>4, <4>2
    <3>6. WriteStream!Transfer
      BY <2>3, <3>4, <3>5 DEF WriteStream!Transfer, Sent, Told
    <3> QED BY <2>1, <3>6 DEF WriteStream!Next
  <2> QED BY <2>1, <2>4, <2>5
<1>8. CASE ReceiveEof
  <2>1. /\ write_status = "eof" /\ wire = <<>> /\ server.at # "closed" /\ server'.at = "closed"
        /\ UNCHANGED <<kind, start, pos, cap, first_request, write_buf, pending_input, wire,
                       received, write_status>>
    <3>1. server' = [server EXCEPT !.at = "closed"]
      BY <1>8 DEF ReceiveEof
    <3>2. server'.at = "closed"
      BY <3>1 
    <3> QED BY <1>8, <3>2 DEF ReceiveEof, caller
  <2>2. WriteInv'
    <3>1. WriteTypes'
      BY <1>1, <2>1 DEF WriteTypes
    <3>2. Buffered'
      BY <1>1, <2>1 DEF Buffered, PayloadOf
    <3>3. WriteOwed'
      BY <1>1, <2>1 DEF WriteOwed, PayloadOf, Bytes, Data
    <3>4. WriteParses'
      BY <2>1 DEF WriteParses
    <3>5. Shut'
      BY <1>1, <2>1 DEF Shut
    <3> QED BY <3>1, <3>2, <3>3, <3>4, <3>5 DEF WriteInv
  <2>3. pos = Total /\ write_buf = <<>>
    <3>1. /\ pos = Total /\ pos \in Nat /\ pending_input \in Nat /\ cap \in Nat
          /\ pos + pending_input <= cap /\ cap <= Total
      BY <1>1, <2>1 DEF Shut, WriteTypes, Buffered
    <3>2. pending_input = 0
      BY <3>1
    <3> QED BY <1>1, <3>1, <3>2 DEF Buffered
  <2>4. received = Bytes(0, Total) /\ received \in Seq(Nat)
    <3>1. received \o PayloadOf(wire) = Bytes(0, Total) /\ received \in Seq(Nat)
      BY <1>1, <2>3, NothingBuffered
    <3>2. PayloadOf(wire) = <<>>
      BY <2>1, WithoutEmpty DEF PayloadOf
    <3>3. received \o <<>> = received
      BY <3>1, NilN
    <3> QED BY <3>1, <3>2, <3>3
  <2>5. Sent = <<>>
    <3>1. Total \in Nat /\ Len(Bytes(0, Total)) = Total
      BY Sizes, BytesAre
    <3>2. Sent = SubSeq(received, Len(received) + 1, Len(received))
      BY <2>4, <3>1 DEF Sent
    <3>3. Len(received) \in Nat /\ Len(received) \in 0 .. Len(received)
      BY <2>4, LenProperties
    <3>4. Suffix(received, Len(received)) \in Seq(Nat)
          /\ Len(Suffix(received, Len(received))) = Len(received) - Len(received)
      BY <2>4, <3>3, SplitN
    <3>5. Sent \in Seq(Nat) /\ Len(Sent) = 0
      BY <3>2, <3>3, <3>4 DEF Suffix
    <3> QED BY <3>5, EmptySeq
  <2>6. Told = "open" /\ Told' = "eof"
    BY <2>1 DEF Told
  <2>7. Sent' = Sent
    BY <2>1 DEF Sent, Bytes, Data
  <2>8. WriteStream!Finish
    BY <2>1, <2>5, <2>6, <2>7 DEF WriteStream!Finish, Sent, Told
  <2> QED BY <2>2, <2>8 DEF WriteStream!Next
<1>9. CASE UNCHANGED writing
  <2>1. UNCHANGED <<kind, start, pos, cap, first_request, write_buf, pending_input, wire,
                    server, received, write_status>>
    BY <1>9 DEF writing
  <2>2. WriteTypes' /\ Shut'
    BY <1>1, <2>1 DEF WriteTypes, Shut
  <2>3. Buffered'
    BY <1>1, <2>1 DEF Buffered, PayloadOf
  <2>4. WriteOwed'
    BY <1>1, <2>1 DEF WriteOwed, PayloadOf, Bytes, Data
  <2>5. WriteParses'
    BY <1>1, <2>1, ParsesSame
  <2> QED BY <2>1, <2>2, <2>3, <2>4, <2>5, WriteQuiet DEF WriteInv
<1> QED BY <1>2, <1>3, <1>4, <1>5, <1>6, <1>7, <1>8, <1>9 DEF WriteNext, Write

\* The writer's invariant always holds.
LEMMA WriteAlways == Spec => []WriteInv
<1>1. Init => WriteInv
  BY WriteBegins DEF Init
<1>2. [Next]_vars => [WriteNext]_writing
  BY DEF Next, vars
<1>3. WriteInv /\ [Next]_vars => WriteInv'
  BY <1>2, WriteStep
<1> QED BY <1>1, <1>2, <1>3, PTL DEF Spec

\* poll_write: bytes are reported as written only once the frame that carries them
\* has been accepted, and none is left in write_buf for a flush to drain.
THEOREM WrittenIsAccepted == Spec => []AcceptedIsWritten
<1>1. WriteInv => AcceptedIsWritten
  <2> SUFFICES ASSUME WriteInv PROVE AcceptedIsWritten
    OBVIOUS
  <2>1. WriteTypes /\ Buffered /\ WriteOwed
    BY DEF WriteInv
  <2> DEFINE w == PayloadOf(wire)
             b == PayloadOf(write_buf)
             m == pos + pending_input
  <2>2. /\ pos \in Nat /\ pending_input \in Nat /\ cap \in Nat /\ pos + pending_input <= cap
        /\ Len(b) <= pending_input /\ (write_buf = <<>> <=> pending_input = 0)
    BY <2>1 DEF WriteTypes, Buffered
  <2>3. received \in Seq(Nat) /\ w \in Seq(Nat) /\ b \in Seq(Nat)
    BY <2>1, PayloadIn DEF WriteTypes
  <2>4. Len(Bytes(0, m)) = m
    BY <2>2, BytesAre
  <2>5. received \o (w \o b) = Bytes(0, m)
    BY <2>1 DEF WriteOwed
  <2> HIDE DEF w, b, m
  <2>6. w \o b \in Seq(Nat) /\ Len(w \o b) = Len(w) + Len(b)
    BY <2>3, ConcatN
  <2>7. Len(received \o (w \o b)) = Len(received) + Len(w \o b)
    BY <2>3, <2>6, ConcatN
  <2>8. Len(received) \in Nat /\ Len(w) \in Nat /\ Len(b) \in Nat
    BY <2>3, LenProperties
  <2>9. Len(received) + (Len(w) + Len(b)) = pos + pending_input
    BY <2>4, <2>5, <2>6, <2>7 DEF m
  <2>10. pos <= Len(received) + Len(w)
    BY <2>2, <2>8, <2>9
  <2>11. pos <= cap /\ (pos = cap => pending_input = 0)
    BY <2>2
  <2> QED BY <2>2, <2>10, <2>11 DEF AcceptedIsWritten, w
<1> QED BY <1>1, WriteAlways, PTL

\* poll_write of both wrappers implements a byte stream: the server gets the bytes
\* of the relay, each once and in order, and its end only behind the last.
THEOREM WriteImplements == Spec => WriteDelivers
<1>1. Init => WriteStream!Init
  BY DEF Init, WriteInit, WriteStream!Init
<1>2. WriteInv /\ [Next]_vars => [WriteStream!Next]_(WriteStream!vars)
  <2>1. [Next]_vars => [WriteNext]_writing
    BY DEF Next, vars
  <2> QED BY <2>1, WriteStep
<1> QED BY <1>1, <1>2, WriteAlways, PTL DEF Spec, WriteDelivers, WriteStream!Spec

\* HttpObfs and TlsObfs: to the relay a wrapper is a byte stream in each direction.
THEOREM ObfsImplements == Spec => Delivers
BY ReadImplements, WriteImplements, PTL DEF Delivers

-----------------------------------------------------------------------------
(* The ClientHello, for every chunk up to TLS_CHUNK_SIZE and every host    *)
(* name its length fields have room for.                                   *)

\* No sum that build_client_hello forms wraps around.
LEMMA NoWrap ==
  ASSUME NEW d \in 0 .. TLS_CHUNK_SIZE, NEW s \in 0 .. MaxServerLen,
         NEW k \in 0 .. 212
  PROVE  /\ U16(U16(k + d) + s) = k + d + s
         /\ U16(d) = d /\ U16(s) = s /\ U16(s + 5) = s + 5 /\ U16(s + 3) = s + 3
<1>1. /\ d \in Nat /\ d <= 16384
      /\ s \in Nat /\ s <= 48939
      /\ k \in Nat /\ k <= 212
  BY DEF TLS_CHUNK_SIZE, MaxServerLen
<1>2. (k + d) % 65536 = k + d
  BY <1>1
<1>3. (k + d + s) % 65536 = k + d + s
  BY <1>1
<1>4. /\ d % 65536 = d /\ s % 65536 = s
      /\ (s + 5) % 65536 = s + 5 /\ (s + 3) % 65536 = s + 3
  BY <1>1
<1> QED
  BY <1>2, <1>3, <1>4 DEF U16

\* build_client_hello starts with an empty buffer.
LEMMA PositionInit == Init => Position
<1> SUFFICES ASSUME Init PROVE Position
  OBVIOUS
<1>1. data_len \in 0 .. TLS_CHUNK_SIZE /\ server_len \in 0 .. MaxServerLen
  <2>1. 0 \in 0 .. TLS_CHUNK_SIZE /\ 0 \in 0 .. MaxServerLen
    BY DEF TLS_CHUNK_SIZE, MaxServerLen
  <2> QED BY <2>1, LensAssumption DEF Init, HelloInit
<1>2. Empty
  BY DEF Init, HelloInit
<1> QED BY <1>1, <1>2 DEF Empty, Position

\* Writing a block moves on by its size.
LEMMA PositionStep == Position /\ [HelloNext]_hello => Position'
<1> SUFFICES ASSUME Position, [HelloNext]_hello PROVE Position'
  OBVIOUS
<1> USE DEF Goto, ends
<1>0. data_len \in 0 .. TLS_CHUNK_SIZE /\ server_len \in 0 .. MaxServerLen
  BY DEF Position
<1>a. /\ record_len = 212 + data_len + server_len
      /\ handshake_len = 208 + data_len + server_len
      /\ ext_len = 79 + data_len + server_len
  BY <1>0, NoWrap DEF record_len, handshake_len, ext_len
<1>b. /\ U16(data_len) = data_len /\ U16(server_len) = server_len
      /\ U16(server_len + 5) = server_len + 5
      /\ U16(server_len + 3) = server_len + 3
  BY <1>0, NoWrap
<1>c. data_len \in Nat /\ server_len \in Nat
  BY <1>0 DEF TLS_CHUNK_SIZE, MaxServerLen
<1>1. CASE Record
  BY <1>1, <1>a, <1>c DEF Record, Position
<1>2. CASE Handshake
  BY <1>2, <1>a, <1>c DEF Handshake, Position
<1>3. CASE Fixed
  BY <1>3, <1>a, <1>c DEF Fixed, FixedLen, Position
<1>4. CASE Ticket
  BY <1>4, <1>b, <1>c DEF Ticket, Position
<1>5. CASE ServerName
  BY <1>5, <1>b, <1>c DEF ServerName, Position
<1>6. CASE Others
  BY <1>6, <1>c DEF Others, Position
<1>7. CASE UNCHANGED hello
  BY <1>7 DEF hello, Position
<1> QED
  BY <1>1, <1>2, <1>3, <1>4, <1>5, <1>6, <1>7 DEF HelloNext

\* build_client_hello: each length field counts exactly the bytes of its block,
\* for every chunk and every host name within the u16 range.
THEOREM LengthsCorrect == Spec => []LengthsAgree
<1>1. Position => LengthsAgree
  BY DEF Position, LengthsAgree
<1>2. [Next]_vars => [HelloNext]_hello
  BY DEF Next, vars
<1> QED
  BY <1>1, <1>2, PositionInit, PositionStep, PTL DEF Spec
=============================================================================

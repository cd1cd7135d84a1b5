------------------------------ MODULE ObfsRead ------------------------------
(***************************************************************************)
(* The read side of the two simple-obfs wrappers                           *)
(* (native/sslocal-ffi/src/obfs.rs): poll_read of HttpObfs and of TlsObfs. *)
(*                                                                         *)
(* HttpObfs strips the fake HTTP header from the first response, whatever  *)
(* pieces it arrives in and however little room the caller has, and passes *)
(* the rest through.  TlsObfs is a parser of fake TLS records: the first   *)
(* response starts with a fake handshake that is skipped whole; from then  *)
(* on a record is a header, a big-endian length and the payload.           *)
(*                                                                         *)
(* A poll that returns Pending leaves no trace but the state below, and    *)
(* the caller may come back with another buffer.  So every read of the     *)
(* inner stream is one step, with the caller's room chosen afresh.         *)
(***************************************************************************)
EXTENDS ObfsBase

CONSTANTS \* HttpObfs
          Headers,      \* header blocks the peer may send, without terminator
          Bodies,       \* what the peer sends after them
          MAX_HEADER,   \* 16 KiB in the code
          TmpSize,      \* the scratch read buffer, 1024 bytes in the code
          \* TlsObfs
          Records,      \* the peer's answers: sequences of payload lengths
          FirstDiscard, \* TLS_FIRST_RESPONSE_DISCARD, 105 in the code
          HeaderDiscard,\* TLS_RECORD_HEADER_DISCARD, 3 in the code
          MaxRoom       \* bound: the caller's buffer

ASSUME ReadBounds == /\ MAX_HEADER \in Nat
                     /\ FirstDiscard \in Nat /\ HeaderDiscard \in Nat
                     /\ TmpSize \in Nat \ {0} /\ MaxRoom \in Nat \ {0}
                     /\ Records \subseteq Seq(0 .. Base * Base - 1)

VARIABLES
  net,                  \* bytes on their way from the peer; it closes after them
  payload,              \* the bytes among them that are the caller's
  \* HttpObfs
  first_response,       \* header not stripped yet
  response_scratch,     \* what has been read of the first response
  leftover,             \* body bytes of the first response the caller had no
                        \* room for (leftover_off is always at its front here)
  \* TlsObfs
  read_phase,           \* [at |-> "discard" / "length" / "payload", n |-> left]
  len_buf, len_progress,
  \* the caller
  out,                  \* bytes it has been given
  read_status           \* what it has been told: "open", "eof", "failed"

source == <<kind, half, payload>>
http == <<first_response, response_scratch, leftover>>
tls  == <<read_phase, len_buf, len_progress>>
reading == <<kind, half, net, payload, first_response, response_scratch, leftover,
             read_phase, len_buf, len_progress, out, read_status>>

-----------------------------------------------------------------------------
(* The peer (external) and the wrappers' constructors.                     *)

CRLF2 == <<"r", "n", "r", "n">>

\* A record whose header has `head` bytes, with n payload bytes, behind k bytes: a
\* payload byte is a number above every framing byte, and no two are the same.
Framed(head, k, n) == Pad(head) \o <<n \div Base, n % Base>> \o [i \in 1 .. n |-> Base + k + i]

HeadOf(i) == IF i = 1 THEN FirstDiscard ELSE HeaderDiscard

\* The records one after the other.
Response(q) ==
  LET sent[i \in 0 .. Len(q)] ==
        IF i = 0 THEN <<>>
        ELSE sent[i - 1] \o Framed(HeadOf(i), Len(sent[i - 1]), q[i])
  IN sent[Len(q)]

\* The peer may close at any byte.
HttpPeer == \E h \in Headers, b \in Bodies :
              LET sent == h \o CRLF2 \o b
              IN \E cut \in 0 .. Len(sent) :
                   /\ net = SubSeq(sent, 1, cut)
                   /\ payload = SubSeq(sent, Len(h) + 5, cut)

TlsPeer == /\ \E q \in Records : \E cut \in 0 .. Len(Response(q)) :
                net = SubSeq(Response(q), 1, cut)
           /\ payload = PayloadOf(net)

ReadInit ==
  /\ IF half = "read" THEN IF kind = "http" THEN HttpPeer ELSE TlsPeer
     ELSE net = <<>> /\ payload = <<>>
  /\ first_response = TRUE
  /\ response_scratch = <<>> /\ leftover = <<>>
  /\ read_phase = [at |-> "discard", n |-> FirstDiscard]
  /\ len_buf = <<0, 0>> /\ len_progress = 0
  /\ out = <<>> /\ read_status = "open"

-----------------------------------------------------------------------------
(* HttpObfs::poll_read.                                                    *)

\* The places where the terminator starts; the code returns the first.
find_double_crlf(s) == {i \in 1 .. Len(s) - 3 : SubSeq(s, i, i + 3) = CRLF2}

\* What the peer sends before and behind the terminator; the header block ends at
\* the first terminator there is.
Text == UNION {Range(s) : s \in Headers \cup Bodies \cup {CRLF2}}

ASSUME TextAssumption == /\ Headers \cup Bodies \subseteq Seq(Text)
                         /\ \A h \in Headers : find_double_crlf(h \o CRLF2) = {Len(h) + 1}

\* Mutant: one byte of the terminator is taken for body.
body_start_short(idx) == idx + 3

\* The first byte behind a terminator at idx.
body_start(idx) == idx + 4

\* Mutant: the header may grow without bound.
TooLong_never(s) == FALSE

TooLong(s) == Len(s) > MAX_HEADER

\* Drain what is left of the first response.
ReadLeftover(room) ==
  /\ leftover # <<>>
  /\ out' = out \o Prefix(leftover, AtMost(Len(leftover), room))
  /\ leftover' = Suffix(leftover, AtMost(Len(leftover), room))
  /\ UNCHANGED <<source, net, first_response, response_scratch, tls, read_status>>

\* Mutant: a header without a body byte behind it is reported as a read of
\* nothing, which the caller takes for the end of the stream.
AfterHeader_zero(take) == IF take = 0 THEN "eof" ELSE "open"

\* With no body byte to return, the code reads on instead of returning 0 bytes.
AfterHeader(take) == "open"

\* One more read into the scratch buffer while the header is incomplete.
ReadHeader(n, room) ==
  LET s == response_scratch \o Prefix(net, n)
      found == find_double_crlf(s)
  IN /\ leftover = <<>> /\ first_response
     /\ n <= TmpSize
     /\ net' = Suffix(net, n)
     /\ \/ /\ found # {}
           /\ LET idx == CHOOSE i \in found : \A j \in found : i <= j
                  rest == Suffix(s, body_start(idx) - 1)
                  take == AtMost(Len(rest), room)
              IN /\ out' = out \o Prefix(rest, take)
                 /\ leftover' = Suffix(rest, take)
                 /\ read_status' = AfterHeader(take)
           /\ first_response' = FALSE
           /\ response_scratch' = <<>>
        \/ /\ found = {}
           /\ response_scratch' = s
           /\ read_status' = IF TooLong(s) THEN "failed" ELSE "open"
           /\ UNCHANGED <<out, leftover, first_response>>
     /\ UNCHANGED <<source, tls>>

Passthrough(n, room) ==
  /\ leftover = <<>> /\ ~first_response
  /\ n <= room
  /\ net' = Suffix(net, n)
  /\ out' = out \o Prefix(net, n)
  /\ UNCHANGED <<source, http, tls, read_status>>

\* Mutant: an end inside the header is read over and over.
HttpEof_spinning == leftover = <<>> /\ ~first_response

\* Where the end of the inner stream is passed on.
HttpEof == leftover = <<>>

poll_read_http ==
  \/ \E room \in 1 .. MaxRoom : ReadLeftover(room)
  \/ \E room \in 1 .. MaxRoom, n \in 1 .. Len(net) :
       ReadHeader(n, room) \/ Passthrough(n, room)

-----------------------------------------------------------------------------
(* TlsObfs::poll_read: the phases.                                         *)

At(p) == read_phase.at = p

Phase(p, n) == read_phase' = [at |-> p, n |-> n]

\* Discard(0): the length field comes next.
DiscardDone ==
  /\ At("discard") /\ read_phase.n = 0
  /\ Phase("length", 0)
  /\ len_progress' = 0
  /\ UNCHANGED <<source, net, len_buf, http, out, read_status>>

Discard(n) ==
  /\ At("discard")
  /\ n <= read_phase.n
  /\ net' = Suffix(net, n)
  /\ Phase("discard", read_phase.n - n)
  /\ UNCHANGED <<source, len_buf, len_progress, http, out, read_status>>

\* Mutant: a length field that arrives in two pieces is stored from its start
\* both times.
LenSlot_first(i) == i

\* Where byte i of a read of the length field is stored.
LenSlot(i) == len_progress + i

ReadLength(n) ==
  /\ At("length")
  /\ n <= 2 - len_progress
  /\ len_buf' = [j \in 1 .. 2 |-> IF \E i \in 1 .. n : LenSlot(i) = j
                                  THEN net[CHOOSE i \in 1 .. n : LenSlot(i) = j]
                                  ELSE len_buf[j]]
  /\ len_progress' = len_progress + n
  /\ net' = Suffix(net, n)
  /\ UNCHANGED <<source, read_phase, http, out, read_status>>

LengthDone ==
  /\ At("length") /\ len_progress >= 2
  /\ Phase("payload", len_buf[1] * Base + len_buf[2])
  /\ UNCHANGED <<source, net, len_buf, len_progress, http, out, read_status>>

\* Payload(0): on to the next record's header.
RecordDone ==
  /\ At("payload") /\ read_phase.n = 0
  /\ Phase("discard", HeaderDiscard)
  /\ UNCHANGED <<source, net, len_buf, len_progress, http, out, read_status>>

\* How much of the record the caller can take now.
Space(room) == AtMost(room, read_phase.n)

ReadPayload(n, room) ==
  /\ At("payload") /\ read_phase.n > 0
  /\ n <= Space(room)
  /\ net' = Suffix(net, n)
  /\ out' = out \o Prefix(net, n)
  /\ Phase("payload", read_phase.n - n)
  /\ UNCHANGED <<source, len_buf, len_progress, http, read_status>>

\* Where the parser wants a byte, and passes on that there is none.
TlsEof == \/ At("discard") /\ read_phase.n > 0
          \/ At("length") /\ len_progress < 2
          \/ At("payload") /\ read_phase.n > 0

poll_read_tls ==
  \/ DiscardDone \/ LengthDone \/ RecordDone
  \/ \E n \in 1 .. Len(net) :
       \/ Discard(n) \/ ReadLength(n)
       \/ \E room \in 1 .. MaxRoom : ReadPayload(n, room)

-----------------------------------------------------------------------------

\* The inner stream is read from.
InnerRead == \/ kind = "http" /\ HttpEof
             \/ kind = "tls" /\ TlsEof

\* The inner stream is at its end: the caller gets a read of nothing.
ReadEof == /\ net = <<>> /\ InnerRead
           /\ read_status' = "eof"
           /\ UNCHANGED <<source, net, http, tls, out>>

\* poll_read: the inner stream yields n of the bytes it has, or its end.
poll_read == /\ half = "read" /\ read_status = "open"
             /\ \/ kind = "http" /\ poll_read_http
                \/ kind = "tls" /\ poll_read_tls
                \/ ReadEof

\* A read of the inner stream fails (external).
InnerError == /\ half = "read" /\ read_status = "open" /\ InnerRead
              /\ read_status' = "failed"
              /\ UNCHANGED <<source, net, http, tls, out>>

ReadNext == poll_read \/ InnerError

\* The relay keeps polling a stream that is open (copy_bidirectional).
ReadFairness == WF_reading(poll_read)

-----------------------------------------------------------------------------

\* HttpObfs: at any moment the body is what the caller has, then the leftover, then
\* what is still to come; before the terminator is found the caller has nothing.
HttpAccounted == IF first_response THEN out \o leftover = <<>>
                 ELSE out \o leftover \o net = payload

\* HttpObfs::poll_read, MAX_HEADER: a peer that never ends its header makes the
\* wrapper buffer one read more than the limit, no further.
ScratchBounded == Len(response_scratch) <= MAX_HEADER + TmpSize

\* TlsObfs: while the parser reads a payload, the bytes it expects are payload
\* bytes, and as many as it expects, unless the peer has closed before sending them.
TlsInStep ==
  At("payload") => LET k == AtMost(read_phase.n, Len(net))
                   IN /\ \A i \in 1 .. k : net[i] > Base
                      /\ Len(net) > read_phase.n => net[read_phase.n + 1] <= Base

\* poll_read of both wrappers, between any two reads of the inner stream: the
\* header and the leftover, or the phases of the parser, account for every byte,
\* so that the boundary of body and record is never lost.
Accounted == (kind = "http" => HttpAccounted) /\ (kind = "tls" => TlsInStep)

\* poll_read of both wrappers implements a byte stream: the caller gets the body,
\* or the payload of the records, each byte once and in order and no framing
\* byte among them, and is told of the end only when it has all of it (in
\* particular, no read of nothing while bytes are still to come).
ReadStream == INSTANCE ByteStream WITH
            input  <- SubSeq(payload, Len(out) + 1, Len(payload)),
            output <- out,
            status <- read_status
ReadDelivers == ReadStream!Spec

\* poll_read of both wrappers never spins, over empty records either: a caller
\* that keeps reading a stream whose peer has closed is told so.
ReadTerminates == half = "read" => <>(read_status # "open")
=============================================================================

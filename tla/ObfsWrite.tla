------------------------------ MODULE ObfsWrite -----------------------------
(***************************************************************************)
(* The write side of the two simple-obfs wrappers                          *)
(* (native/sslocal-ffi/src/obfs.rs): poll_write, poll_flush, poll_shutdown *)
(* and poll_drain_write_buf of HttpObfs and TlsObfs, which differ only in  *)
(* what they frame.  HTTP puts the first write behind a request header and *)
(* passes the rest through; TLS puts the first chunk into a ClientHello    *)
(* and every other into a record of its own.                               *)
(*                                                                         *)
(* poll_write may return Pending with a frame half written; the caller is  *)
(* then expected to come back with the same bytes.  The caller is tokio's  *)
(* copy_bidirectional (external), which may have read more bytes by then.  *)
(***************************************************************************)
EXTENDS ObfsBase

CONSTANTS Total,        \* bytes the relay reads from its inbound connection
          BufSize,      \* the relay's copy buffer
          ChunkSize,    \* TLS_CHUNK_SIZE, 2^14 in the code
          HeadLen,      \* bytes of the HTTP request header, and of a ClientHello
                        \* before the length of its session ticket
          TailLen,      \* bytes of a ClientHello behind the ticket
          RecordHead    \* bytes before a record's length, 3

ASSUME SizesAssumption == /\ Total \in Nat
                          /\ {HeadLen, TailLen, RecordHead, BufSize, ChunkSize} \subseteq Nat \ {0}
                          /\ ChunkSize < Base * Base

VARIABLES
  \* the relay's copy buffer, as positions in the stream of bytes 1 .. Total
  start,                \* bytes that have left it
  pos,                  \* of those in it, the ones poll_write has accepted
  cap,                  \* bytes read into it so far
  need_flush,
  \* the wrapper
  first_request, write_buf, pending_input,
  wire,                 \* what the inner stream has accepted, on its way
  server,               \* the server's parser: where it is, for how many bytes
  received,             \* payload bytes the server has got
  write_status          \* "open", "eof" once shut down, "failed"

caller == <<start, pos, cap, need_flush>>
sink == <<kind, half, server, received>>
writing == <<kind, half, start, pos, cap, need_flush, first_request, write_buf, pending_input,
             wire, server, received, write_status>>

WriteInit ==
  /\ start = 0 /\ pos = 0 /\ cap = 0 /\ need_flush = FALSE
  /\ first_request = TRUE /\ write_buf = <<>> /\ pending_input = 0
  /\ wire = <<>> /\ write_status = "open"
  /\ server = [at |-> "head", n |-> HeadLen, tail |-> TailLen]
  /\ received = <<>>

-----------------------------------------------------------------------------
(* Framing.  Byte i of the stream is Data(i), above every framing byte.    *)

Data(i) == Base + i
Bytes(i, n) == [k \in 1 .. n |-> Data(i + k)]

\* A length as u16, big-endian: what does not fit is cut off.
LenBytes(n) == <<(n \div Base) % Base, n % Base>>

build_http_request(i, n) == Pad(HeadLen) \o Bytes(i, n)

build_client_hello(i, n) == Pad(HeadLen) \o LenBytes(n) \o Bytes(i, n) \o Pad(TailLen)

build_record(i, n) == Pad(RecordHead) \o LenBytes(n) \o Bytes(i, n)

\* Mutant: a chunk may be as large as the caller's buffer.
ChunkLen_uncapped == cap - pos

\* How much of the caller's bytes goes into the next frame.
ChunkLen == IF kind = "http" THEN cap - pos ELSE AtMost(cap - pos, ChunkSize)

Frame == IF kind = "http" THEN build_http_request(pos, ChunkLen)
         ELSE IF first_request THEN build_client_hello(pos, ChunkLen)
         ELSE build_record(pos, ChunkLen)

Framing == first_request \/ kind = "tls"

-----------------------------------------------------------------------------
(* The wrapper.  Draining goes on over as many polls as the inner stream   *)
(* needs, so it is a step of its own: poll_write leaves the frame in       *)
(* write_buf, and the call that drains the last byte returns.              *)

Accepted(n) == /\ pos' = pos + n
               /\ need_flush' = TRUE

\* poll_write of fresh bytes.
poll_write ==
  /\ write_buf = <<>> /\ pos < cap
  /\ \/ /\ Framing
        /\ write_buf' = Frame
        /\ pending_input' = ChunkLen
        /\ first_request' = FALSE
        /\ UNCHANGED <<pos, need_flush, wire>>
     \/ /\ ~Framing
        /\ \E n \in 1 .. cap - pos : wire' = wire \o Bytes(pos, n) /\ Accepted(n)
        /\ UNCHANGED <<first_request, write_buf, pending_input>>
  /\ UNCHANGED <<start, cap, sink, write_status>>

\* Mutant: poll_write reports what the caller offers now, not what the frame
\* in write_buf holds.
Consumed_offered == cap - pos

\* What poll_write reports once the frame has drained.
Consumed == pending_input

\* What is left of write_buf after a write of n bytes (write_buf_off += n).
Drained(n) == Suffix(write_buf, n)

\* Mutant: after a short write that got past the frame's head, nobody goes on.
Draining_stalled == write_buf # <<>> /\ write_buf[1] = 0

Draining == write_buf # <<>>

\* poll_drain_write_buf, polled through poll_write: the inner stream takes some
\* bytes; with the last one poll_write returns.
poll_drain_write_buf ==
  /\ Draining /\ pos < cap
  /\ \E n \in 1 .. Len(write_buf) :
       /\ wire' = wire \o Prefix(write_buf, n)
       /\ write_buf' = Drained(n)
       /\ \/ /\ n = Len(write_buf)
             /\ Accepted(Consumed)
             /\ pending_input' = 0
          \/ /\ n < Len(write_buf)
             /\ UNCHANGED <<pos, need_flush, pending_input>>
  /\ UNCHANGED <<start, cap, first_request, sink, write_status>>

\* Flushing and shutting down first drain write_buf, without touching
\* pending_input.
DrainAll == wire' = wire \o write_buf /\ write_buf' = <<>>

\* The relay flushes when it has nothing left to write.
poll_flush ==
  /\ pos = cap /\ need_flush
  /\ DrainAll
  /\ need_flush' = FALSE
  /\ UNCHANGED <<start, pos, cap, first_request, pending_input, sink, write_status>>

\* It shuts the stream down when its inbound connection has ended.
poll_shutdown ==
  /\ pos = cap /\ cap = Total /\ ~need_flush
  /\ DrainAll
  /\ write_status' = "eof"
  /\ UNCHANGED <<caller, first_request, pending_input, sink>>

\* A write of the inner stream fails, or takes nothing (WriteZero).
WriteFails ==
  /\ write_status' = "failed"
  /\ UNCHANGED <<caller, first_request, write_buf, pending_input, wire, sink>>

-----------------------------------------------------------------------------
(* The relay (external: tokio's CopyBuffer).                               *)

\* It reads ahead, also while a write is pending, as far as its buffer goes;
\* an emptied buffer is used again from its start.
Fill ==
  LET s == IF pos = cap THEN cap ELSE start
  IN /\ \E n \in 1 .. AtMost(Total, s + BufSize) - cap : cap' = cap + n
     /\ start' = s
     /\ UNCHANGED <<pos, need_flush, first_request, write_buf, pending_input, wire,
                    sink, write_status>>

-----------------------------------------------------------------------------
(* The obfs server (external): it undoes the framing byte by byte.         *)

\* Where the parser goes from p.
Parser(p, at, n) == [at |-> at, n |-> n, tail |-> p.tail]

\* Behind the last payload byte of a frame.
EndOfFrame(p) == IF p.tail > 0 THEN [at |-> "tail", n |-> p.tail, tail |-> 0]
                 ELSE [at |-> "head", n |-> RecordHead, tail |-> 0]

AfterByte(p, b) ==
  CASE p.at \in {"head", "tail"} /\ p.n > 1 -> Parser(p, p.at, p.n - 1)
    [] p.at = "head" /\ p.n = 1 -> Parser(p, IF kind = "http" THEN "pass" ELSE "high", 0)
    [] p.at = "tail" /\ p.n = 1 -> EndOfFrame(p)
    [] p.at = "high" -> Parser(p, "low", b * Base)
    [] p.at = "low" -> IF p.n + b = 0 THEN EndOfFrame(p) ELSE Parser(p, "data", p.n + b)
    [] p.at = "data" -> IF p.n > 1 THEN Parser(p, "data", p.n - 1) ELSE EndOfFrame(p)
    [] p.at = "pass" -> p

Receive ==
  /\ write_status # "failed" /\ wire # <<>>
  /\ server' = AfterByte(server, Head(wire))
  /\ received' = IF server.at \in {"data", "pass"} THEN Append(received, Head(wire))
                 ELSE received
  /\ wire' = Tail(wire)
  /\ UNCHANGED <<kind, half, caller, first_request, write_buf, pending_input, write_status>>

\* The server sees the end of the stream.
ReceiveEof ==
  /\ write_status = "eof" /\ wire = <<>> /\ server.at # "closed"
  /\ server' = [server EXCEPT !.at = "closed"]
  /\ UNCHANGED <<kind, half, caller, first_request, write_buf, pending_input, wire, received,
                 write_status>>

Write == poll_write \/ poll_drain_write_buf \/ poll_flush \/ poll_shutdown

Open == half = "write" /\ write_status = "open"

WriteNext == \/ Open /\ (Fill \/ Write \/ WriteFails)
             \/ Receive \/ ReceiveEof

\* The relay reads what its peer sends and keeps polling a pending write.
WriteFairness == /\ WF_writing(Open /\ Fill)
                 /\ WF_writing(Open /\ Write)
                 /\ WF_writing(Receive \/ ReceiveEof)

-----------------------------------------------------------------------------

\* HttpObfs and TlsObfs, poll_write: the server gets the bytes of the stream,
\* each once and in order, however the inner stream splits the writes and
\* whatever the caller reads ahead meanwhile; and it has all of them when the
\* stream is shut down.
WriteStream == INSTANCE ByteStream WITH
            input  <- SubSeq(Bytes(0, Total), Len(received) + 1, Total),
            output <- received,
            status <- IF server.at = "closed" THEN "eof"
                      ELSE IF write_status = "failed" THEN "failed" ELSE "open"
WriteDelivers == WriteStream!Spec

\* poll_write reports bytes as written only when the whole frame that carries
\* them has been accepted, never more than the caller offered, and never leaves
\* a frame behind that the caller does not come back for: poll_flush and
\* poll_shutdown, which would drain it without telling, find write_buf empty.
AcceptedIsWritten == /\ pos <= Len(received) + Len(PayloadOf(wire))
                     /\ pos <= cap
                     /\ pos = cap => write_buf = <<>> /\ pending_input = 0

\* poll_write and poll_drain_write_buf: a relay that keeps polling a stream
\* whose writes succeed gets all its bytes out and the stream shut down.
WriteTerminates == half = "write" => <>(write_status = "failed" \/ server.at = "closed")
=============================================================================

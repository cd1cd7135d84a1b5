----------------------------- MODULE SimpleObfs -----------------------------
(***************************************************************************)
(* A simple-obfs wrapper (native/sslocal-ffi/src/obfs.rs): its read half,  *)
(* its write half and the ClientHello its first TLS write builds.          *)
(*                                                                         *)
(* The halves share no field, and copy_bidirectional polls them one after  *)
(* the other; so they are looked at one at a time, each against every      *)
(* behaviour of the stream below it.                                       *)
(***************************************************************************)
EXTENDS ObfsRead, ObfsWrite, ClientHello

vars == <<reading, writing, hello>>

Init == /\ kind \in Kinds /\ half \in {"read", "write", "hello"}
        /\ half = "hello" => kind = "tls"
        /\ ReadInit /\ WriteInit
        /\ IF half = "hello" THEN HelloInit ELSE data_len = 0 /\ server_len = 0 /\ Empty

Next == \/ ReadNext /\ UNCHANGED <<writing, hello>>
        \/ WriteNext /\ UNCHANGED <<reading, hello>>
        \/ half = "hello" /\ HelloNext /\ UNCHANGED <<reading, writing>>

Spec == Init /\ [][Next]_vars /\ ReadFairness /\ WriteFairness

-----------------------------------------------------------------------------

\* HttpObfs and TlsObfs, poll_read and poll_write: to the relay a wrapper is a
\* byte stream in each direction.  Every byte of the payload arrives once and in
\* order and no framing byte with it, and the end is told when all have arrived.
Delivers == ReadDelivers /\ WriteDelivers

\* poll_read, poll_write, poll_drain_write_buf: neither direction stalls or
\* spins.  A caller that keeps reading is told of the end, and one whose writes
\* succeed gets its bytes out and the stream shut down.
Terminates == ReadTerminates /\ WriteTerminates
=============================================================================

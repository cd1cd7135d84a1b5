----------------------------- MODULE ClientHello ----------------------------
(***************************************************************************)
(* build_client_hello (native/sslocal-ffi/src/obfs.rs): the fake           *)
(* ClientHello is written front to back, and each length field is computed *)
(* in u16 arithmetic before the bytes it counts are written.  The model    *)
(* keeps the position in the buffer and, for every length field, the       *)
(* position at which it claims its block ends.                             *)
(***************************************************************************)
EXTENDS Integers

CONSTANTS DataLens,     \* sizes of the first chunk, at most TLS_CHUNK_SIZE
          ServerLens    \* sizes of the host name

TLS_CHUNK_SIZE == 16384

\* Lengths are u16: a host name this long is the longest the fields can count
\* next to a full chunk.
MaxServerLen == 65535 - 212 - TLS_CHUNK_SIZE

ASSUME LensAssumption == /\ DataLens \subseteq 0 .. TLS_CHUNK_SIZE
                         /\ ServerLens \subseteq 0 .. MaxServerLen

VARIABLES data_len, server_len,
          at,           \* buf.len()
          step,         \* the next block to write
          recordEnd, handshakeEnd, extEnd, ticketEnd, sniEnd, listEnd, nameEnd

ends == <<recordEnd, handshakeEnd, extEnd, ticketEnd, sniEnd, listEnd, nameEnd>>
hello == <<data_len, server_len, at, step, ends>>

U16(n) == n % 65536

Empty == /\ at = 0 /\ step = "record"
         /\ recordEnd = 0 /\ handshakeEnd = 0 /\ extEnd = 0 /\ ticketEnd = 0
         /\ sniEnd = 0 /\ listEnd = 0 /\ nameEnd = 0

HelloInit == data_len \in DataLens /\ server_len \in ServerLens /\ Empty

Goto(s) == step' = s /\ UNCHANGED <<data_len, server_len>>

record_len == U16(U16(212 + data_len) + server_len)

\* Record header: type, version, length.
Record == /\ step = "record"
          /\ at' = at + 5
          /\ recordEnd' = at' + record_len
          /\ Goto("handshake")
          /\ UNCHANGED <<handshakeEnd, extEnd, ticketEnd, sniEnd, listEnd, nameEnd>>

handshake_len == U16(U16(208 + data_len) + server_len)

\* Handshake header: type and the 24-bit length, whose top byte is 0.
Handshake == /\ step = "handshake"
             /\ at' = at + 4
             /\ handshakeEnd' = at' + handshake_len
             /\ Goto("fixed")
             /\ UNCHANGED <<recordEnd, extEnd, ticketEnd, sniEnd, listEnd, nameEnd>>

\* Mutant: the length of the cipher suites is forgotten.
FixedLen_short == 2 + (4 + 28) + (1 + 32) + 56 + 2

\* Version, time and random, session id, cipher suites, compression methods.
FixedLen == 2 + (4 + 28) + (1 + 32) + (2 + 56) + 2

ext_len == U16(U16(79 + data_len) + server_len)

Fixed == /\ step = "fixed"
         /\ at' = at + FixedLen + 2
         /\ extEnd' = at' + ext_len
         /\ Goto("ticket")
         /\ UNCHANGED <<recordEnd, handshakeEnd, ticketEnd, sniEnd, listEnd, nameEnd>>

\* The session ticket carries the payload.
Ticket == /\ step = "ticket"
          /\ at' = at + 4 + data_len
          /\ ticketEnd' = at + 4 + U16(data_len)
          /\ Goto("sni")
          /\ UNCHANGED <<recordEnd, handshakeEnd, extEnd, sniEnd, listEnd, nameEnd>>

\* server_name: the extension, the list in it and the name in the list.
ServerName == /\ step = "sni"
              /\ at' = at + 9 + server_len
              /\ sniEnd' = at + 4 + U16(server_len + 5)
              /\ listEnd' = at + 6 + U16(server_len + 3)
              /\ nameEnd' = at + 9 + U16(server_len)
              /\ Goto("rest")
              /\ UNCHANGED <<recordEnd, handshakeEnd, extEnd, ticketEnd>>

\* ec_point_formats, supported_groups, signature_algorithms,
\* encrypt_then_mac, extended_master_secret.
Others == /\ step = "rest"
          /\ at' = at + 8 + 14 + 36 + 4 + 4
          /\ Goto("done")
          /\ UNCHANGED ends

HelloNext == Record \/ Handshake \/ Fixed \/ Ticket \/ ServerName \/ Others

-----------------------------------------------------------------------------

\* build_client_hello: every length field counts the bytes of its block, none
\* short and none beyond, up to the largest chunk and host name: the ticket ends
\* where the server name begins, the name's three lengths agree, and record,
\* handshake and extensions end with the last byte written.
LengthsAgree ==
  /\ step = "sni" => ticketEnd = at
  /\ step = "rest" => sniEnd = at /\ listEnd = at /\ nameEnd = at
  /\ step = "done" => recordEnd = at /\ handshakeEnd = at /\ extEnd = at

-----------------------------------------------------------------------------
(* The inductive invariant of the proof: the position in terms of the two  *)
(* lengths.                                                                *)

\* Where each block starts, and what has been claimed by then.
Position ==
  /\ data_len \in 0 .. TLS_CHUNK_SIZE
  /\ server_len \in 0 .. MaxServerLen
  /\ at = CASE step = "record" -> 0
            [] step = "handshake" -> 5
            [] step = "fixed" -> 9
            [] step = "ticket" -> 138
            [] step = "sni" -> 142 + data_len
            [] step = "rest" -> 151 + data_len + server_len
            [] step = "done" -> 217 + data_len + server_len
  /\ step \in {"record", "handshake", "fixed", "ticket", "sni", "rest", "done"}
  /\ step # "record" => recordEnd = 217 + data_len + server_len
  /\ step \notin {"record", "handshake"} => handshakeEnd = 217 + data_len + server_len
  /\ step \notin {"record", "handshake", "fixed"} => extEnd = 217 + data_len + server_len
  /\ step = "sni" => ticketEnd = at
  /\ step = "rest" => sniEnd = at /\ listEnd = at /\ nameEnd = at
=============================================================================

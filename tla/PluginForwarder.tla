--------------------------- MODULE PluginForwarder --------------------------
(***************************************************************************)
(* The loopback forwarder of a SIP003 plugin                               *)
(* (native/sslocal-ffi/src/plugin.rs and v2ray_plugin.rs): the options of  *)
(* the plugin are parsed, then an accept loop takes the core's connections *)
(* one after the other and a task per connection dials the server, layer   *)
(* by layer, and relays.  Loop and tasks share a runtime and a limited     *)
(* number of descriptors.                                                  *)
(*                                                                         *)
(* An option is [key, value]; the value is Bare where there is no "=".     *)
(* The options path, header and mux, which are handed on as they are or    *)
(* not used, are among the keys the parsers skip.                          *)
(***************************************************************************)
EXTENDS Integers, SequencesExt

CONSTANTS Strings,      \* Rust's String
          Lower,        \* to_ascii_lowercase, as a function on Strings
          Requests,     \* [name, opts]: plugin names and their option strings
          Conns,        \* connections the core makes
          MaxFds,       \* descriptors there are for them
          MaxHiccups,   \* bound on accept errors that have no lasting cause
          Server,       \* server_host
          Bare,         \* the value of an option without "="
          NoPlugin      \* the value of a refused plugin specification

ASSUME FdsAssumption == MaxFds \in Nat \ {0} /\ MaxHiccups \in Nat

\* The literals of the model are strings, and so are keys, values and hosts.
ASSUME StringsAssumption ==
  {"", "1", "true", "yes", "on", "websocket", "ws", "http", "tls", "tcp", "SimpleObfsHttp",
   "SimpleObfsTls", Server} \subseteq Strings

\* The literals that option values are compared with have no capitals.
ASSUME LowerAssumption ==
  /\ Lower \in [Strings -> Strings]
  /\ \A s \in {"", "1", "true", "yes", "on", "websocket", "ws"} : Lower[s] = s

ASSUME RequestsAssumption ==
  \A r \in Requests : r.opts \in Seq([key : Strings, value : Strings \cup {Bare}])

\* What a plugin can be; NoPlugin stands for the error, which is none of them.
PluginKind == [kind : {"SimpleObfsHttp", "SimpleObfsTls"}, host : Strings] \cup
              [kind : {"V2ray"}, tls : BOOLEAN, host : Strings, skip_cert_verify : BOOLEAN]

\* A layer of a stream: its kind, the host it names, whether certificates count.
Layer == Seq(Strings) \cup (Strings \X Strings \X BOOLEAN)

ASSUME NoPluginAssumption ==
  /\ NoPlugin \notin Strings \cup PluginKind
  /\ NoPlugin \notin Seq(Layer)

VARIABLES
  request,      \* the server entry's plugin and plugin_opts
  kind,         \* PluginKind, once parsed
  loop,         \* the accept loop
  backlog,      \* connections the listener has not handed out
  task,         \* per connection: "none", "dial", "relay"
  out,          \* tasks that have a socket to the server
  awaited,      \* per task: how many of wrap_stream's awaits are over
  ways,         \* per relay: the directions that are still open
  broken,       \* the listening socket itself is gone
  hiccups,
  failures      \* history: failed accept calls since the loop last slept

tasks == <<task, out, awaited, ways>>
vars == <<request, kind, loop, backlog, tasks, broken, hiccups, failures>>

-----------------------------------------------------------------------------
(* Options.                                                                *)

SimpleObfs == {"obfs-local", "simple-obfs", "obfs"}

\* One round of the loop; a bare key has an empty value.
obfs_option(acc, o) ==
  LET v == IF o.value = Bare THEN "" ELSE o.value
  IN CASE o.key = "obfs" -> [acc EXCEPT !.mode = v]
       [] o.key = "obfs-host" -> [acc EXCEPT !.host = v]
       [] OTHER -> acc

parse_simple_obfs_opts(opts) ==
  LET after[k \in 0 .. Len(opts)] == IF k = 0 THEN [mode |-> NoPlugin, host |-> ""]
                                     ELSE obfs_option(after[k - 1], opts[k])
      parsed == after[Len(opts)]
  IN CASE parsed.mode = "http" -> [kind |-> "SimpleObfsHttp", host |-> parsed.host]
       [] parsed.mode = "tls" -> [kind |-> "SimpleObfsTls", host |-> parsed.host]
       [] OTHER -> NoPlugin

\* Mutant: only lower case is understood.
parse_bool_exact(s) == s \in {"1", "true", "yes", "on"}

parse_bool(s) == Lower[s] \in {"1", "true", "yes", "on"}

V2rayDefault == [kind |-> "V2ray", tls |-> FALSE, host |-> "", skip_cert_verify |-> FALSE]

\* A bare key has the value "true", as a host too; one unsupported mode is enough.
v2ray_option(cfg, o) ==
  LET value == IF o.value = Bare THEN "true" ELSE o.value
  IN IF cfg = NoPlugin THEN NoPlugin
     ELSE CASE o.key = "mode" -> IF Lower[value] \in {"websocket", "ws"} THEN cfg ELSE NoPlugin
            [] o.key = "tls" -> [cfg EXCEPT !.tls = parse_bool(value)]
            [] o.key = "host" -> [cfg EXCEPT !.host = value]
            [] o.key = "skip-cert-verify" -> [cfg EXCEPT !.skip_cert_verify = parse_bool(value)]
            [] OTHER -> cfg

parse_opts(opts) ==
  LET after[k \in 0 .. Len(opts)] == IF k = 0 THEN V2rayDefault
                                     ELSE v2ray_option(after[k - 1], opts[k])
  IN after[Len(opts)]

parse_plugin(name, opts) ==
  CASE name \in SimpleObfs -> parse_simple_obfs_opts(opts)
    [] name = "v2ray-plugin" -> parse_opts(opts)
    [] OTHER -> NoPlugin

-----------------------------------------------------------------------------
(* Dialing: what each await of wrap_stream adds to the stream.             *)

HostOf(k) == IF k.host = "" THEN Server ELSE k.host

\* TCP, then TLS if it is asked for, then the WebSocket upgrade.
dial(cfg) ==
  << << <<"tcp">> >> >>
    \o (IF cfg.tls THEN << << <<"tls", HostOf(cfg), ~cfg.skip_cert_verify>> >> >> ELSE <<>>)
    \o << << <<"ws", HostOf(cfg)>> >> >>

\* The obfs wrappers are put around the TCP stream without waiting.
wrap_stream(k) == IF k.kind = "V2ray" THEN dial(k)
                  ELSE << << <<"tcp">>, <<k.kind, HostOf(k)>> >> >>

\* The layers of a connection's stream to the server, the lowest first.
Layers(c) == FlattenSeq(SubSeq(wrap_stream(kind), 1, awaited[c]))

-----------------------------------------------------------------------------

Init ==
  /\ request \in Requests
  /\ kind = parse_plugin(request.name, request.opts)
  /\ loop = IF kind = NoPlugin THEN "refused" ELSE "accept"
  /\ backlog = <<>>
  /\ task = [c \in Conns |-> "none"] /\ out = {}
  /\ awaited = [c \in Conns |-> 0] /\ ways = [c \in Conns |-> {}]
  /\ broken = FALSE /\ hiccups = 0 /\ failures = 0

Active == {c \in Conns : task[c] # "none"}

\* An inbound socket per task, and an outbound one once it has dialed.
FdsUsed == Cardinality(Active) + Cardinality(out)
FdFree == FdsUsed < MaxFds

\* The core connects to the forwarder.
Arrive(c) ==
  /\ loop \in {"accept", "backoff"} /\ ~broken
  /\ task[c] = "none" /\ c \notin Range(backlog)
  /\ backlog' = Append(backlog, c)
  /\ UNCHANGED <<request, kind, loop, tasks, broken, hiccups, failures>>

\* Something happens to the listening socket, a suspended device say.
ListenerBreaks ==
  /\ loop \in {"accept", "backoff"} /\ ~broken
  /\ broken' = TRUE
  /\ UNCHANGED <<request, kind, loop, backlog, tasks, hiccups, failures>>

\* Mutant: the next connection is accepted when the last one has been dialed.
Accepting_serial == loop = "accept" /\ \A c \in Conns : task[c] # "dial"

Accepting == loop = "accept"

\* accept returns a connection, and a task is spawned for it.
Accept ==
  /\ Accepting /\ ~broken /\ backlog # <<>> /\ FdFree
  /\ backlog' = Tail(backlog)
  /\ task' = [task EXCEPT ![Head(backlog)] = "dial"]
  /\ awaited' = [awaited EXCEPT ![Head(backlog)] = 0]
  /\ UNCHANGED <<request, kind, loop, out, ways, broken, hiccups, failures>>

\* The errors of accept, by cause: the pending connection is gone, no descriptor
\* is left, a passing shortage or a wakeup for nothing, the listener is gone.
PeerErrors == {"ConnectionAborted", "ConnectionReset"}
FdErrors == {"EMFILE", "ENFILE"}
PassingErrors == {"ENOBUFS", "ENOMEM", "Interrupted", "WouldBlock", "TimedOut"}
ListenerErrors == {"EBADF", "InvalidInput"}

\* Mutant: running out of descriptors ends the loop.
is_transient_accept_error_kinds(e) ==
  e \in {"ConnectionAborted", "ConnectionReset", "Interrupted", "WouldBlock", "TimedOut"}

\* Mutant: every error is retried.
is_transient_accept_error_all(e) == TRUE

is_transient_accept_error(e) ==
  e \in {"ConnectionAborted", "ConnectionReset", "Interrupted", "WouldBlock", "TimedOut",
         "EMFILE", "ENFILE", "ENOBUFS", "ENOMEM"}

Occurs(e) ==
  CASE e \in ListenerErrors -> broken
    [] e \in PeerErrors -> ~broken /\ backlog # <<>>
    [] e \in FdErrors -> ~broken /\ backlog # <<>> /\ ~FdFree
    [] e \in PassingErrors -> ~broken /\ backlog # <<>> /\ hiccups < MaxHiccups

Retry == loop' = "backoff"

\* accept fails.  A loop that gives up drops the listener, and with it the backlog.
AcceptFails(e) ==
  /\ Accepting /\ Occurs(e)
  /\ failures' = failures + 1
  /\ hiccups' = IF e \in PassingErrors THEN hiccups + 1 ELSE hiccups
  /\ IF is_transient_accept_error(e)
     THEN Retry /\ backlog' = IF e \in PeerErrors THEN Tail(backlog) ELSE backlog
     ELSE loop' = "over" /\ backlog' = <<>>
  /\ UNCHANGED <<request, kind, tasks, broken>>

\* ACCEPT_RETRY_DELAY is over.
BackoffOver ==
  /\ loop = "backoff" /\ loop' = "accept" /\ failures' = 0
  /\ UNCHANGED <<request, kind, backlog, tasks, broken, hiccups>>

-----------------------------------------------------------------------------
(* A connection's task.                                                    *)

\* The task ends and drops both sockets.
End(c) ==
  /\ task' = [task EXCEPT ![c] = "none"] /\ out' = out \ {c}
  /\ ways' = [ways EXCEPT ![c] = {}] /\ awaited' = [awaited EXCEPT ![c] = 0]
  /\ UNCHANGED <<request, kind, loop, backlog, broken, hiccups, failures>>

\* TcpStream::connect makes a socket.
OpenSocket(c) ==
  /\ task[c] = "dial" /\ c \notin out /\ FdFree
  /\ out' = out \cup {c}
  /\ UNCHANGED <<request, kind, loop, backlog, task, awaited, ways, broken, hiccups, failures>>

\* Mutant: a task without a descriptor waits for one.
NoSocket_waiting(c) == FALSE

\* There is no descriptor for it: the inbound connection is dropped.
NoSocket(c) == task[c] = "dial" /\ c \notin out /\ ~FdFree /\ End(c)

\* Mutant: the relay starts with the TCP connection.
Wrapped_early(c, n) == n >= 1

Wrapped(c, n) == n = Len(wrap_stream(kind))

\* An await of wrap_stream is over; after the last one copy_bidirectional starts.
Dialed(c) ==
  /\ task[c] = "dial" /\ c \in out
  /\ awaited' = [awaited EXCEPT ![c] = @ + 1]
  /\ IF Wrapped(c, awaited[c] + 1)
     THEN task' = [task EXCEPT ![c] = "relay"] /\ ways' = [ways EXCEPT ![c] = {"up", "down"}]
     ELSE UNCHANGED <<task, ways>>
  /\ UNCHANGED <<request, kind, loop, backlog, out, broken, hiccups, failures>>

\* Connecting or a handshake fails, or copy_bidirectional returns an error.
TaskFails(c) == c \in out /\ End(c)

\* One side closes; its end is passed on and the other direction goes on.
WayEnds(c, w) ==
  /\ task[c] = "relay" /\ w \in ways[c]
  /\ IF ways[c] = {w} THEN End(c)
     ELSE /\ ways' = [ways EXCEPT ![c] = @ \ {w}]
          /\ UNCHANGED <<request, kind, loop, backlog, task, out, awaited, broken, hiccups,
                         failures>>

\* The runtime of the instance is shut down.
RuntimeDropped ==
  /\ loop \in {"accept", "backoff", "over"}
  /\ loop' = "dropped" /\ backlog' = <<>>
  /\ task' = [c \in Conns |-> "none"] /\ out' = {}
  /\ awaited' = [c \in Conns |-> 0] /\ ways' = [c \in Conns |-> {}]
  /\ UNCHANGED <<request, kind, broken, hiccups, failures>>

-----------------------------------------------------------------------------

AcceptErrors == PeerErrors \cup FdErrors \cup PassingErrors \cup ListenerErrors
AcceptLoop == Accept \/ \E e \in AcceptErrors : AcceptFails(e)

Next ==
  \/ AcceptLoop \/ BackoffOver \/ ListenerBreaks \/ RuntimeDropped
  \/ \E c \in Conns : \/ Arrive(c) \/ OpenSocket(c) \/ NoSocket(c) \/ Dialed(c) \/ TaskFails(c)
                      \/ \E w \in {"up", "down"} : WayEnds(c, w)

\* tokio polls every task that is ready and fires its timers.  What depends on the
\* server or on the core's end of a connection may never happen.
Spec == /\ Init /\ [][Next]_vars
        /\ WF_vars(AcceptLoop) /\ WF_vars(BackoffOver)
        /\ \A c \in Conns : WF_vars(OpenSocket(c) \/ NoSocket(c))

-----------------------------------------------------------------------------

\* What the options ask for, read off the option string: of a repeated key the
\* last value counts, but one unsupported mode of v2ray-plugin spoils them all.
Given(key) == {i \in DOMAIN request.opts : request.opts[i].key = key}
ValueAt(i, bare) == IF request.opts[i].value = Bare THEN bare ELSE request.opts[i].value
LastOf(key, bare, default) ==
  IF Given(key) = {} THEN default
  ELSE ValueAt(CHOOSE i \in Given(key) : \A j \in Given(key) : j <= i, bare)

\* A value says a word in whatever mixture of capitals and small letters.
Says(value, words) == \E word \in words : Lower[value] = Lower[word]
Truthy(value) == Says(value, {"1", "true", "yes", "on"})
Named(host) == IF host = "" THEN Server ELSE host

Asked ==
  CASE request.name \in SimpleObfs ->
         LET mode == LastOf("obfs", "", "")
             host == Named(LastOf("obfs-host", "", ""))
         IN CASE mode = "http" -> << <<"tcp">>, <<"SimpleObfsHttp", host>> >>
              [] mode = "tls" -> << <<"tcp">>, <<"SimpleObfsTls", host>> >>
              [] OTHER -> NoPlugin
    [] request.name = "v2ray-plugin" ->
         LET host == Named(LastOf("host", "true", ""))
             verify == ~Truthy(LastOf("skip-cert-verify", "true", ""))
         IN IF \E i \in Given("mode") : ~Says(ValueAt(i, "true"), {"websocket", "ws"})
            THEN NoPlugin
            ELSE IF Truthy(LastOf("tls", "true", ""))
            THEN << <<"tcp">>, <<"tls", host, verify>>, <<"ws", host>> >>
            ELSE << <<"tcp">>, <<"ws", host>> >>
    [] OTHER -> NoPlugin

\* start_forwarder: the states of the loop and of its tasks; the loop runs just
\* for a plugin that was accepted, and only a task has a socket to the server.
TypeOK ==
  /\ request \in Requests
  /\ loop \in {"refused", "accept", "backoff", "over", "dropped"}
  /\ (loop = "refused") = (kind = NoPlugin)
  /\ backlog \in Seq(Conns)
  /\ task \in [Conns -> {"none", "dial", "relay"}]
  /\ out \subseteq Active
  /\ awaited \in [Conns -> Nat]
  /\ ways \in [Conns -> SUBSET {"up", "down"}]
  /\ broken \in BOOLEAN /\ hiccups \in 0 .. MaxHiccups

\* start_forwarder and wrap_stream: no byte of a connection is relayed before
\* its stream has exactly the layers, and names exactly the host, that the entry's
\* options ask for: never plain TCP, never WebSocket without the TLS asked for.
RelayedAsAsked ==
  /\ loop # "refused" => Asked # NoPlugin
  /\ \A c \in Conns : task[c] = "relay" => Layers(c) = Asked

\* start_forwarder, the two arms of a failed accept: the loop gives up only when
\* the listening socket itself is gone, however often connections vanish and
\* however long descriptors and buffers are short.
ListenerKept == loop = "over" => broken

\* ACCEPT_RETRY_DELAY: a shortage cannot turn the accept loop into a busy loop,
\* the loop sleeps before it tries again.
NoBusyLoop == failures <= 1

\* start_forwarder: a connection in the backlog is taken, whatever the tasks
\* before it do: one that hangs in a handshake keeps nobody waiting but for the
\* descriptors it holds.
PendingTaken ==
  \A c \in Conns :
    c \in Range(backlog) ~> (c \notin Range(backlog) \/ broken \/ ~FdFree)

\* is_transient_accept_error: a listener that is gone is not retried for ever.
GivesUp == broken ~> loop \in {"over", "dropped"}

\* wrap_stream: accepted connections can take all descriptors, so that none of
\* them can dial; they are dropped and the descriptors come back.
Unjams == (~FdFree /\ out = {}) ~> FdFree
=============================================================================

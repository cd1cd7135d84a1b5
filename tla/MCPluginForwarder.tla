------------------------- MODULE MCPluginForwarder --------------------------
(* Option strings with repeated, bare, unknown and missing keys and values *)
(* in capitals; three connections for three descriptors: the inbound ones  *)
(* alone can use them up, as can one relay and one that is still dialing.  *)
EXTENDS PluginForwarder

Opt(k, v) == [key |-> k, value |-> v]
Ask(name, opts) == [name |-> name, opts |-> opts]

SomeRequests ==
  {Ask("obfs-local", <<Opt("obfs", "quic"), Opt("obfs-host", "a"), Opt("obfs", "http")>>),
   Ask("obfs", <<Opt("obfs", "tls"), Opt("fast-open", Bare), Opt("obfs-host", Bare)>>),
   Ask("simple-obfs", <<Opt("obfs", "http"), Opt("obfs", Bare)>>),
   Ask("simple-obfs", <<Opt("obfs-host", "a")>>),
   Ask("kcptun", <<>>),
   Ask("v2ray-plugin", <<>>),
   Ask("v2ray-plugin", <<Opt("tls", Bare), Opt("host", "a"), Opt("skip-cert-verify", "0"),
                         Opt("mode", "ws")>>),
   Ask("v2ray-plugin", <<Opt("tls", "1"), Opt("tls", "off"), Opt("mux", "1")>>),
   Ask("v2ray-plugin", <<Opt("tls", "yes"), Opt("skip-cert-verify", "On")>>),
   Ask("v2ray-plugin", <<Opt("mode", "WebSocket"), Opt("tls", "TRUE"), Opt("host", "A")>>),
   Ask("v2ray-plugin", <<Opt("mode", "quic"), Opt("mode", "websocket")>>),
   Ask("v2ray-plugin", <<Opt("mode", Bare), Opt("host", Bare)>>),
   Ask("obfs-local", <<Opt("obfs", "HTTP")>>)}

\* The strings of these requests and of the model.
Words == {"", "1", "true", "yes", "on", "websocket", "ws", "http", "tls", "tcp",
          "SimpleObfsHttp", "SimpleObfsTls", "server",
          "quic", "0", "off", "a", "A", "On", "TRUE", "WebSocket", "HTTP",
          "obfs", "obfs-host", "fast-open", "mode", "host", "skip-cert-verify", "mux"}

InSmall == ("A" :> "a") @@ ("On" :> "on") @@ ("TRUE" :> "true") @@ ("HTTP" :> "http")
             @@ ("WebSocket" :> "websocket") @@ [s \in Words |-> s]
=============================================================================

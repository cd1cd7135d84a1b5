----------------------------- MODULE MCSslocal ------------------------------
(* Instances of Sslocal for TLC. *)
EXTENDS SslocalProps, TLC

Json(servers, schema, locals_) ==
  [arg |-> "json", servers |-> servers, schema |-> schema, locals |-> locals_]

Unreadable(a) == [arg |-> a, servers |-> <<>>, schema |-> FALSE, locals |-> <<>>]

\* Plugins: two of them, one next to a plain server, and one in a config that
\* the core rejects.
PluginConfigs == {Json(<<"plugin", "plugin">>, TRUE, <<"socks">>),
                  Json(<<"plain", "plugin">>, TRUE, <<"socks">>),
                  Json(<<"plugin">>, FALSE, <<"socks">>)}

\* Tun: a usable config, one without a local for the descriptor, one with an
\* unusable plugin, and arguments that never parse.
TunConfigs == {Json(<<"plain">>, TRUE, <<"socks", "tun">>),
               Json(<<"plain">>, TRUE, <<"socks", "socks">>),
               Json(<<"badplugin">>, TRUE, <<"tun">>),
               Unreadable("null"), Unreadable("syntax")}

\* One plugin, in a config the core accepts and in one it rejects.
LiveConfigs == {Json(<<"plugin">>, TRUE, <<"socks">>),
                Json(<<"plugin">>, FALSE, <<"socks">>)}

OneTunConfig == {Json(<<>>, TRUE, <<"socks">>)}

Symmetry == Permutations(Threads) \cup Permutations(Runtimes)
              \cup Permutations(Fds) \cup Permutations(Ports)
=============================================================================

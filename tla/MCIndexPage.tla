----------------------------- MODULE MCIndexPage -----------------------------
(* Two sessions, so that one finds what another has left; two ports, the   *)
(* first of which may be taken; two connections that overlap; two clicks   *)
(* that overlap and a third that stops what they have started.             *)
EXTENDS IndexPage

SomeProfiles == {[host |-> TRUE, route |-> "bypass-lan"], [host |-> TRUE, route |-> "all"],
                 [host |-> FALSE, route |-> "all"]}

Ports == <<65080, 65081>>
=============================================================================

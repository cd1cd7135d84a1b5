---------------------------- MODULE SslocalProps ----------------------------
(***************************************************************************)
(* What the sslocal lifecycle of module Sslocal is required to do, the     *)
(* inductive invariant its proofs use, and two statements of the code's    *)
(* comments that the code does not live up to.                             *)
(***************************************************************************)
EXTENDS Sslocal

Entry == [plugin : {"plain", "plugin", "badplugin"}, server : Ports \cup {Remote}]

\* The type of every variable.
TypeOK ==
  /\ lock \in Threads \cup {NoThread}
  /\ instance \in Runtimes \cup {NoRuntime}
  /\ lastError \in Codes \cup {"NONE", "CORE"}
  /\ statAddr \in Addrs \cup {NoAddr}
  /\ pc \in [Threads -> {"idle", "lock", "forward", "prepare", "launch"}]
  /\ call \in [Threads -> [cfg : Configs \cup {NoConfig}, fd : Fds \cup {NoFd}]]
  /\ ret \in [Threads -> Codes \cup {"PENDING", "0", "1"}]
  /\ draft \in Runtimes \cup {NoRuntime}
  /\ todo \subseteq Nat
  /\ rt \in [Runtimes -> {"free", "owned", "closing"}]
  /\ conf \in [Runtimes -> Configs \cup {NoConfig}]
  /\ entry \in [Runtimes -> Seq(Entry)]
  /\ stat \in [Runtimes -> Addrs \cup {NoAddr}]
  /\ coreFd \in [Runtimes -> Fds \cup {NoFd}]
  /\ core \in [Runtimes -> {"none", "spawned", "running", "exited"}]
  /\ listener \in [Ports -> (Runtimes \X Nat) \cup {NoSite}]
  /\ gaveUp \subseteq Runtimes \X Nat
  /\ fdTable \in [Fds -> {"closed", "tun", "other"}]
  /\ vpnFd \in Fds \cup {NoFd}
  /\ otherFds \subseteq Fds

\* sslocal_start_tun_fd, the dup: however the caller's destroy(), the
\* background teardown of a stopped runtime and other code's open and close
\* interleave, nobody's descriptor is closed under it: the VPN connection's is
\* still its tun device, every other is still the object it was opened as, and
\* a running core's is open.
NoStrayClose ==
  /\ vpnFd # NoFd => fdTable[vpnFd] = "tun"
  /\ \A f \in otherFds : fdTable[f] = "other"
  /\ \A r \in Runtimes : core[r] = "running" /\ coreFd[r] # NoFd
                          => fdTable[coreFd[r]] # "closed"

\* start_with_json: once no start is under way, the only runtime that is not
\* shutting down is the one in INSTANCE; a start that failed half way left no
\* runtime, forwarder or core behind, and what a torn-down runtime served is gone.
NoOrphans ==
  /\ lock = NoThread => \A r \in Runtimes : rt[r] = "owned" <=> r = instance
  /\ \A p \in Ports : listener[p] # NoSite => rt[listener[p][1]] # "free"
  /\ \A r \in Runtimes : core[r] # "none" => rt[r] # "free"

\* apply_plugin_forwarders: the core of the instance never sees a plugin
\* field, connects to a plain server directly, and reaches a plugin-bearing one
\* through that entry's own forwarder, which listens for as long as the
\* instance is there unless its accept loop gave up.
PluginsServed ==
  instance # NoRuntime =>
    \A i \in DOMAIN conf[instance].servers :
      LET e == entry[instance][i]
      IN /\ e.plugin = "plain"
         /\ IF conf[instance].servers[i] = "plain" THEN e.server = Remote
            ELSE \/ <<instance, i>> \in gaveUp
                 \/ e.server \in Ports /\ listener[e.server] = <<instance, i>>

\* The C ABI behaves like the switch of SslocalAbs.
Abs == INSTANCE SslocalAbs WITH on <- instance # NoRuntime
ABI == Abs!Spec

\* start_with_json: a start that has taken the INSTANCE mutex gives it back,
\* so stop and is_running never wait forever.
LockReleased == \A t \in Threads : lock = t ~> lock = NoThread

-----------------------------------------------------------------------------
(* The inductive invariant behind NoStrayClose, NoOrphans and ABI.         *)

\* Who is where in a start: the thread past the lock holds it, its runtime is
\* the draft, and INSTANCE is empty meanwhile.
LockInv ==
  /\ \A t \in Threads :
       /\ pc[t] \in {"forward", "prepare", "launch"} <=> lock = t
       /\ pc[t] = "idle" <=> ret[t] # "PENDING"
       /\ pc[t] # "idle" => call[t].cfg \in Configs
       /\ pc[t] \in {"prepare", "launch"} => todo = {}
  /\ lock = NoThread <=> draft = NoRuntime
  /\ lock # NoThread => /\ instance = NoRuntime
                        /\ conf[draft] = call[lock].cfg
  /\ draft = NoRuntime => todo = {}

\* Every runtime in use is in INSTANCE, being built, or shutting down, and
\* only a runtime in use carries tasks and a descriptor.
RuntimeInv ==
  /\ \A r \in Runtimes :
       /\ rt[r] = "owned" <=> (r = instance \/ r = draft)
       /\ core[r] # "none" => rt[r] # "free" /\ r # draft
       /\ core[r] \in {"none", "exited"} /\ coreFd[r] # NoFd
            => r = draft /\ lock # NoThread /\ pc[lock] = "launch"
  /\ \A p \in Ports : listener[p] # NoSite => rt[listener[p][1]] # "free"

\* Descriptors have one owner each, and an owned descriptor is open.
FdInv ==
  /\ vpnFd # NoFd => fdTable[vpnFd] = "tun" /\ vpnFd \notin otherFds
  /\ \A f \in otherFds : fdTable[f] = "other"
  /\ \A r \in Runtimes : coreFd[r] # NoFd =>
       /\ fdTable[coreFd[r]] # "closed"
       /\ coreFd[r] # vpnFd /\ coreFd[r] \notin otherFds
       /\ \A q \in Runtimes \ {r} : coreFd[q] # coreFd[r]

\* The parts together: what every step of the library, of its background
\* teardown and of the rest of the process preserves.
IndInv == TypeOK /\ LockInv /\ RuntimeInv /\ FdInv

-----------------------------------------------------------------------------
(* What comments of the code say and the code does not do.                 *)

\* lib.rs, sslocal_is_running: "Returns 1 while an instance is running, 0
\* otherwise."  The answer is 1 exactly when there is a core that has not exited.
IsRunningTruthful ==
  [][\A t \in Threads : sslocal_is_running(t) =>
       (ret'[t] = "1" <=> \E r \in Runtimes : /\ rt[r] = "owned"
                                              /\ core[r] \in {"spawned", "running"})]_vars

\* lib.rs, sslocal_start_tun_fd: "The tun device closes the fd it was given
\* when the runtime is torn down".  Every open descriptor still has an owner
\* that will close it.
NoDescriptorLeak ==
  \A f \in Fds : fdTable[f] # "closed" =>
    \/ f = vpnFd
    \/ f \in otherFds
    \/ \E r \in Runtimes : f = coreFd[r]
=============================================================================

------------------------------- MODULE Sslocal ------------------------------
(***************************************************************************)
(* The lifecycle of the sslocal instance behind the C ABI                  *)
(* (native/sslocal-ffi/src/lib.rs): threads call sslocal_start,            *)
(* sslocal_start_tun_fd, sslocal_stop, sslocal_is_running and              *)
(* sslocal_set_stat_address; a start works through several fallible steps  *)
(* while it holds the INSTANCE mutex; the core task and the plugin         *)
(* forwarders live on the instance's tokio runtime; a stopped runtime      *)
(* disappears in the background, at some later time.                       *)
(*                                                                         *)
(* The kernel's descriptor table is part of the state, because a           *)
(* descriptor is closed BY NUMBER: whoever closes a number it no longer    *)
(* owns closes whatever the process has opened under it meanwhile.         *)
(***************************************************************************)
EXTENDS Naturals, Sequences, FiniteSets

CONSTANTS
  Threads,      \* threads of the process that call the library
  Runtimes,     \* identities of tokio runtimes, reused once torn down
  Fds,          \* descriptor numbers of the process
  Ports,        \* loopback ports the system hands out to forwarders
  Addrs,        \* addresses sslocal_set_stat_address can parse
  Configs,      \* the config_json arguments callers pass
  NoThread, NoRuntime, NoFd, NegativeFd, NoSite, Remote, NoAddr, NoConfig

\* A config_json argument, reduced to what the code looks at: whether the
\* string can be read, the plugin field of every place a server is declared
\* (1 is the top-level form, i+1 entry i of "servers"), whether
\* shadowsocks-service accepts it, and the protocols of its locals.
ConfigArg == [arg     : {"null", "utf8", "syntax", "json"},
              servers : Seq({"plain", "plugin", "badplugin"}),
              schema  : BOOLEAN,
              locals  : Seq({"tun", "socks"})]

ASSUME ConfigsAssumption == Configs \subseteq ConfigArg

ASSUME DistinctAssumption ==
  /\ NoThread \notin Threads
  /\ NoRuntime \notin Runtimes
  /\ NoFd \notin Fds /\ NegativeFd \notin Fds /\ NoFd # NegativeFd
  /\ NoSite \notin Runtimes \X Nat
  /\ Remote \notin Ports
  /\ NoAddr \notin Addrs
  /\ NoConfig \notin Configs

VARIABLES
  \* lib.rs: the statics
  lock,         \* the thread that holds the INSTANCE mutex
  instance,     \* the runtime in INSTANCE
  lastError,    \* LAST_ERROR: the code the message went with, "CORE" for
                \* a message recorded by the core's own task
  statAddr,     \* STAT_ADDR
  \* one start call: arguments and locals
  pc, call, ret,
  draft,        \* the local `runtime` of the start that holds the lock
  todo,         \* its plugin specs not yet served by a forwarder
  \* a runtime and what runs on it
  rt,           \* "free", "owned" (by INSTANCE or a start) or "closing"
  conf,         \* the argument it was started from
  entry,        \* the server entries of the JSON handed to the core
  stat,         \* local_stat_addr in the core's config
  coreFd,       \* tun_device_fd in the core's config
  core,         \* the run_local task
  listener,     \* which forwarder, <<runtime, site>>, listens on a port
  gaveUp,       \* the forwarders whose accept loop ended on a fatal error
  \* the process's descriptors
  fdTable,      \* the kernel's: "closed", "tun" or "other"
  vpnFd,        \* the tun descriptor VpnConnection will close
  otherFds      \* descriptors the rest of the process has opened

ffi    == <<lock, instance, lastError, statAddr>>
locals == <<pc, call, ret, draft, todo>>
tasks  == <<rt, conf, entry, stat, coreFd, core, listener, gaveUp>>
fds    == <<fdTable, vpnFd, otherFds>>
vars   == <<lock, instance, lastError, statAddr, pc, call, ret, draft, todo,
            rt, conf, entry, stat, coreFd, core, listener, gaveUp,
            fdTable, vpnFd, otherFds>>

Codes == {"OK", "INVALID_ARG", "BAD_CONFIG", "ALREADY_RUNNING",
          "NOT_RUNNING", "RUNTIME"}

NoCall == [cfg |-> NoConfig, fd |-> NoFd]

Init ==
  /\ lock = NoThread /\ instance = NoRuntime
  /\ lastError = "NONE" /\ statAddr = NoAddr
  /\ pc = [t \in Threads |-> "idle"]
  /\ call = [t \in Threads |-> NoCall]
  /\ ret = [t \in Threads |-> "OK"]
  /\ draft = NoRuntime /\ todo = {}
  /\ rt = [r \in Runtimes |-> "free"]
  /\ conf = [r \in Runtimes |-> NoConfig]
  /\ entry = [r \in Runtimes |-> <<>>]
  /\ stat = [r \in Runtimes |-> NoAddr]
  /\ coreFd = [r \in Runtimes |-> NoFd]
  /\ core = [r \in Runtimes |-> "none"]
  /\ listener = [p \in Ports |-> NoSite] /\ gaveUp = {}
  /\ fdTable = [f \in Fds |-> "closed"]
  /\ vpnFd = NoFd /\ otherFds = {}

-----------------------------------------------------------------------------
(* Errors and returns.                                                     *)

set_last_error(e) == lastError' = e

Return(t, code) == /\ pc' = [pc EXCEPT ![t] = "idle"]
                   /\ call' = [call EXCEPT ![t] = NoCall]
                   /\ ret' = [ret EXCEPT ![t] = code]

Refused(t, code) == Return(t, code) /\ set_last_error(code)

-----------------------------------------------------------------------------
(* A start before it takes the lock: the argument checks,                  *)
(* parse_config_json and extract_plugin_specs.                             *)

cstr_arg(c) == c.arg \notin {"null", "utf8"}

parse_config_json(c) == IF ~cstr_arg(c) THEN "INVALID_ARG"
                        ELSE IF c.arg = "syntax" THEN "BAD_CONFIG" ELSE "OK"

extract_one_spec(c, i) == c.servers[i] = "plugin"

PluginSites(c) == {i \in DOMAIN c.servers : c.servers[i] # "plain"}

extract_plugin_specs(c) ==
  IF \A i \in PluginSites(c) : extract_one_spec(c, i) THEN "OK" ELSE "BAD_CONFIG"

StartArgs(c, fd) ==
  IF fd = NegativeFd THEN "INVALID_ARG"
  ELSE IF parse_config_json(c) # "OK" THEN parse_config_json(c)
  ELSE extract_plugin_specs(c)

BeginStart(t, c, fd) ==
  /\ pc[t] = "idle"
  /\ \/ /\ StartArgs(c, fd) # "OK"
        /\ Refused(t, StartArgs(c, fd))
     \/ /\ StartArgs(c, fd) = "OK"
        /\ pc' = [pc EXCEPT ![t] = "lock"]
        /\ call' = [call EXCEPT ![t] = [cfg |-> c, fd |-> fd]]
        /\ ret' = [ret EXCEPT ![t] = "PENDING"]
        /\ UNCHANGED lastError
  /\ UNCHANGED <<lock, instance, statAddr, draft, todo, tasks, fds>>

\* sslocal_start, and sslocal_start_tun_fd with the descriptor the VPN
\* connection handed out (-1 when it failed).
sslocal_start(t) == \E c \in Configs : BeginStart(t, c, NoFd)

sslocal_start_tun_fd(t) ==
  \E c \in Configs : BeginStart(t, c, IF vpnFd = NoFd THEN NegativeFd ELSE vpnFd)

-----------------------------------------------------------------------------
(* start_with_json under the lock.                                         *)

Lock(t) == lock = NoThread /\ pc[t] = "lock"

\* Mutant: nobody looks whether INSTANCE is taken.
Vacant_unchecked == TRUE

\* The check is made under the lock, on the state the lock protects.
Vacant == instance = NoRuntime

\* The mutex is released on return, so a refused start never shows holding it.
AlreadyRunning(t) ==
  /\ Lock(t)
  /\ ~Vacant
  /\ Refused(t, "ALREADY_RUNNING")
  /\ UNCHANGED <<lock, instance, statAddr, draft, todo, tasks, fds>>

BuildRuntimeFails(t) ==
  /\ Lock(t)
  /\ Vacant
  /\ Refused(t, "RUNTIME")
  /\ UNCHANGED <<lock, instance, statAddr, draft, todo, tasks, fds>>

BuildRuntime(t) ==
  /\ Lock(t)
  /\ Vacant
  /\ \E r \in Runtimes :
       /\ rt[r] = "free"
       /\ rt' = [rt EXCEPT ![r] = "owned"]
       /\ conf' = [conf EXCEPT ![r] = call[t].cfg]
       /\ entry' = [entry EXCEPT ![r] =
            [i \in 1 .. Len(call[t].cfg.servers) |->
               [plugin |-> call[t].cfg.servers[i], server |-> Remote]]]
       /\ draft' = r
  /\ lock' = t
  /\ todo' = PluginSites(call[t].cfg)
  /\ pc' = [pc EXCEPT ![t] = "forward"]
  /\ UNCHANGED <<instance, lastError, statAddr, call, ret, stat, coreFd, core,
                 listener, gaveUp, fds>>

Survivors(r) == {s \in gaveUp : s[1] # r}

\* Mutant: forwarders outlive the runtime they were started for.
Unbind_kept(r) == listener

Unbind(r) == [p \in Ports |-> IF listener[p] # NoSite /\ listener[p][1] = r
                              THEN NoSite ELSE listener[p]]

\* Mutant: an early return leaks the guard.
Released_kept == lock

\* The guard goes out of scope.
Released == NoThread

\* Any failure once the runtime is built: it is dropped, with the forwarders
\* spawned so far, before the guard is.
Fail(t, code) ==
  /\ Refused(t, code)
  /\ rt' = [rt EXCEPT ![draft] = "free"]
  /\ conf' = [conf EXCEPT ![draft] = NoConfig]
  /\ entry' = [entry EXCEPT ![draft] = <<>>]
  /\ stat' = [stat EXCEPT ![draft] = NoAddr]
  /\ listener' = Unbind(draft) /\ gaveUp' = Survivors(draft)
  /\ draft' = NoRuntime /\ todo' = {}
  /\ lock' = Released
  /\ UNCHANGED <<instance, statAddr, coreFd, core, fds>>

\* Mutant: every spec rewrites the top-level form.
Site_top(i) == 1

\* The entry of the JSON that spec i rewrites (PluginSite).
Site(i) == i

NextSpec(i) == i \in todo /\ \A j \in todo : i <= j

\* One round of apply_plugin_forwarders: bind, then rewrite the entry.
apply_plugin_forwarders(t) ==
  /\ pc[t] = "forward"
  /\ \E i \in todo, p \in Ports :
       /\ NextSpec(i)
       /\ listener[p] = NoSite
       /\ listener' = [listener EXCEPT ![p] = <<draft, i>>]
       /\ entry' = [entry EXCEPT ![draft][Site(i)] = [plugin |-> "plain", server |-> p]]
       /\ todo' = todo \ {i}
  /\ UNCHANGED <<ffi, pc, call, ret, draft, rt, conf, stat, coreFd, core,
                 gaveUp, fds>>

ForwarderFails(t) ==
  /\ pc[t] = "forward"
  /\ todo # {}
  /\ Fail(t, "RUNTIME")

\* Config::load_from_str on the rewritten JSON, then attach_stat_address.
LoadConfig(t) ==
  /\ pc[t] = "forward"
  /\ todo = {}
  /\ conf[draft].schema
  /\ stat' = [stat EXCEPT ![draft] = statAddr]
  /\ pc' = [pc EXCEPT ![t] = "prepare"]
  /\ UNCHANGED <<ffi, call, ret, draft, todo, rt, conf, entry, coreFd, core,
                 listener, gaveUp, fds>>

LoadConfigFails(t) ==
  /\ pc[t] = "forward"
  /\ todo = {}
  /\ ~conf[draft].schema
  /\ Fail(t, "BAD_CONFIG")

\* The local that gets the descriptor: a tun local, else the only one.
HasTunLocal(c) == \/ \E i \in DOMAIN c.locals : c.locals[i] = "tun"
                  \/ Len(c.locals) = 1

\* Mutant: the core is handed the caller's own number.
dup_shared(fd) == {f \in Fds : f = fd /\ fdTable[fd] # "closed"}

\* The numbers dup may return for an open descriptor.
dup(fd) == {f \in Fds : fdTable[fd] # "closed" /\ fdTable[f] = "closed"}

prepare(t) ==
  /\ pc[t] = "prepare"
  /\ \/ /\ call[t].fd = NoFd
        /\ UNCHANGED <<fdTable, coreFd>>
     \/ /\ call[t].fd \in Fds
        /\ HasTunLocal(conf[draft])
        /\ \E f \in dup(call[t].fd) :
             /\ fdTable' = [fdTable EXCEPT ![f] = fdTable[call[t].fd]]
             /\ coreFd' = [coreFd EXCEPT ![draft] = f]
  /\ pc' = [pc EXCEPT ![t] = "launch"]
  /\ UNCHANGED <<ffi, call, ret, draft, todo, rt, conf, entry, stat, core,
                 listener, gaveUp, vpnFd, otherFds>>

NoTunLocal(t) ==
  /\ pc[t] = "prepare"
  /\ call[t].fd \in Fds
  /\ ~HasTunLocal(conf[draft])
  /\ Fail(t, "BAD_CONFIG")

\* dup: the argument is not open, or the process is out of descriptors.
DupFails(t) ==
  /\ pc[t] = "prepare"
  /\ call[t].fd \in Fds
  /\ HasTunLocal(conf[draft])
  /\ dup(call[t].fd) = {}
  /\ Fail(t, "INVALID_ARG")

\* spawn the core, store the instance, release the lock.
Launch(t) ==
  /\ pc[t] = "launch"
  /\ core' = [core EXCEPT ![draft] = "spawned"]
  /\ instance' = draft
  /\ draft' = NoRuntime
  /\ lock' = Released
  /\ Return(t, "OK")
  /\ UNCHANGED <<lastError, statAddr, todo, rt, conf, entry, stat, coreFd,
                 listener, gaveUp, fds>>

start_with_json(t) ==
  \/ AlreadyRunning(t) \/ BuildRuntimeFails(t) \/ BuildRuntime(t)
  \/ apply_plugin_forwarders(t) \/ ForwarderFails(t)
  \/ LoadConfig(t) \/ LoadConfigFails(t)
  \/ prepare(t) \/ NoTunLocal(t) \/ DupFails(t)
  \/ Launch(t)

-----------------------------------------------------------------------------
(* The other entry points.  Each holds the INSTANCE mutex, if at all, for  *)
(* its whole body, so it is one step taken while the mutex is free.        *)

sslocal_stop(t) ==
  /\ pc[t] = "idle" /\ lock = NoThread
  /\ \/ /\ instance # NoRuntime
        /\ rt' = [rt EXCEPT ![instance] = "closing"]
        /\ instance' = NoRuntime
        /\ ret' = [ret EXCEPT ![t] = "OK"]
        /\ UNCHANGED lastError
     \/ /\ instance = NoRuntime
        /\ ret' = [ret EXCEPT ![t] = "NOT_RUNNING"]
        /\ set_last_error("NOT_RUNNING")
        /\ UNCHANGED <<rt, instance>>
  /\ UNCHANGED <<lock, statAddr, pc, call, draft, todo, conf, entry, stat,
                 coreFd, core, listener, gaveUp, fds>>

sslocal_is_running(t) ==
  /\ pc[t] = "idle" /\ lock = NoThread
  /\ ret' = [ret EXCEPT ![t] = IF instance # NoRuntime THEN "1" ELSE "0"]
  /\ UNCHANGED <<ffi, pc, call, draft, todo, tasks, fds>>

\* A null or empty argument clears the address; one that is not UTF-8 or does
\* not parse is refused.
sslocal_set_stat_address(t) ==
  /\ pc[t] = "idle"
  /\ \/ /\ statAddr' \in Addrs \cup {NoAddr}
        /\ ret' = [ret EXCEPT ![t] = "OK"]
        /\ UNCHANGED lastError
     \/ /\ ret' = [ret EXCEPT ![t] = "INVALID_ARG"]
        /\ set_last_error("INVALID_ARG")
        /\ UNCHANGED statAddr
  /\ UNCHANGED <<lock, instance, pc, call, draft, todo, tasks, fds>>

-----------------------------------------------------------------------------
(* Tasks of a runtime (external: tokio and shadowsocks-service).           *)

CloseFd(f) == fdTable' = IF f = NoFd THEN fdTable
                         ELSE [fdTable EXCEPT ![f] = "closed"]

\* run_local sets up the tun device, which owns tun_device_fd from then on.
CoreBoot(r) ==
  /\ core[r] = "spawned"
  /\ core' = [core EXCEPT ![r] = "running"]
  /\ UNCHANGED <<ffi, locals, rt, conf, entry, stat, coreFd, listener,
                 gaveUp, fds>>

\* run_local gives up before there is a tun device: nobody closes the number.
CoreBootFails(r) ==
  /\ core[r] = "spawned"
  /\ core' = [core EXCEPT ![r] = "exited"]
  /\ coreFd' = [coreFd EXCEPT ![r] = NoFd]
  /\ set_last_error("CORE")
  /\ UNCHANGED <<lock, instance, statAddr, locals, rt, conf, entry, stat,
                 listener, gaveUp, fds>>

\* run_local returns later on; dropping the device closes its descriptor.
CoreExit(r) ==
  /\ core[r] = "running"
  /\ core' = [core EXCEPT ![r] = "exited"]
  /\ CloseFd(coreFd[r])
  /\ coreFd' = [coreFd EXCEPT ![r] = NoFd]
  /\ \/ set_last_error("CORE")
     \/ UNCHANGED lastError
  /\ UNCHANGED <<lock, instance, statAddr, locals, rt, conf, entry, stat,
                 listener, gaveUp, vpnFd, otherFds>>

\* A forwarder's accept loop ends (plugin.rs: fatal accept error).
ForwarderDies(p) ==
  /\ listener[p] # NoSite
  /\ listener' = [listener EXCEPT ![p] = NoSite]
  /\ gaveUp' = gaveUp \cup {listener[p]}
  /\ UNCHANGED <<ffi, locals, rt, conf, entry, stat, coreFd, core, fds>>

\* shutdown_background completes: every task of the runtime is dropped.  A
\* core that was never polled drops a config, not a device.
Reap(r) ==
  /\ rt[r] = "closing"
  /\ rt' = [rt EXCEPT ![r] = "free"]
  /\ IF core[r] = "running" THEN CloseFd(coreFd[r]) ELSE UNCHANGED fdTable
  /\ core' = [core EXCEPT ![r] = "none"]
  /\ coreFd' = [coreFd EXCEPT ![r] = NoFd]
  /\ listener' = Unbind(r) /\ gaveUp' = Survivors(r)
  /\ conf' = [conf EXCEPT ![r] = NoConfig]
  /\ entry' = [entry EXCEPT ![r] = <<>>]
  /\ stat' = [stat EXCEPT ![r] = NoAddr]
  /\ UNCHANGED <<ffi, locals, vpnFd, otherFds>>

-----------------------------------------------------------------------------
(* The rest of the process (external): the VPN connection and other code   *)
(* that opens and closes descriptors.                                      *)

VpnCreate ==
  /\ vpnFd = NoFd
  /\ \E f \in Fds : /\ fdTable[f] = "closed"
                    /\ fdTable' = [fdTable EXCEPT ![f] = "tun"]
                    /\ vpnFd' = f
  /\ UNCHANGED <<ffi, locals, tasks, otherFds>>

VpnDestroy ==
  /\ vpnFd # NoFd
  /\ CloseFd(vpnFd)
  /\ vpnFd' = NoFd
  /\ UNCHANGED <<ffi, locals, tasks, otherFds>>

OtherOpen ==
  /\ \E f \in Fds : /\ fdTable[f] = "closed"
                    /\ fdTable' = [fdTable EXCEPT ![f] = "other"]
                    /\ otherFds' = otherFds \cup {f}
  /\ UNCHANGED <<ffi, locals, tasks, vpnFd>>

OtherClose ==
  /\ \E f \in otherFds : /\ CloseFd(f)
                         /\ otherFds' = otherFds \ {f}
  /\ UNCHANGED <<ffi, locals, tasks, vpnFd>>

-----------------------------------------------------------------------------

Next ==
  \/ \E t \in Threads : \/ sslocal_start(t) \/ sslocal_start_tun_fd(t)
                        \/ start_with_json(t)
                        \/ sslocal_stop(t) \/ sslocal_is_running(t)
                        \/ sslocal_set_stat_address(t)
  \/ \E r \in Runtimes : CoreBoot(r) \/ CoreBootFails(r) \/ CoreExit(r) \/ Reap(r)
  \/ \E p \in Ports : ForwarderDies(p)
  \/ VpnCreate \/ VpnDestroy \/ OtherOpen \/ OtherClose

Spec == Init /\ [][Next]_vars

\* A start keeps running while it holds the lock: it never waits for another caller
\* there.
Fairness == \A t \in Threads : WF_vars(lock = t /\ start_with_json(t))

FairSpec == Spec /\ Fairness

=============================================================================

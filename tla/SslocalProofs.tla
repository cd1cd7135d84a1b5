---------------------------- MODULE SslocalProofs ---------------------------
(***************************************************************************)
(* Proofs about the sslocal lifecycle, for any number of threads,          *)
(* runtimes, descriptors and ports and any set of configs.                 *)
(***************************************************************************)
EXTENDS SslocalProps, TLAPS, SequenceTheorems

\* Updating an element of a sequence leaves a sequence (the rewrite of a server
\* entry in apply_plugin_forwarders).
LEMMA ExceptType ==
  ASSUME NEW S, NEW q \in Seq(S), NEW i, NEW e \in S
  PROVE  [q EXCEPT ![i] = e] \in Seq(S)
<1> DEFINE n == Len(q)
           w == [q EXCEPT ![i] = e]
<1>1. n \in Nat /\ q \in [1 .. n -> S]
  OBVIOUS
<1>2. w \in [1 .. n -> S]
  BY <1>1
<1> HIDE DEF n, w
<1>3. w \in Seq(S)
  BY <1>1, <1>2, SeqDef, Zenon
<1> QED
  BY <1>3 DEF w

\* TypeOK, its part about the descriptor table.
FdTableType == fdTable \in [Fds -> {"closed", "tun", "other"}]

\* close(2) leaves a descriptor table.
LEMMA CloseFdType ==
  ASSUME FdTableType, NEW f \in Fds \cup {NoFd}, CloseFd(f)
  PROVE  FdTableType'
BY DEF FdTableType, CloseFd

\* The process before the first call.
LEMMA InitInv == Init => IndInv
<1> SUFFICES ASSUME Init PROVE IndInv
  OBVIOUS
<1> USE DistinctAssumption DEF Init
<1>1. TypeOK
  BY DEF TypeOK, NoCall, Codes
<1>2. LockInv
  BY DEF LockInv
<1>3. RuntimeInv
  BY DEF RuntimeInv
<1>4. FdInv
  BY DEF FdInv
<1> QED
  BY <1>1, <1>2, <1>3, <1>4 DEF IndInv

\* sslocal_stop moves the instance's runtime to the ones shutting down.
LEMMA StopInv ==
  ASSUME IndInv, NEW t \in Threads, sslocal_stop(t)
  PROVE  IndInv'
<1> USE DistinctAssumption
<1>1. TypeOK'
  BY DEF IndInv, TypeOK, sslocal_stop, ffi, tasks, fds, set_last_error, Codes
<1>2. LockInv'
  BY DEF IndInv, TypeOK, LockInv, sslocal_stop, ffi, tasks, fds, Codes
<1>3. RuntimeInv'
  BY DEF IndInv, TypeOK, LockInv, RuntimeInv, sslocal_stop, ffi, tasks, fds
<1>4. FdInv'
  BY DEF IndInv, TypeOK, FdInv, sslocal_stop, ffi, tasks, fds
<1> QED
  BY <1>1, <1>2, <1>3, <1>4 DEF IndInv

\* start_with_json takes the lock and builds a runtime nobody uses.
LEMMA BuildRuntimeInv ==
  ASSUME IndInv, NEW t \in Threads, BuildRuntime(t)
  PROVE  IndInv'
<1> USE DistinctAssumption DEF Lock, Vacant
<1> DEFINE c == call[t].cfg
           e == [i \in 1 .. Len(c.servers) |->
                   [plugin |-> c.servers[i], server |-> Remote]]
<1>a. c \in Configs /\ c.servers \in Seq({"plain", "plugin", "badplugin"})
  BY ConfigsAssumption DEF IndInv, TypeOK, LockInv, BuildRuntime, ConfigArg
<1>b. e \in Seq(Entry)
  <2>1. \A i \in 1 .. Len(c.servers) :
          [plugin |-> c.servers[i], server |-> Remote] \in Entry
    BY <1>a DEF Entry
  <2> HIDE DEF c
  <2>2. e \in [1 .. Len(c.servers) -> Entry]
    BY <2>1
  <2>3. Len(c.servers) \in Nat
    BY <1>a
  <2> HIDE DEF e
  <2> QED
    BY <2>2, <2>3, SeqDef, Zenon
<1>c. PluginSites(c) \subseteq Nat
  BY <1>a DEF PluginSites
<1>1. TypeOK'
  <2> HIDE DEF e
  <2>1. PICK r \in Runtimes : /\ rt' = [rt EXCEPT ![r] = "owned"]
                              /\ conf' = [conf EXCEPT ![r] = c]
                              /\ entry' = [entry EXCEPT ![r] = e]
                              /\ draft' = r
    BY DEF BuildRuntime, e
  <2> HIDE DEF c
  <2> QED
    BY <1>a, <1>b, <1>c, <2>1 DEF IndInv, TypeOK, BuildRuntime, fds, c
<1>2. LockInv'
  BY DEF IndInv, TypeOK, LockInv, BuildRuntime, ffi, tasks, fds, Codes
<1>3. RuntimeInv'
  BY DEF IndInv, TypeOK, LockInv, RuntimeInv, BuildRuntime, ffi, tasks, fds
<1>4. FdInv'
  BY DEF IndInv, TypeOK, FdInv, BuildRuntime, ffi, tasks, fds
<1> QED
  BY <1>1, <1>2, <1>3, <1>4 DEF IndInv

\* A start that fails half way drops its runtime and everything on it.
LEMMA FailInv ==
  ASSUME IndInv, NEW t \in Threads, lock = t, pc[t] # "launch", NEW code \in Codes, Fail(t, code)
  PROVE  IndInv'
<1> USE DistinctAssumption DEF Released
<1>1. TypeOK'
  BY DEF IndInv, TypeOK, LockInv, Fail, Refused, Return, set_last_error, NoCall, fds, Unbind, Survivors
<1>2. LockInv'
  BY DEF IndInv, TypeOK, LockInv, Fail, Refused, Return, set_last_error, NoCall, Codes
<1>3. RuntimeInv'
  BY DEF IndInv, TypeOK, LockInv, RuntimeInv, Fail, Refused, Return, Unbind
<1>4. FdInv'
  BY DEF IndInv, TypeOK, FdInv, Fail, fds
<1> QED
  BY <1>1, <1>2, <1>3, <1>4 DEF IndInv

\* A call that is refused records its error and changes nothing else.
LEMMA RefusedInv ==
  ASSUME IndInv, NEW t \in Threads, pc[t] \in {"idle", "lock"},
         NEW code \in Codes, Refused(t, code),
         UNCHANGED <<lock, instance, statAddr, draft, todo, tasks, fds>>
  PROVE  IndInv'
<1> USE DistinctAssumption DEF Refused, Return, set_last_error, tasks, fds
<1>1. TypeOK'
  BY DEF IndInv, TypeOK, NoCall
<1>2. LockInv'
  BY DEF IndInv, TypeOK, LockInv, Codes
<1>3. RuntimeInv'
  BY DEF IndInv, TypeOK, LockInv, RuntimeInv
<1>4. FdInv'
  BY DEF IndInv, FdInv
<1> QED
  BY <1>1, <1>2, <1>3, <1>4 DEF IndInv

\* sslocal_start and sslocal_start_tun_fd up to the lock.
LEMMA BeginStartInv ==
  ASSUME IndInv, NEW t \in Threads, NEW c \in Configs,
         NEW fd \in Fds \cup {NoFd, NegativeFd}, BeginStart(t, c, fd)
  PROVE  IndInv'
<1> USE DistinctAssumption
<1>a. /\ StartArgs(c, fd) \in Codes
      /\ StartArgs(c, fd) = "OK" => fd \in Fds \cup {NoFd}
  BY DEF StartArgs, Codes, parse_config_json, extract_plugin_specs
<1>1. CASE StartArgs(c, fd) # "OK"
  BY <1>a, <1>1, RefusedInv DEF BeginStart
<1>2. CASE StartArgs(c, fd) = "OK"
  <2>0. /\ pc[t] = "idle"
        /\ pc' = [pc EXCEPT ![t] = "lock"]
        /\ call' = [call EXCEPT ![t] = [cfg |-> c, fd |-> fd]]
        /\ ret' = [ret EXCEPT ![t] = "PENDING"]
        /\ UNCHANGED <<lastError, lock, instance, statAddr, draft, todo, tasks, fds>>
    BY <1>2 DEF BeginStart
  <2> USE <2>0 DEF tasks, fds
  <2>1. TypeOK'
    <3>1. [cfg |-> c, fd |-> fd] \in [cfg : Configs \cup {NoConfig}, fd : Fds \cup {NoFd}]
      BY <1>a, <1>2
    <3>2. pc' \in [Threads -> {"idle", "lock", "forward", "prepare", "launch"}]
      BY DEF IndInv, TypeOK
    <3> QED
      BY <3>1, <3>2 DEF IndInv, TypeOK
  <2>2. LockInv'
    BY DEF IndInv, TypeOK, LockInv
  <2>3. RuntimeInv'
    BY DEF IndInv, TypeOK, LockInv, RuntimeInv
  <2>4. FdInv'
    BY DEF IndInv, FdInv
  <2> QED
    BY <2>1, <2>2, <2>3, <2>4 DEF IndInv
<1> QED
  BY <1>1, <1>2

\* start_with_json finds an instance, or cannot build a runtime.
LEMMA RefusedStartInv ==
  ASSUME IndInv, NEW t \in Threads, AlreadyRunning(t) \/ BuildRuntimeFails(t)
  PROVE  IndInv'
BY RefusedInv DEF AlreadyRunning, BuildRuntimeFails, Lock, Codes

\* start_with_json: the config loads and gets the stat address.
LEMMA LoadConfigInv ==
  ASSUME IndInv, NEW t \in Threads, LoadConfig(t)
  PROVE  IndInv'
<1> USE DistinctAssumption
<1>1. TypeOK'
  BY DEF IndInv, TypeOK, LoadConfig, ffi, locals, tasks, fds, Codes
<1>2. LockInv'
  BY DEF IndInv, TypeOK, LockInv, LoadConfig, ffi, locals, tasks, fds, Codes
<1>3. RuntimeInv'
  BY DEF IndInv, TypeOK, LockInv, RuntimeInv, LoadConfig, ffi, locals, tasks, fds
<1>4. FdInv'
  BY DEF IndInv, TypeOK, LockInv, RuntimeInv, FdInv, LoadConfig, ffi, locals, tasks, fds
<1> QED
  BY <1>1, <1>2, <1>3, <1>4 DEF IndInv

\* The dup in sslocal_start_tun_fd yields a number nobody owns.
LEMMA PrepareInv ==
  ASSUME IndInv, NEW t \in Threads, prepare(t)
  PROVE  IndInv'
<1> USE DistinctAssumption DEF dup
<1>1. TypeOK'
  <2>1. FdTableType' /\ coreFd' \in [Runtimes -> Fds \cup {NoFd}]
    <3>1. CASE call[t].fd = NoFd
      BY <3>1 DEF IndInv, TypeOK, prepare, FdTableType
    <3>2. CASE call[t].fd \in Fds
      <4>1. PICK f \in Fds :
              /\ fdTable' = [fdTable EXCEPT ![f] = fdTable[call[t].fd]]
              /\ coreFd' = [coreFd EXCEPT ![draft] = f]
        BY <3>2 DEF prepare
      <4> QED
        BY <3>2, <4>1 DEF IndInv, TypeOK, FdTableType
    <3> QED
      BY <3>1, <3>2 DEF prepare
  <2>2. pc' \in [Threads -> {"idle", "lock", "forward", "prepare", "launch"}]
    BY DEF IndInv, TypeOK, prepare
  <2> QED
    BY <2>1, <2>2 DEF IndInv, TypeOK, prepare, ffi, FdTableType
<1>2. LockInv'
  BY DEF IndInv, TypeOK, LockInv, prepare, ffi, locals, tasks, fds, Codes
<1>3. RuntimeInv'
  BY DEF IndInv, TypeOK, LockInv, RuntimeInv, prepare, ffi, locals, tasks, fds
<1>4. FdInv'
  BY DEF IndInv, TypeOK, LockInv, RuntimeInv, FdInv, prepare, ffi, locals, tasks, fds
<1> QED
  BY <1>1, <1>2, <1>3, <1>4 DEF IndInv

\* The core is spawned and the runtime becomes the instance.
LEMMA LaunchInv ==
  ASSUME IndInv, NEW t \in Threads, Launch(t)
  PROVE  IndInv'
<1> USE DistinctAssumption DEF Released, Return, NoCall
<1>1. TypeOK'
  BY DEF IndInv, TypeOK, Launch, ffi, locals, tasks, fds, Codes
<1>2. LockInv'
  BY DEF IndInv, TypeOK, LockInv, Launch, ffi, locals, tasks, fds, Codes
<1>3. RuntimeInv'
  BY DEF IndInv, TypeOK, LockInv, RuntimeInv, Launch, ffi, locals, tasks, fds
<1>4. FdInv'
  BY DEF IndInv, TypeOK, LockInv, RuntimeInv, FdInv, Launch, ffi, locals, tasks, fds
<1> QED
  BY <1>1, <1>2, <1>3, <1>4 DEF IndInv

\* sslocal_is_running only looks.
LEMMA IsRunningInv ==
  ASSUME IndInv, NEW t \in Threads, sslocal_is_running(t)
  PROVE  IndInv'
<1> USE DistinctAssumption
<1>1. TypeOK'
  BY DEF IndInv, TypeOK, sslocal_is_running, ffi, locals, tasks, fds, Codes
<1>2. LockInv'
  BY DEF IndInv, TypeOK, LockInv, sslocal_is_running, ffi, locals, tasks, fds, Codes
<1>3. RuntimeInv'
  BY DEF IndInv, TypeOK, LockInv, RuntimeInv, sslocal_is_running, ffi, locals, tasks, fds
<1>4. FdInv'
  BY DEF IndInv, TypeOK, LockInv, RuntimeInv, FdInv, sslocal_is_running, ffi, locals, tasks, fds
<1> QED
  BY <1>1, <1>2, <1>3, <1>4 DEF IndInv

\* sslocal_set_stat_address touches STAT_ADDR only.
LEMMA SetStatAddressInv ==
  ASSUME IndInv, NEW t \in Threads, sslocal_set_stat_address(t)
  PROVE  IndInv'
<1> USE DistinctAssumption DEF set_last_error
<1>1. TypeOK'
  BY DEF IndInv, TypeOK, sslocal_set_stat_address, ffi, locals, tasks, fds, Codes
<1>2. LockInv'
  BY DEF IndInv, TypeOK, LockInv, sslocal_set_stat_address, ffi, locals, tasks, fds, Codes
<1>3. RuntimeInv'
  BY DEF IndInv, TypeOK, LockInv, RuntimeInv, sslocal_set_stat_address, ffi, locals, tasks, fds
<1>4. FdInv'
  BY DEF IndInv, TypeOK, LockInv, RuntimeInv, FdInv, sslocal_set_stat_address, ffi, locals, tasks, fds
<1> QED
  BY <1>1, <1>2, <1>3, <1>4 DEF IndInv

\* run_local sets its tun device up.
LEMMA CoreBootInv ==
  ASSUME IndInv, NEW r \in Runtimes, CoreBoot(r)
  PROVE  IndInv'
<1> USE DistinctAssumption
<1>1. TypeOK'
  <2>1. core' \in [Runtimes -> {"none", "spawned", "running", "exited"}]
    BY DEF IndInv, TypeOK, CoreBoot
  <2> QED
    BY <2>1 DEF IndInv, TypeOK, FdTableType, CoreBoot, ffi, locals, tasks, fds
<1>2. LockInv'
  BY DEF IndInv, TypeOK, LockInv, RuntimeInv, CoreBoot, ffi, locals, tasks
<1>3. RuntimeInv'
  BY DEF IndInv, TypeOK, LockInv, RuntimeInv, CoreBoot, ffi, locals, tasks
<1>4. FdInv'
  BY DEF IndInv, TypeOK, LockInv, RuntimeInv, FdInv, CoreBoot, locals, tasks, fds
<1> QED
  BY <1>1, <1>2, <1>3, <1>4 DEF IndInv

\* run_local fails before it has a device; its descriptor has no owner left.
LEMMA CoreBootFailsInv ==
  ASSUME IndInv, NEW r \in Runtimes, CoreBootFails(r)
  PROVE  IndInv'
<1> USE DistinctAssumption
<1>1. TypeOK'
  <2>1. core' \in [Runtimes -> {"none", "spawned", "running", "exited"}]
    BY DEF IndInv, TypeOK, CoreBootFails
  <2>2. coreFd' \in [Runtimes -> Fds \cup {NoFd}]
    BY DEF IndInv, TypeOK, CoreBootFails
  <2>3. lastError' \in Codes \cup {"NONE", "CORE"}
    BY DEF IndInv, TypeOK, CoreBootFails, set_last_error
  <2> QED
    BY <2>1, <2>2, <2>3 DEF IndInv, TypeOK, FdTableType, CoreBootFails, ffi, locals, tasks, fds
<1>2. LockInv'
  BY DEF IndInv, TypeOK, LockInv, RuntimeInv, CoreBootFails, ffi, locals, tasks
<1>3. RuntimeInv'
  BY DEF IndInv, TypeOK, LockInv, RuntimeInv, CoreBootFails, ffi, locals, tasks
<1>4. FdInv'
  BY DEF IndInv, TypeOK, LockInv, RuntimeInv, FdInv, CoreBootFails, locals, tasks, fds
<1> QED
  BY <1>1, <1>2, <1>3, <1>4 DEF IndInv

\* run_local ends and closes a descriptor that only the core owned.
LEMMA CoreExitInv ==
  ASSUME IndInv, NEW r \in Runtimes, CoreExit(r)
  PROVE  IndInv'
<1> USE DistinctAssumption DEF CloseFd
<1>1. TypeOK'
  <2>1. core' \in [Runtimes -> {"none", "spawned", "running", "exited"}]
    BY DEF IndInv, TypeOK, CoreExit
  <2>2. coreFd' \in [Runtimes -> Fds \cup {NoFd}]
    BY DEF IndInv, TypeOK, CoreExit
  <2>3. lastError' \in Codes \cup {"NONE", "CORE"}
    BY DEF IndInv, TypeOK, CoreExit, set_last_error
  <2>4. FdTableType'
    BY CloseFdType DEF IndInv, TypeOK, FdTableType, CoreExit
  <2> QED
    BY <2>1, <2>2, <2>3, <2>4 DEF IndInv, TypeOK, FdTableType, CoreExit, ffi, locals, tasks, fds
<1>2. LockInv'
  BY DEF IndInv, TypeOK, LockInv, RuntimeInv, CoreExit, ffi, locals, tasks
<1>3. RuntimeInv'
  BY DEF IndInv, TypeOK, LockInv, RuntimeInv, CoreExit, ffi, locals, tasks
<1>4. FdInv'
  BY DEF IndInv, TypeOK, LockInv, RuntimeInv, FdInv, CoreExit, locals, tasks, fds
<1> QED
  BY <1>1, <1>2, <1>3, <1>4 DEF IndInv

\* A forwarder's accept loop gives up.
LEMMA ForwarderDiesInv ==
  ASSUME IndInv, NEW p \in Ports, ForwarderDies(p)
  PROVE  IndInv'
<1> USE DistinctAssumption
<1>1. TypeOK'
  BY DEF IndInv, TypeOK, ForwarderDies, ffi, locals, tasks, fds, Codes
<1>2. LockInv'
  BY DEF IndInv, TypeOK, LockInv, ForwarderDies, ffi, locals, tasks, fds, Codes
<1>3. RuntimeInv'
  BY DEF IndInv, TypeOK, LockInv, RuntimeInv, ForwarderDies, ffi, locals, tasks, fds
<1>4. FdInv'
  BY DEF IndInv, TypeOK, LockInv, RuntimeInv, FdInv, ForwarderDies, ffi, locals, tasks, fds
<1> QED
  BY <1>1, <1>2, <1>3, <1>4 DEF IndInv

\* The background teardown closes a descriptor that only the core owned.
LEMMA ReapInv ==
  ASSUME IndInv, NEW r \in Runtimes, Reap(r)
  PROVE  IndInv'
<1> USE DistinctAssumption DEF CloseFd, Unbind
<1>1. TypeOK'
  <2>1. core' \in [Runtimes -> {"none", "spawned", "running", "exited"}]
    BY DEF IndInv, TypeOK, Reap
  <2>2. coreFd' \in [Runtimes -> Fds \cup {NoFd}]
    BY DEF IndInv, TypeOK, Reap
  <2>3. FdTableType'
    BY CloseFdType DEF IndInv, TypeOK, FdTableType, Reap
  <2>4. listener' \in [Ports -> (Runtimes \X Nat) \cup {NoSite}]
    BY DEF IndInv, TypeOK, Reap, Unbind
  <2>5. /\ conf' \in [Runtimes -> Configs \cup {NoConfig}]
        /\ entry' \in [Runtimes -> Seq(Entry)]
        /\ stat' \in [Runtimes -> Addrs \cup {NoAddr}]
    BY DEF IndInv, TypeOK, Reap
  <2>6. rt' \in [Runtimes -> {"free", "owned", "closing"}] /\ gaveUp' \subseteq Runtimes \X Nat
    BY DEF IndInv, TypeOK, Reap, Survivors
  <2> QED
    BY <2>1, <2>2, <2>3, <2>4, <2>5, <2>6 DEF IndInv, TypeOK, FdTableType, Reap, ffi, locals, tasks, fds
<1>2. LockInv'
  BY DEF IndInv, TypeOK, LockInv, RuntimeInv, Reap, ffi, locals, tasks
<1>3. RuntimeInv'
  BY DEF IndInv, TypeOK, LockInv, RuntimeInv, Reap, ffi, locals, tasks
<1>4. FdInv'
  BY DEF IndInv, TypeOK, LockInv, RuntimeInv, FdInv, Reap, locals, tasks, fds
<1> QED
  BY <1>1, <1>2, <1>3, <1>4 DEF IndInv

\* VpnConnection.create opens a descriptor.
LEMMA VpnCreateInv ==
  ASSUME IndInv, VpnCreate
  PROVE  IndInv'
<1> USE DistinctAssumption DEF CloseFd
<1>1. TypeOK'
  <2>1. FdTableType'
    BY DEF IndInv, TypeOK, FdTableType, VpnCreate
  <2>2. vpnFd' \in Fds \cup {NoFd} /\ otherFds' \subseteq Fds
    BY DEF IndInv, TypeOK, VpnCreate
  <2> QED
    BY <2>1, <2>2 DEF IndInv, TypeOK, FdTableType, VpnCreate, ffi, locals, tasks, fds
<1>2. LockInv'
  BY DEF IndInv, TypeOK, LockInv, RuntimeInv, VpnCreate, ffi, locals, tasks
<1>3. RuntimeInv'
  BY DEF IndInv, TypeOK, LockInv, RuntimeInv, VpnCreate, ffi, locals, tasks
<1>4. FdInv'
  BY DEF IndInv, TypeOK, LockInv, RuntimeInv, FdInv, VpnCreate, locals, tasks, fds
<1> QED
  BY <1>1, <1>2, <1>3, <1>4 DEF IndInv

\* VpnConnection.destroy closes its own.
LEMMA VpnDestroyInv ==
  ASSUME IndInv, VpnDestroy
  PROVE  IndInv'
<1> USE DistinctAssumption DEF CloseFd
<1>1. TypeOK'
  <2>1. FdTableType'
    BY DEF IndInv, TypeOK, FdTableType, VpnDestroy
  <2>2. vpnFd' \in Fds \cup {NoFd} /\ otherFds' \subseteq Fds
    BY DEF IndInv, TypeOK, VpnDestroy
  <2> QED
    BY <2>1, <2>2 DEF IndInv, TypeOK, FdTableType, VpnDestroy, ffi, locals, tasks, fds
<1>2. LockInv'
  BY DEF IndInv, TypeOK, LockInv, RuntimeInv, VpnDestroy, ffi, locals, tasks
<1>3. RuntimeInv'
  BY DEF IndInv, TypeOK, LockInv, RuntimeInv, VpnDestroy, ffi, locals, tasks
<1>4. FdInv'
  BY DEF IndInv, TypeOK, LockInv, RuntimeInv, FdInv, VpnDestroy, locals, tasks, fds
<1> QED
  BY <1>1, <1>2, <1>3, <1>4 DEF IndInv

\* Other code of the process opens a descriptor.
LEMMA OtherOpenInv ==
  ASSUME IndInv, OtherOpen
  PROVE  IndInv'
<1> USE DistinctAssumption DEF CloseFd
<1>1. TypeOK'
  <2>1. FdTableType'
    BY DEF IndInv, TypeOK, FdTableType, OtherOpen
  <2>2. vpnFd' \in Fds \cup {NoFd} /\ otherFds' \subseteq Fds
    BY DEF IndInv, TypeOK, OtherOpen
  <2> QED
    BY <2>1, <2>2 DEF IndInv, TypeOK, FdTableType, OtherOpen, ffi, locals, tasks, fds
<1>2. LockInv'
  BY DEF IndInv, TypeOK, LockInv, RuntimeInv, OtherOpen, ffi, locals, tasks
<1>3. RuntimeInv'
  BY DEF IndInv, TypeOK, LockInv, RuntimeInv, OtherOpen, ffi, locals, tasks
<1>4. FdInv'
  BY DEF IndInv, TypeOK, LockInv, RuntimeInv, FdInv, OtherOpen, locals, tasks, fds
<1> QED
  BY <1>1, <1>2, <1>3, <1>4 DEF IndInv

\* Other code of the process closes one of its own.
LEMMA OtherCloseInv ==
  ASSUME IndInv, OtherClose
  PROVE  IndInv'
<1> USE DistinctAssumption DEF CloseFd
<1>1. TypeOK'
  <2>1. FdTableType'
    BY DEF IndInv, TypeOK, FdTableType, OtherClose
  <2>2. vpnFd' \in Fds \cup {NoFd} /\ otherFds' \subseteq Fds
    BY DEF IndInv, TypeOK, OtherClose
  <2> QED
    BY <2>1, <2>2 DEF IndInv, TypeOK, FdTableType, OtherClose, ffi, locals, tasks, fds
<1>2. LockInv'
  BY DEF IndInv, TypeOK, LockInv, RuntimeInv, OtherClose, ffi, locals, tasks
<1>3. RuntimeInv'
  BY DEF IndInv, TypeOK, LockInv, RuntimeInv, OtherClose, ffi, locals, tasks
<1>4. FdInv'
  BY DEF IndInv, TypeOK, LockInv, RuntimeInv, FdInv, OtherClose, locals, tasks, fds
<1> QED
  BY <1>1, <1>2, <1>3, <1>4 DEF IndInv

\* apply_plugin_forwarders binds a forwarder and rewrites its entry.
LEMMA ForwardInv ==
  ASSUME IndInv, NEW t \in Threads, apply_plugin_forwarders(t)
  PROVE  IndInv'
<1> USE DistinctAssumption
<1>a. draft \in Runtimes
  BY DEF IndInv, TypeOK, LockInv, apply_plugin_forwarders
<1>1. TypeOK'
  <2>1. PICK i \in todo, p \in Ports :
          /\ listener' = [listener EXCEPT ![p] = <<draft, i>>]
          /\ entry' = [entry EXCEPT ![draft][Site(i)] =
                          [plugin |-> "plain", server |-> p]]
          /\ todo' = todo \ {i}
    BY DEF apply_plugin_forwarders
  <2> DEFINE e == [plugin |-> "plain", server |-> p]
             s == [entry[draft] EXCEPT ![Site(i)] = e]
  <2>2. e \in Entry
    BY DEF Entry
  <2>3. s \in Seq(Entry)
    <3>1. entry[draft] \in Seq(Entry)
      BY <1>a DEF IndInv, TypeOK
    <3> HIDE DEF e
    <3> QED
      BY <2>2, <3>1, ExceptType
  <2>4. entry' = [entry EXCEPT ![draft] = s]
    BY <1>a, <2>1
  <2> HIDE DEF s
  <2>5. i \in Nat /\ todo \subseteq Nat
    BY DEF IndInv, TypeOK
  <2>6. listener' \in [Ports -> (Runtimes \X Nat) \cup {NoSite}]
    BY <1>a, <2>1, <2>5 DEF IndInv, TypeOK
  <2>7. todo' \subseteq Nat
    BY <2>1, <2>5
  <2> QED
    BY <1>a, <2>3, <2>4, <2>5, <2>6, <2>7
    DEF IndInv, TypeOK, apply_plugin_forwarders, ffi, fds
<1>2. LockInv'
  BY DEF IndInv, TypeOK, LockInv, apply_plugin_forwarders, ffi, locals, tasks, fds, Codes
<1>3. RuntimeInv'
  BY DEF IndInv, TypeOK, LockInv, RuntimeInv, apply_plugin_forwarders, ffi, locals, tasks, fds
<1>4. FdInv'
  BY DEF IndInv, TypeOK, LockInv, RuntimeInv, FdInv, apply_plugin_forwarders, ffi, locals, tasks, fds
<1> QED
  BY <1>1, <1>2, <1>3, <1>4 DEF IndInv

\* The starts that fail once the runtime is built.
LEMMA FailedStartInv ==
  ASSUME IndInv, NEW t \in Threads,
         ForwarderFails(t) \/ LoadConfigFails(t) \/ NoTunLocal(t) \/ DupFails(t)
  PROVE  IndInv'
<1>1. lock = t /\ pc[t] # "launch"
  BY DEF IndInv, LockInv, ForwarderFails, LoadConfigFails, NoTunLocal, DupFails
<1>2. \E code \in Codes : Fail(t, code)
  BY DEF ForwarderFails, LoadConfigFails, NoTunLocal, DupFails, Codes
<1> QED
  BY <1>1, <1>2, FailInv

\* Every step preserves the inductive invariant.
LEMMA StepInv == IndInv /\ [Next]_vars => IndInv'
<1> SUFFICES ASSUME IndInv, [Next]_vars PROVE IndInv'
  OBVIOUS
<1>1. ASSUME NEW t \in Threads, sslocal_start(t) \/ sslocal_start_tun_fd(t)
      PROVE  IndInv'
  <2>1. vpnFd \in Fds \cup {NoFd}
    BY DEF IndInv, TypeOK
  <2> QED
    BY <1>1, <2>1, BeginStartInv DEF sslocal_start, sslocal_start_tun_fd
<1>2. ASSUME NEW t \in Threads, start_with_json(t) PROVE IndInv'
  BY <1>2, RefusedStartInv, BuildRuntimeInv, ForwardInv, LoadConfigInv, PrepareInv,
     LaunchInv, FailedStartInv DEF start_with_json
<1>3. ASSUME NEW t \in Threads,
             sslocal_stop(t) \/ sslocal_is_running(t) \/ sslocal_set_stat_address(t)
      PROVE  IndInv'
  BY <1>3, StopInv, IsRunningInv, SetStatAddressInv
<1>4. ASSUME NEW r \in Runtimes, CoreBoot(r) \/ CoreBootFails(r) \/ CoreExit(r) \/ Reap(r)
      PROVE  IndInv'
  BY <1>4, CoreBootInv, CoreBootFailsInv, CoreExitInv, ReapInv
<1>5. ASSUME NEW p \in Ports, ForwarderDies(p) PROVE IndInv'
  BY <1>5, ForwarderDiesInv
<1>6. CASE VpnCreate \/ VpnDestroy \/ OtherOpen \/ OtherClose
  BY <1>6, VpnCreateInv, VpnDestroyInv, OtherOpenInv, OtherCloseInv
<1>7. CASE UNCHANGED vars
  BY <1>7 DEF vars, IndInv, TypeOK, LockInv, RuntimeInv, FdInv
<1> QED
  BY <1>1, <1>2, <1>3, <1>4, <1>5, <1>6, <1>7 DEF Next

\* lib.rs, every entry point and background task: the inductive invariant holds
\* in every reachable state.
THEOREM Invariance == Spec => []IndInv
<1>1. Init => IndInv
  BY InitInv
<1>2. IndInv /\ [Next]_vars => IndInv'
  BY StepInv
<1> QED
  BY <1>1, <1>2, PTL DEF Spec

\* lib.rs, statics and locals of a start: they keep their types.
THEOREM TypeCorrect == Spec => []TypeOK
<1>1. IndInv => TypeOK
  BY DEF IndInv
<1> QED
  BY <1>1, Invariance, PTL

\* sslocal_start_tun_fd: thanks to the dup, no interleaving of the caller's
\* destroy(), the background teardown and other code's open and close closes
\* somebody else's descriptor.
THEOREM DescriptorsSafe == Spec => []NoStrayClose
<1>1. IndInv => NoStrayClose
  BY DEF IndInv, FdInv, NoStrayClose
<1> QED
  BY <1>1, Invariance, PTL

\* start_with_json and sslocal_stop: one instance at a time, and failed starts
\* leave nothing behind.
THEOREM NothingOrphaned == Spec => []NoOrphans
<1>1. IndInv => NoOrphans
  BY DistinctAssumption DEF IndInv, LockInv, RuntimeInv, NoOrphans
<1> QED
  BY <1>1, Invariance, PTL

-----------------------------------------------------------------------------
(* The C ABI implements the abstract switch.                               *)

\* Initially the switch is off.
LEMMA AbsInit == Init => Abs!Init
BY DEF Init, Abs!Init

\* Every step is a step of the switch or leaves it alone.
LEMMA AbsStep == IndInv /\ [Next]_vars => [Abs!Next]_Abs!vars
<1> SUFFICES ASSUME IndInv, [Next]_vars PROVE [Abs!Next]_Abs!vars
  OBVIOUS
<1> USE DistinctAssumption
<1>s. ASSUME UNCHANGED <<instance, ret>> PROVE [Abs!Next]_Abs!vars
  BY <1>s DEF Abs!vars
<1>r. ASSUME NEW t \in Threads, NEW e \in Abs!Refusals, UNCHANGED instance,
             ret' = [ret EXCEPT ![t] = e]
      PROVE  [Abs!Next]_Abs!vars
  BY <1>r DEF Abs!Next, Abs!Refuse
<1>1. ASSUME NEW t \in Threads, sslocal_start(t) \/ sslocal_start_tun_fd(t)
      PROVE  [Abs!Next]_Abs!vars
  <2>1. PICK c \in Configs, fd \in Fds \cup {NoFd, NegativeFd} : BeginStart(t, c, fd)
    BY <1>1 DEF sslocal_start, sslocal_start_tun_fd, IndInv, TypeOK
  <2>2. CASE StartArgs(c, fd) # "OK"
    <3>1. StartArgs(c, fd) \in Abs!Refusals
      BY <2>2 DEF StartArgs, parse_config_json, extract_plugin_specs, Abs!Refusals
    <3> QED
      BY <1>r, <2>1, <2>2, <3>1 DEF BeginStart, Refused, Return
  <2>3. CASE StartArgs(c, fd) = "OK"
    <3>1. /\ ret' = [ret EXCEPT ![t] = "PENDING"]
          /\ UNCHANGED instance
          /\ ret[t] # "PENDING"
      BY <2>1, <2>3 DEF BeginStart, IndInv, LockInv
    <3> QED
      BY <3>1 DEF Abs!Next, Abs!Begin, Abs!Pending
  <2> QED
    BY <2>2, <2>3
<1>2. ASSUME NEW t \in Threads, start_with_json(t) PROVE [Abs!Next]_Abs!vars
  <2>0. pc[t] # "idle" => ret[t] = "PENDING"
    BY DEF IndInv, LockInv
  <2>1. CASE AlreadyRunning(t)
    BY <2>0, <2>1 DEF AlreadyRunning, Lock, Vacant, Refused, Return,
       Abs!Next, Abs!AlreadyRunning, Abs!Pending
  <2>2. CASE BuildRuntimeFails(t)
    BY <1>r, <2>2 DEF BuildRuntimeFails, Refused, Return, Abs!Refusals
  <2>3. CASE BuildRuntime(t) \/ apply_plugin_forwarders(t) \/ LoadConfig(t) \/ prepare(t)
    BY <1>s, <2>3 DEF BuildRuntime, apply_plugin_forwarders, LoadConfig, prepare, ffi
  <2>4. CASE ForwarderFails(t) \/ LoadConfigFails(t) \/ NoTunLocal(t) \/ DupFails(t)
    BY <1>r, <2>4 DEF ForwarderFails, LoadConfigFails, NoTunLocal, DupFails, Fail,
       Refused, Return, Abs!Refusals
  <2>5. CASE Launch(t)
    <3>1. /\ ret[t] = "PENDING"
          /\ instance = NoRuntime
          /\ instance' # NoRuntime
          /\ ret' = [ret EXCEPT ![t] = "OK"]
      BY <2>0, <2>5 DEF Launch, Return, IndInv, TypeOK, LockInv
    <3> QED
      BY <3>1 DEF Abs!Next, Abs!Start, Abs!Pending
  <2> QED
    BY <1>2, <2>1, <2>2, <2>3, <2>4, <2>5 DEF start_with_json
<1>3. ASSUME NEW t \in Threads,
             sslocal_stop(t) \/ sslocal_is_running(t) \/ sslocal_set_stat_address(t)
      PROVE  [Abs!Next]_Abs!vars
  <2>0. pc[t] = "idle" => ret[t] # "PENDING"
    BY DEF IndInv, LockInv
  <2>1. CASE sslocal_stop(t)
    BY <2>0, <2>1 DEF sslocal_stop, Abs!Next, Abs!Stop, Abs!Pending
  <2>2. CASE sslocal_is_running(t)
    BY <2>0, <2>2 DEF sslocal_is_running, ffi, Abs!Next, Abs!IsRunning, Abs!Pending
  <2>3. CASE sslocal_set_stat_address(t)
    BY <1>r, <2>0, <2>3 DEF sslocal_set_stat_address, Abs!Refusals, Abs!Next,
       Abs!SetStatAddress, Abs!Pending
  <2> QED
    BY <1>3, <2>1, <2>2, <2>3
<1>4. ASSUME NEW r \in Runtimes, CoreBoot(r) \/ CoreBootFails(r) \/ CoreExit(r) \/ Reap(r)
      PROVE  [Abs!Next]_Abs!vars
  BY <1>s, <1>4 DEF CoreBoot, CoreBootFails, CoreExit, Reap, ffi, locals
<1>5. ASSUME NEW p \in Ports, ForwarderDies(p) PROVE [Abs!Next]_Abs!vars
  BY <1>s, <1>5 DEF ForwarderDies, ffi, locals
<1>6. CASE VpnCreate \/ VpnDestroy \/ OtherOpen \/ OtherClose
  BY <1>s, <1>6 DEF VpnCreate, VpnDestroy, OtherOpen, OtherClose, ffi, locals
<1>7. CASE UNCHANGED vars
  BY <1>s, <1>7 DEF vars
<1> QED
  BY <1>1, <1>2, <1>3, <1>4, <1>5, <1>6, <1>7 DEF Next

\* The C ABI of lib.rs implements the switch of SslocalAbs: every call takes
\* effect at one instant, and its return code tells which way the switch went.
THEOREM Refinement == Spec => ABI
<1>1. Init => Abs!Init
  BY AbsInit
<1>2. IndInv /\ [Next]_vars => [Abs!Next]_Abs!vars
  BY AbsStep
<1> QED
  BY <1>1, <1>2, Invariance, PTL DEF Spec, ABI, Abs!Spec

-----------------------------------------------------------------------------
(* That the plugins of an instance are served.  The ports are shared by    *)
(* the forwarders of all runtimes: a start may bind one while another      *)
(* runtime is being torn down.                                             *)

\* Place i of the config of r: what PluginsServed says of it.
EntryServed(r, i) ==
  /\ entry[r][i].plugin = "plain"
  /\ IF conf[r].servers[i] = "plain" THEN entry[r][i].server = Remote
     ELSE \/ <<r, i>> \in gaveUp
          \/ entry[r][i].server \in Ports /\ listener[entry[r][i].server] = <<r, i>>

\* The same of a runtime that is being built, but for the specs still to do.
ServedInv ==
  \A r \in Runtimes : rt[r] = "owned" =>
    /\ conf[r] \in Configs
    /\ DOMAIN entry[r] = DOMAIN conf[r].servers
    /\ \A i \in DOMAIN conf[r].servers :
         IF r = draft /\ i \in todo THEN conf[r].servers[i] # "plain" ELSE EntryServed(r, i)

\* A step that touches neither forwarders nor entries.
LEMMA ServedElsewhere ==
  ASSUME ServedInv, UNCHANGED <<draft, todo, conf, entry, listener, gaveUp>>,
         \A r \in Runtimes : rt'[r] = "owned" => rt[r] = "owned"
  PROVE  ServedInv'
BY DEF ServedInv, EntryServed

\* A new runtime: its plugin specs are to do, its other servers are as declared.
LEMMA ServedBuild ==
  ASSUME IndInv, NEW t \in Threads, BuildRuntime(t)
  PROVE  ServedInv'
<1> DEFINE c == call[t].cfg
<1>1. PICK r \in Runtimes :
        /\ rt' = [rt EXCEPT ![r] = "owned"] /\ conf' = [conf EXCEPT ![r] = c]
        /\ entry' = [entry EXCEPT ![r] =
             [i \in 1 .. Len(c.servers) |-> [plugin |-> c.servers[i], server |-> Remote]]]
        /\ draft' = r
  BY DEF BuildRuntime
<1>2. todo' = PluginSites(c)
  BY DEF BuildRuntime
<1>3. c \in Configs /\ c.servers \in Seq({"plain", "plugin", "badplugin"})
  BY ConfigsAssumption DEF IndInv, LockInv, BuildRuntime, Lock, ConfigArg
<1> HIDE DEF c
<1>4. \A q \in Runtimes : rt'[q] = "owned" => q = r
  BY <1>1, DistinctAssumption
     DEF IndInv, TypeOK, LockInv, RuntimeInv, BuildRuntime, Lock, Vacant
<1>5. /\ conf'[r] = c
      /\ entry'[r] = [i \in 1 .. Len(c.servers) |->
                        [plugin |-> c.servers[i], server |-> Remote]]
  BY <1>1 DEF IndInv, TypeOK
<1>6. DOMAIN entry'[r] = DOMAIN c.servers
  BY <1>3, <1>5
<1>7. ASSUME NEW i \in DOMAIN c.servers 
      PROVE  IF i \in todo' THEN conf'[r].servers[i] # "plain" ELSE EntryServed(r, i)'
  BY <1>2, <1>3, <1>5, <1>7 DEF PluginSites, EntryServed
<1> QED
  BY <1>1, <1>3, <1>4, <1>5, <1>6, <1>7 DEF ServedInv

\* One round of apply_plugin_forwarders: the port was nobody's, so that no other
\* entry loses its forwarder.
LEMMA ServedForward ==
  ASSUME IndInv, ServedInv, NEW t \in Threads, apply_plugin_forwarders(t)
  PROVE  ServedInv'
<1>1. PICK i \in todo, p \in Ports :
        /\ listener[p] = NoSite /\ listener' = [listener EXCEPT ![p] = <<draft, i>>]
        /\ entry' = [entry EXCEPT ![draft][i] = [plugin |-> "plain", server |-> p]]
        /\ todo' = todo \ {i}
  BY DEF apply_plugin_forwarders, Site
<1>2. UNCHANGED <<rt, conf, draft, gaveUp>>
  BY DEF apply_plugin_forwarders
<1>3. draft \in Runtimes /\ rt[draft] = "owned"
  BY DistinctAssumption DEF IndInv, TypeOK, LockInv, RuntimeInv, apply_plugin_forwarders
<1>4. SUFFICES ASSUME NEW r \in Runtimes, rt[r] = "owned"
               PROVE  /\ conf[r] \in Configs
                      /\ DOMAIN entry'[r] = DOMAIN conf[r].servers
                      /\ \A k \in DOMAIN conf[r].servers :
                           IF r = draft /\ k \in todo' THEN conf[r].servers[k] # "plain"
                           ELSE EntryServed(r, k)'
  BY <1>2 DEF ServedInv
<1>5. conf[r] \in Configs /\ DOMAIN entry'[r] = DOMAIN conf[r].servers
  BY <1>1, <1>3, <1>4 DEF ServedInv, IndInv, TypeOK
<1>6. ASSUME NEW k \in DOMAIN conf[r].servers, ~(r = draft /\ k \in todo')
      PROVE  EntryServed(r, k)'
  <2>1. CASE r = draft /\ k = i
    <3>1. entry'[r][k] = [plugin |-> "plain", server |-> p]
      BY <1>1, <1>3, <1>4, <1>6, <2>1 DEF ServedInv, IndInv, TypeOK
    <3>2. listener'[p] = <<r, k>>
      BY <1>1, <2>1 DEF IndInv, TypeOK
    <3>3. conf'[r].servers[k] # "plain"
      BY <1>2, <1>4, <1>6, <2>1 DEF ServedInv
    <3> QED
      BY <3>1, <3>2, <3>3 DEF EntryServed
  <2>2. CASE ~(r = draft /\ k = i)
    <3>1. EntryServed(r, k)
      BY <1>1, <1>4, <1>6, <2>2 DEF ServedInv
    <3>2. entry'[r][k] = entry[r][k]
      BY <1>1, <1>3, <2>2 DEF IndInv, TypeOK
    <3>3. <<r, k>> # NoSite
      <4>1. k \in Nat
        BY <1>5, <1>6, ConfigsAssumption DEF ConfigArg
      <4>2. <<r, k>> \in Runtimes \X Nat
        BY <4>1
      <4> QED
        BY <4>2, DistinctAssumption
    <3>4. \A q \in Ports : listener[q] = <<r, k>> => listener'[q] = listener[q]
      BY <1>1, <3>3 DEF IndInv, TypeOK
    <3> QED
      BY <1>2, <3>1, <3>2, <3>4 DEF EntryServed
  <2> QED
    BY <2>1, <2>2
<1>7. ASSUME NEW k \in DOMAIN conf[r].servers, r = draft, k \in todo'
      PROVE  conf[r].servers[k] # "plain"
  BY <1>1, <1>4, <1>7 DEF ServedInv
<1> QED
  BY <1>5, <1>6, <1>7

\* A forwarder that gives up is on record.
LEMMA ServedDies ==
  ASSUME IndInv, ServedInv, NEW p \in Ports, ForwarderDies(p)
  PROVE  ServedInv'
<1>1. /\ UNCHANGED <<rt, conf, entry, draft, todo>>
      /\ listener' = [listener EXCEPT ![p] = NoSite] /\ gaveUp' = gaveUp \cup {listener[p]}
  BY DEF ForwarderDies, locals
<1>2. ASSUME NEW r \in Runtimes, NEW i \in DOMAIN conf[r].servers, EntryServed(r, i)
      PROVE  EntryServed(r, i)'
  <2>1. \A q \in Ports : listener[q] = <<r, i>> => listener'[q] = <<r, i>> \/ <<r, i>> \in gaveUp'
    BY <1>1 DEF IndInv, TypeOK
  <2> QED
    BY <1>1, <1>2, <2>1 DEF EntryServed
<1> QED
  BY <1>1, <1>2 DEF ServedInv

\* The teardown of a runtime leaves the forwarders of the others alone.
LEMMA ServedReap ==
  ASSUME IndInv, ServedInv, NEW r \in Runtimes, Reap(r)
  PROVE  ServedInv'
<1>1. /\ rt[r] = "closing" /\ rt' = [rt EXCEPT ![r] = "free"]
      /\ UNCHANGED <<draft, todo>>
      /\ listener' = Unbind(r) /\ gaveUp' = Survivors(r)
      /\ conf' = [conf EXCEPT ![r] = NoConfig] /\ entry' = [entry EXCEPT ![r] = <<>>]
  BY DEF Reap, locals
<1>2. ASSUME NEW q \in Runtimes, rt'[q] = "owned"
      PROVE  q # r /\ rt[q] = "owned" /\ conf'[q] = conf[q] /\ entry'[q] = entry[q]
  BY <1>1, <1>2 DEF IndInv, TypeOK
<1>3. ASSUME NEW q \in Runtimes, q # r, NEW i, EntryServed(q, i),
             conf'[q] = conf[q], entry'[q] = entry[q]
      PROVE  EntryServed(q, i)'
  <2>1. \A p \in Ports : listener[p] = <<q, i>> => listener'[p] = <<q, i>>
    BY <1>1, <1>3 DEF Unbind
  <2>2. <<q, i>> \in gaveUp => <<q, i>> \in gaveUp'
    BY <1>1, <1>3 DEF Survivors
  <2> QED
    BY <1>3, <2>1, <2>2 DEF EntryServed
<1> QED
  BY <1>1, <1>2, <1>3 DEF ServedInv

\* A start that fails half way leaves no runtime of which anything is said.
LEMMA ServedFails ==
  ASSUME IndInv, NEW t \in Threads, lock = t, NEW code, Fail(t, code)
  PROVE  ServedInv'
<1>1. instance = NoRuntime /\ rt' = [rt EXCEPT ![draft] = "free"]
  BY DistinctAssumption DEF IndInv, LockInv, Fail
<1>2. \A r \in Runtimes : rt'[r] # "owned"
  BY <1>1, DistinctAssumption DEF IndInv, TypeOK, RuntimeInv
<1> QED
  BY <1>2 DEF ServedInv

\* The instance is stored when no spec is left to do.
LEMMA ServedLaunch ==
  ASSUME IndInv, ServedInv, NEW t \in Threads, Launch(t)
  PROVE  ServedInv'
BY DEF IndInv, LockInv, Launch, ServedInv, EntryServed

\* Every step keeps the running plugins served.
LEMMA ServedStep == ASSUME IndInv, ServedInv, [Next]_vars PROVE ServedInv'
<1> DEFINE Elsewhere == /\ UNCHANGED <<draft, todo, conf, entry, listener, gaveUp>>
                        /\ \A r \in Runtimes : rt'[r] = "owned" => rt[r] = "owned"
<1>1. ASSUME NEW t \in Threads, start_with_json(t) PROVE ServedInv'
  <2>1. CASE ForwarderFails(t) \/ LoadConfigFails(t) \/ NoTunLocal(t) \/ DupFails(t)
    <3>1. lock = t /\ \E code : Fail(t, code)
      BY <2>1 DEF IndInv, LockInv, ForwarderFails, LoadConfigFails, NoTunLocal, DupFails
    <3> QED
      BY <3>1, ServedFails
  <2>2. CASE AlreadyRunning(t) \/ BuildRuntimeFails(t) \/ LoadConfig(t) \/ prepare(t)
    <3>1. Elsewhere
      BY <2>2 DEF AlreadyRunning, BuildRuntimeFails, LoadConfig, prepare, tasks
    <3> QED
      BY <3>1, ServedElsewhere
  <2> QED
    BY <1>1, <2>1, <2>2, ServedBuild, ServedForward, ServedLaunch DEF start_with_json
<1>2. CASE \E t \in Threads : \/ sslocal_start(t) \/ sslocal_start_tun_fd(t) \/ sslocal_stop(t)
                              \/ sslocal_is_running(t) \/ sslocal_set_stat_address(t)
  <2>1. PICK t \in Threads : \/ sslocal_start(t) \/ sslocal_start_tun_fd(t) \/ sslocal_stop(t)
                             \/ sslocal_is_running(t) \/ sslocal_set_stat_address(t)
    BY <1>2
  <2>2. CASE sslocal_stop(t)
    <3>1. Elsewhere
      BY <2>2 DEF sslocal_stop, IndInv, TypeOK
    <3> QED
      BY <3>1, ServedElsewhere
  <2>3. CASE ~sslocal_stop(t)
    <3>1. Elsewhere
      BY <2>1, <2>3 DEF sslocal_start, sslocal_start_tun_fd, BeginStart, sslocal_is_running,
                        sslocal_set_stat_address, tasks
    <3> QED
      BY <3>1, ServedElsewhere
  <2> QED
    BY <2>2, <2>3
<1>3. CASE \/ \E r \in Runtimes : CoreBoot(r) \/ CoreBootFails(r) \/ CoreExit(r)
           \/ VpnCreate \/ VpnDestroy \/ OtherOpen \/ OtherClose \/ UNCHANGED vars
  <2>1. Elsewhere
    BY <1>3 DEF CoreBoot, CoreBootFails, CoreExit, VpnCreate, VpnDestroy, OtherOpen,
                OtherClose, locals, tasks, vars
  <2> QED
    BY <2>1, ServedElsewhere
<1> QED
  BY <1>1, <1>2, <1>3, ServedDies, ServedReap DEF Next

\* apply_plugin_forwarders: the core of the instance is pointed at a plain server
\* or at that entry's own forwarder, whatever other starts, failures and teardowns
\* use the ports meanwhile.
THEOREM EveryPluginServed == Spec => []PluginsServed
<1>1. Init => ServedInv
  BY DEF Init, ServedInv
<1>2. IndInv /\ ServedInv /\ [Next]_vars => ServedInv'
  BY ServedStep
<1>3. IndInv /\ ServedInv => PluginsServed
  <2> SUFFICES ASSUME IndInv, ServedInv, instance # NoRuntime PROVE PluginsServed
    BY DEF PluginsServed
  <2>1. instance \in Runtimes /\ rt[instance] = "owned" /\ instance # draft
    BY DistinctAssumption DEF IndInv, TypeOK, LockInv, RuntimeInv
  <2> QED
    BY <2>1 DEF ServedInv, EntryServed, PluginsServed
<1> QED
  BY <1>1, <1>2, <1>3, Invariance, PTL DEF Spec
=============================================================================

---------------------------- MODULE VpnExtension ----------------------------
(***************************************************************************)
(* SsVpnExtensionAbility (entry/src/main/ets/vpnability): the ability that *)
(* brings up the VPN interface, the endpoint for traffic statistics and    *)
(* the native core, and takes them down again.                             *)
(*                                                                         *)
(* onCreate and onDestroy are asynchronous functions on one event loop:    *)
(* each step below runs from one await of a system call to the next, and   *)
(* between two steps the other callback and the events of the statistics   *)
(* connections run.  An await of a store is no such point, because the     *)
(* stores make synchronous calls only.  The switch `on` is the one of      *)
(* SslocalAbs.  The process may be killed at any time; the next session    *)
(* then runs in a new process and finds the statistics file as it is.      *)
(***************************************************************************)
EXTENDS Integers, SequencesExt

CONSTANTS Profiles,     \* what the store may hold: [host |-> is there one, route]
          AclRoutes,    \* routes that have an ACL file
          STAT_PORTS,
          Conns,        \* connections to the statistics endpoint
          MaxSessions,  \* bound on the number of processes
          None

ASSUME PortsAssumption == STAT_PORTS # <<>> /\ None \notin Range(STAT_PORTS)

Tasks == {"onCreate", "onDestroy"}

VARIABLES
  pc,           \* the await each callback is at, or how it has ended
  todo,         \* the connections each teardown has yet to close
  caught,       \* onCreate is in its catch block
  profile,      \* local of onCreate, as long as its route is to be read
  port,         \* local of onCreate
  connection, statServer, statConnections,        \* fields of the ability
  recent,       \* Date.now() - lastStatSave < STAT_SAVE_INTERVAL_MS
  on, statAddr, \* the native library: INSTANCE and STAT_ADDR
  core,         \* its run_local task has not ended
  iface, listening, live,       \* the system: VPN interface, bound port, sockets
  file,         \* whose sample the statistics file holds
  session,
  late          \* history: onDestroy came while onCreate was waiting

locals == <<caught, profile, port>>
system == <<iface, listening, live>>
vars == <<pc, todo, locals, connection, statServer, statConnections, recent,
          on, core, statAddr, system, file, session, late>>

Init ==
  /\ pc = [t \in Tasks |-> "none"] /\ todo = [t \in Tasks |-> <<>>]
  /\ caught = FALSE /\ profile = None /\ port = 1
  /\ connection = FALSE /\ statServer = None /\ statConnections = <<>>
  /\ recent = FALSE /\ on = FALSE /\ core = FALSE /\ statAddr = None
  /\ iface = FALSE /\ listening = None /\ live = {}
  /\ file = None /\ session = 1 /\ late = FALSE

\* The ends of a callback: nothing to do, the core runs, all is torn down, or an
\* exception has left the function.
Ended == {"aborted", "up", "down", "failed"}

Waiting(t) == pc[t] \notin Ended \cup {"none"}

At(t, label) == pc' = [pc EXCEPT ![t] = label]

-----------------------------------------------------------------------------
(* teardown.                                                               *)

\* Mutant: the server is forgotten.
Stage_early(conns, server, conn) ==
  IF conns # <<>> THEN "conn" ELSE IF conn THEN "vpn" ELSE "down"

\* Mutant: without a server there is taken to be no interface.
Stage_nested(conns, server, conn) ==
  IF conns # <<>> THEN "conn" ELSE IF server # None THEN "server" ELSE "down"

\* The next call a teardown waits for, given what there is left to close.
Stage(conns, server, conn) ==
  IF conns # <<>> THEN "conn"
  ELSE IF server # None THEN "server"
  ELSE IF conn THEN "vpn" ELSE "down"

\* On to that call; TrafficStatsStore.clear comes last and does not wait.
Proceed(t, stage) == /\ At(t, stage)
                     /\ file' = IF stage = "down" THEN None ELSE file

\* From the call to the first await: the core is stopped and the list of
\* connections taken over.  The last conjunct of an action: it reads statServer'.
teardown(t) ==
  /\ on' = FALSE /\ core' = FALSE
  /\ todo' = [todo EXCEPT ![t] = statConnections]
  /\ statConnections' = <<>>
  /\ Proceed(t, Stage(statConnections, statServer', connection))

\* Mutant: the oldest connection is dropped, whichever has ended.
forget_oldest(conns, c) == IF conns = <<>> THEN conns ELSE Tail(conns)

\* The handler of a connection's 'close' and 'error' events: splice(indexOf).
forget(conns, c) == RemoveFirst(conns, c)

\* conn.close() settles; an error means that it was closed already.
ConnClosed(t) ==
  /\ pc[t] = "conn"
  /\ live' = live \ {Head(todo[t])}
  /\ statConnections' = forget(statConnections, Head(todo[t]))
  /\ todo' = [todo EXCEPT ![t] = Tail(@)]
  /\ Proceed(t, Stage(Tail(todo[t]), statServer, connection))
  /\ UNCHANGED <<locals, connection, statServer, recent, on, core, statAddr, iface,
                 listening, session, late>>

ServerClosed(t) ==
  /\ pc[t] = "server"
  /\ statServer' = None /\ listening' = None
  /\ Proceed(t, Stage(<<>>, None, connection))
  /\ UNCHANGED <<todo, locals, connection, statConnections, recent, on, core, statAddr,
                 iface, live, session, late>>

VpnDestroyed(t) ==
  /\ pc[t] = "vpn"
  /\ iface' = FALSE /\ connection' = FALSE
  /\ Proceed(t, "down")
  /\ UNCHANGED <<todo, locals, statServer, statConnections, recent, on, core, statAddr,
                 listening, live, session, late>>

\* destroy() rejects and teardown with it.  In onCreate that is caught once: the
\* catch block calls teardown again.
VpnDestroyThrows(t) ==
  /\ pc[t] = "vpn"
  /\ UNCHANGED <<profile, port, connection, statServer, recent, statAddr,
                 system, session, late>>
  /\ IF t = "onCreate" /\ ~caught
     THEN caught' = TRUE /\ teardown(t)
     ELSE At(t, "failed") /\ UNCHANGED <<caught, on, core, todo, statConnections, file>>

-----------------------------------------------------------------------------
(* onCreate.                                                               *)

\* Up to connection.create(): getCurrent reads the stores without waiting.
onCreate(p) ==
  /\ pc["onCreate"] = "none"
  /\ IF p = None \/ ~p.host
     THEN At("onCreate", "aborted") /\ UNCHANGED <<profile, connection>>
     ELSE At("onCreate", "create") /\ profile' = p /\ connection' = TRUE
  /\ UNCHANGED <<todo, caught, port, statServer, statConnections, recent, on, core,
                 statAddr, system, file, session, late>>

\* An exception reaches the catch block.
Catch == caught' = TRUE /\ profile' = None /\ UNCHANGED port /\ teardown("onCreate")

\* Mutant: the statistics of an earlier session stay.
Serve_uncleared ==
  /\ port' = 1 /\ profile' = None
  /\ At("onCreate", "listen")
  /\ UNCHANGED <<caught, on, core, todo, statConnections, file>>

\* deployAcl returned: the statistics are cleared, the first port is tried.
Serve ==
  /\ file' = None /\ port' = 1 /\ profile' = None
  /\ At("onCreate", "listen")
  /\ UNCHANGED <<caught, on, core, todo, statConnections>>

\* deployAcl waits for the resource if the route has one, else there is no ACL.
deployAcl ==
  IF profile.route \in AclRoutes
  THEN At("onCreate", "acl") /\ UNCHANGED <<locals, on, core, todo, statConnections, file>>
  ELSE Serve

\* create() resolves.  If a teardown has taken the connection meanwhile, whether
\* there is an interface now is up to the system, and the next line, which looks
\* for protectProcessNet, throws.
VpnCreated ==
  /\ pc["onCreate"] = "create"
  /\ iface' \in IF connection THEN {TRUE} ELSE BOOLEAN
  /\ UNCHANGED <<connection, statServer, recent, statAddr, listening, live, session, late>>
  /\ \/ ~connection /\ Catch
     \/ /\ connection       \* API 22: the function is there
        /\ At("onCreate", "protect")
        /\ UNCHANGED <<locals, on, core, todo, statConnections, file>>
     \/ connection /\ deployAcl

\* create() or protectProcessNet() rejects.
VpnFails ==
  /\ pc["onCreate"] \in {"create", "protect"}
  /\ UNCHANGED <<connection, statServer, recent, statAddr, system, session, late>>
  /\ Catch

Protected ==
  /\ pc["onCreate"] = "protect"
  /\ deployAcl
  /\ UNCHANGED <<connection, statServer, recent, statAddr, system, session, late>>

\* The ACL file is written, or could not be: then the core gets none.  Either way
\* onCreate goes on.
AclRead ==
  /\ pc["onCreate"] = "acl"
  /\ Serve
  /\ UNCHANGED <<connection, statServer, recent, statAddr, system, session, late>>

\* The rest of onCreate: startTunFd, and the teardown if it fails.
startTunFd ==
  \/ /\ ~on /\ on' = TRUE /\ core' = TRUE
     /\ At("onCreate", "up")
     /\ UNCHANGED <<todo, statConnections, file>>
  \/ teardown("onCreate")

\* server.listen() resolves; setStatAddress is told the port.
StatListens ==
  /\ pc["onCreate"] = "listen"
  /\ statServer' = STAT_PORTS[port] /\ listening' = statServer' /\ statAddr' = statServer'
  /\ UNCHANGED <<locals, connection, recent, iface, live, session, late>>
  /\ startTunFd

\* server.listen() rejects: the port is taken.
PortTaken ==
  /\ pc["onCreate"] = "listen"
  /\ At("onCreate", "close")
  /\ UNCHANGED <<todo, locals, connection, statServer, statConnections, recent, on, core,
                 statAddr, system, file, session, late>>

\* Mutant: the loop stays at its port.
NextPort_same(n) == n

NextPort(n) == n + 1

MorePorts(n) == n < Len(STAT_PORTS)

\* The server that could not listen is closed; the next port, or no statistics.
PortGivenUp ==
  /\ pc["onCreate"] = "close"
  /\ UNCHANGED <<caught, profile, connection, statServer, recent, statAddr,
                 system, session, late>>
  /\ IF MorePorts(port)
     THEN /\ port' = NextPort(port) /\ At("onCreate", "listen")
          /\ UNCHANGED <<on, core, todo, statConnections, file>>
     ELSE UNCHANGED port /\ startTunFd

onDestroy ==
  /\ pc["onDestroy"] = "none" /\ pc["onCreate"] # "none"
  /\ late' = Waiting("onCreate")
  /\ UNCHANGED <<locals, connection, statServer, recent, statAddr, system, session>>
  /\ teardown("onDestroy")

-----------------------------------------------------------------------------
(* The statistics endpoint.                                                *)

Held(c) == \E t \in Tasks : c \in Range(todo[t])

\* The core connects with a sample.
onStatConnection(c) ==
  /\ listening # None /\ listening = statAddr /\ c \notin live /\ ~Held(c)
  /\ live' = live \cup {c}
  /\ statConnections' = Append(statConnections, c)
  /\ UNCHANGED <<pc, todo, locals, connection, statServer, recent, on, core, statAddr,
                 iface, listening, file, session, late>>

\* A 'message' event with a whole sample; save() may fail unnoticed.
StatMessage(c) ==
  /\ c \in live /\ ~recent
  /\ recent' = TRUE
  /\ file' \in {session, file}
  /\ UNCHANGED <<pc, todo, locals, connection, statServer, statConnections, on, core,
                 statAddr, system, session, late>>

IntervalOver ==
  /\ recent /\ recent' = FALSE
  /\ UNCHANGED <<pc, todo, locals, connection, statServer, statConnections, on, core,
                 statAddr, system, file, session, late>>

\* The core's end of a connection closes, or breaks.
StatEnds(c) ==
  /\ c \in live
  /\ live' = live \ {c}
  /\ statConnections' = forget(statConnections, c)
  /\ UNCHANGED <<pc, todo, locals, connection, statServer, recent, on, core, statAddr,
                 iface, listening, file, session, late>>

\* run_local fails or returns after startTunFd has answered.  INSTANCE stays set
\* and the extension is not told.
CoreEnds ==
  /\ core /\ core' = FALSE
  /\ UNCHANGED <<pc, todo, locals, connection, statServer, statConnections, recent, on,
                 statAddr, system, file, session, late>>

\* The process ends, at any moment, and another one is started.
ProcessEnds ==
  /\ session < MaxSessions /\ pc["onCreate"] # "none"
  /\ session' = session + 1
  /\ pc' = [t \in Tasks |-> "none"] /\ todo' = [t \in Tasks |-> <<>>]
  /\ caught' = FALSE /\ profile' = None /\ port' = 1
  /\ connection' = FALSE /\ statServer' = None /\ statConnections' = <<>>
  /\ recent' = FALSE /\ on' = FALSE /\ core' = FALSE /\ statAddr' = None
  /\ iface' = FALSE /\ listening' = None /\ live' = {} /\ late' = FALSE
  /\ UNCHANGED file

\* An await of a callback settles.
Creating == VpnCreated \/ VpnFails \/ Protected \/ AclRead \/ StatListens \/ PortTaken
            \/ PortGivenUp
Teardown(t) == ConnClosed(t) \/ ServerClosed(t) \/ VpnDestroyed(t) \/ VpnDestroyThrows(t)
StatEvents == \/ \E c \in Conns : onStatConnection(c) \/ StatMessage(c) \/ StatEnds(c)
              \/ IntervalOver

Next == \/ \E p \in Profiles \cup {None} : onCreate(p)
        \/ Creating \/ onDestroy \/ \E t \in Tasks : Teardown(t)
        \/ StatEvents \/ CoreEnds \/ ProcessEnds

Spec == Init /\ [][Next]_vars /\ WF_vars(Creating) /\ \A t \in Tasks : WF_vars(Teardown(t))

-----------------------------------------------------------------------------

\* onDestroy: once it has completed, the core is off, the VPN interface gone and
\* the statistics port free, whatever onCreate had achieved and in whatever way
\* it had failed, unless onDestroy came while onCreate was still waiting.
DestroyedIsDown ==
  pc["onDestroy"] = "down" /\ ~late =>
    ~on /\ ~iface /\ ~connection /\ statServer = None /\ listening = None

\* onCreate: a start that has failed and cleaned up leaves no core and no bound
\* port behind, even when onDestroy ran in between; and no VPN interface, when
\* it did not.
FailedStartIsUndone ==
  pc["onCreate"] = "down" =>
    /\ ~on /\ statServer = None /\ listening = None
    /\ late \/ (~iface /\ ~connection)

\* onStatConnection: the list holds exactly the connections that are open and
\* that no teardown has taken over, each once, so it cannot grow with the
\* connections that have been.
ListExact ==
  /\ Range(statConnections) = {c \in live : ~Held(c)}
  /\ Cardinality(Range(statConnections)) = Len(statConnections)

\* TrafficStatsStore: while the core of a session runs, the statistics file holds
\* no sample of an earlier session, though a killed process, or a sample that
\* arrives after teardown has cleared the file, leaves one there.
FreshStats == on => file \in {session, None}

\* The core has ended by itself: startTunFd has set INSTANCE, and no teardown has
\* cleared it since.
CoreLost == on /\ ~core

\* onCreate, teardown: a VPN interface, which takes all traffic, does not stay
\* without a core behind it: a start comes to an end with a core, or the interface
\* is taken down.  Except when the core ends by itself, which the extension never
\* notices, when onDestroy overtakes onCreate or when destroy() fails.
NoBlackHole ==
  (iface /\ ~core) ~>
     core \/ ~iface \/ CoreLost \/ late \/ \E t \in Tasks : pc[t] = "failed"
=============================================================================

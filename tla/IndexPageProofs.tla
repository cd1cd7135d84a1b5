-------------------------- MODULE IndexPageProofs ---------------------------
(***************************************************************************)
(* Proofs about the VPN extension ability and the main page: for any       *)
(* profiles, ports, connections, sessions, clicks and handlers under way,  *)
(* and whatever the user and the system do.                                *)
(*                                                                         *)
(* That nothing is left when a callback of the extension has ended follows *)
(* from where the callback is: the calls a teardown has behind it have     *)
(* nothing to come back to.  What the other callback may do meanwhile is   *)
(* what `late` tells apart: if onDestroy came to an onCreate that had      *)
(* ended, nothing is made any more.                                        *)
(***************************************************************************)
EXTENDS IndexPage, SequenceLemmas


Labels == {"none", "create", "protect", "acl", "listen", "close", "conn", "server", "vpn"}
            \cup Ended

\* What a teardown at its last call, or at its end, has behind it.
Closed(t) == /\ pc[t] \in {"vpn", "down"} => statServer = None
             /\ pc[t] = "down" => ~connection

\* onDestroy came to an onCreate that had ended.
InTime == pc["onDestroy"] # "none" /\ ~late

VpnInv ==
  /\ pc \in [Tasks -> Labels] /\ {connection, iface, on, late} \subseteq BOOLEAN
  /\ late => pc["onDestroy"] # "none"
  /\ listening = statServer
  /\ on => pc["onCreate"] = "up"
  /\ Closed("onCreate")
  /\ InTime => pc["onCreate"] \in Ended /\ ~on /\ Closed("onDestroy")
  /\ ~late => /\ iface => connection
              /\ pc["onCreate"] = "create" => connection
  /\ pc["onCreate"] \in {"listen", "close", "up"} => file \in {session, None}

\* The next call of a teardown is chosen by what is left.
LEMMA StageLeft ==
  ASSUME NEW conns, NEW server, NEW conn \in BOOLEAN
  PROVE  /\ Stage(conns, server, conn) \in {"conn", "server", "vpn", "down"}
         /\ Stage(conns, server, conn) \in {"vpn", "down"} => server = None
         /\ Stage(conns, server, conn) = "down" => ~conn
BY DEF Stage

\* What a teardown has done when it waits for its next call, or ends.
Moved(t) ==
  /\ \E stage \in {"conn", "server", "vpn", "down"} : At(t, stage)
  /\ t = "onCreate" \/ ~late' => Closed(t)'
  /\ file' \in {file, None}

\* A task of the extension that goes on to its next await.
LEMMA Proceeds ==
  ASSUME NEW t \in Tasks, VpnInv, NEW conns, UNCHANGED connection,
         Proceed(t, Stage(conns, statServer', connection))
  PROVE  Moved(t)
<1>1. PICK stage : stage = Stage(conns, statServer', connection)
  OBVIOUS
<1>2. /\ stage \in {"conn", "server", "vpn", "down"}
      /\ stage \in {"vpn", "down"} => statServer' = None
      /\ stage = "down" => ~connection
  BY <1>1, StageLeft DEF VpnInv
<1>3. At(t, stage) /\ file' \in {file, None}
  BY <1>1 DEF Proceed
<1>4. Closed(t)'
  BY <1>2, <1>3 DEF VpnInv, At, Closed
<1> QED
  BY <1>2, <1>3, <1>4 DEF Moved

\* teardown leaves nothing on.
LEMMA TornDown ==
  ASSUME NEW t \in Tasks, VpnInv, teardown(t), UNCHANGED connection
  PROVE  Moved(t) /\ on' = FALSE
BY Proceeds DEF teardown

\* onCreate ends or tears down, without having touched what is its own.
LEMMA CreateMoves ==
  ASSUME VpnInv, pc["onCreate"] \notin Ended, Moved("onCreate"), ~on', on' \in BOOLEAN,
         statServer' = listening', UNCHANGED <<late, session>>,
         connection' \in BOOLEAN, iface' \in BOOLEAN, ~late => (iface' => connection')
  PROVE  VpnInv'
<1>1. PICK stage \in {"conn", "server", "vpn", "down"} :
        pc' = [pc EXCEPT !["onCreate"] = stage]
  BY DEF Moved, At
<1>2. /\ pc' \in [Tasks -> Labels] /\ pc'["onCreate"] = stage
      /\ pc'["onDestroy"] = pc["onDestroy"]
  BY <1>1 DEF VpnInv, Tasks, Labels, Ended
<1>3. Closed("onCreate")'
  BY DEF Moved
<1>4. ~InTime /\ ~InTime'
  BY <1>2 DEF VpnInv, InTime
<1> QED
  BY <1>2, <1>3, <1>4 DEF VpnInv

\* onCreate waits for its next call, or has started the core.
LEMMA CreateWaits ==
  ASSUME VpnInv, pc["onCreate"] \notin Ended,
         NEW label \in {"protect", "acl", "listen", "close", "up"}, At("onCreate", label),
         on' \in BOOLEAN, on' => label = "up",
         label \in {"listen", "close", "up"} => file' \in {session, None},
         statServer' = listening', UNCHANGED <<late, session>>,
         connection' \in BOOLEAN, iface' \in BOOLEAN, ~late => (iface' => connection')
  PROVE  VpnInv'
<1>1. /\ pc' \in [Tasks -> Labels] /\ pc'["onCreate"] = label
      /\ pc'["onDestroy"] = pc["onDestroy"]
  BY DEF VpnInv, At, Tasks, Labels, Ended
<1>2. Closed("onCreate")'
  BY <1>1 DEF Closed
<1>3. ~InTime /\ ~InTime'
  BY <1>1 DEF VpnInv, InTime
<1> QED
  BY <1>1, <1>2, <1>3 DEF VpnInv

\* onDestroy comes, or goes on: what it has behind it matters only if it came to
\* an onCreate that had ended, and that one makes nothing any more.
LEMMA DestroyMoves ==
  ASSUME VpnInv, Moved("onDestroy"), on' \in BOOLEAN, on' => on,
         late' \in BOOLEAN, pc["onDestroy"] # "none" => (late' <=> late),
         pc["onDestroy"] = "none" => /\ pc["onCreate"] # "none" /\ ~on'
                                     /\ Waiting("onCreate") => late',
         statServer' = listening', statServer' \in {statServer, None}, UNCHANGED session,
         {connection, iface}' \subseteq BOOLEAN, connection' => connection,
         ~late' => (iface' => connection') /\ (pc["onCreate"] = "create" => connection')
  PROVE  VpnInv'
<1>1. PICK stage \in {"conn", "server", "vpn", "down"} :
        pc' = [pc EXCEPT !["onDestroy"] = stage]
  BY DEF Moved, At
<1>2. /\ pc' \in [Tasks -> Labels] /\ pc'["onDestroy"] = stage
      /\ pc'["onCreate"] = pc["onCreate"]
  BY <1>1 DEF VpnInv, Tasks, Labels, Ended
<1>3. late => late'
  BY DEF VpnInv
<1>4. Closed("onCreate")'
  BY <1>2 DEF VpnInv, Closed
<1>5. InTime' => pc["onCreate"] \in Ended /\ ~on' /\ Closed("onDestroy")'
  BY DEF VpnInv, InTime, Waiting, Moved
<1>6. /\ on' => pc'["onCreate"] = "up"
      /\ pc'["onCreate"] \in {"listen", "close", "up"} => file' \in {session', None}
  BY <1>2 DEF VpnInv, Moved
<1>7. ~late' => (iface' => connection') /\ (pc'["onCreate"] = "create" => connection')
  BY <1>2, <1>3 DEF VpnInv
<1>8. {connection, iface, on, late}' \subseteq BOOLEAN
  BY <1>3 DEF VpnInv
<1> QED
  BY <1>2, <1>3, <1>4, <1>5, <1>6, <1>7, <1>8, stage # "none" DEF VpnInv, InTime

\* A step of the statistics endpoint, or none.
LEMMA CallbacksStay ==
  ASSUME VpnInv, UNCHANGED <<pc, connection, statServer, on, iface, listening, session, late>>,
         file' \in {session, file}
  PROVE  VpnInv'
BY DEF VpnInv, Closed, InTime

-----------------------------------------------------------------------------
(* One lemma per step of the callbacks.                                    *)

\* A call of a teardown has settled.
LEMMA TeardownGoesOn ==
  ASSUME VpnInv, NEW t \in Tasks, ConnClosed(t) \/ ServerClosed(t) \/ VpnDestroyed(t)
  PROVE  VpnInv'
<1>1. /\ pc[t] \in {"conn", "server", "vpn"}
      /\ UNCHANGED <<on, late, session>>
  BY DEF ConnClosed, ServerClosed, VpnDestroyed
<1>2. /\ statServer' = listening' /\ statServer' \in {statServer, None}
      /\ UNCHANGED <<connection, iface>> \/ (connection' = FALSE /\ iface' = FALSE)
  BY DEF VpnInv, ConnClosed, ServerClosed, VpnDestroyed
<1>3. Moved(t)
  <2>1. CASE ConnClosed(t)
    BY <2>1, Proceeds DEF ConnClosed
  <2>2. CASE ServerClosed(t)
    BY <2>2, Proceeds DEF ServerClosed
  <2>3. CASE VpnDestroyed(t)
    <3>1. /\ pc[t] = "vpn" /\ At(t, "down") /\ file' = None /\ ~connection'
          /\ UNCHANGED <<statServer, late>>
      BY <2>3 DEF VpnDestroyed, Proceed
    <3>2. t = "onCreate" \/ ~late => Closed(t)
      BY <3>1 DEF VpnInv, InTime, Tasks
    <3> QED
      BY <3>1, <3>2 DEF VpnInv, Moved, At, Closed
  <2> QED
    BY <2>1, <2>2, <2>3
<1>4. /\ {connection, iface, on, late}' \subseteq BOOLEAN
      /\ connection' => connection
      /\ ~late => (iface' => connection')
  <2>1. CASE UNCHANGED <<connection, iface>>
    BY <1>1, <2>1 DEF VpnInv
  <2>2. CASE connection' = FALSE /\ iface' = FALSE
    BY <1>1, <2>2 DEF VpnInv
  <2> QED
    BY <1>2, <2>1, <2>2
<1>5. CASE t = "onCreate"
  <2>1. pc["onCreate"] \notin Ended /\ ~on'
    BY <1>1, <1>5 DEF VpnInv, Ended
  <2> QED
    BY <1>1, <1>2, <1>3, <1>4, <1>5, <2>1, CreateMoves
<1>6. CASE t = "onDestroy"
  <2>1. pc["onDestroy"] # "none"
    BY <1>1, <1>6
  <2>2. pc["onCreate"] = "create" /\ ~late' => connection'
    BY <1>1, <1>2, <1>6, <2>1 DEF VpnInv, InTime, Ended
  <2> QED
    BY <1>1, <1>2, <1>3, <1>4, <1>6, <2>1, <2>2, DestroyMoves
<1> QED
  BY <1>5, <1>6 DEF Tasks

\* A callback fails, or comes to nothing: it is not waiting any more.
LEMMA CallbackFails ==
  ASSUME VpnInv, NEW t \in Tasks, Waiting(t), At(t, "failed"),
         UNCHANGED <<connection, statServer, on, iface, listening, file, session, late>>
  PROVE  VpnInv'
<1>1. /\ pc' \in [Tasks -> Labels] /\ pc'[t] = "failed"
      /\ \A u \in Tasks : u # t => pc'[u] = pc[u]
  BY DEF VpnInv, At, Labels, Ended
<1>2. /\ pc'["onCreate"] \in {pc["onCreate"], "failed"}
      /\ pc'["onDestroy"] \in {pc["onDestroy"], "failed"}
      /\ (pc'["onDestroy"] # "none" <=> pc["onDestroy"] # "none")
  BY <1>1 DEF Tasks, Waiting
<1>3. Closed("onCreate")'
  BY <1>2 DEF VpnInv, Closed
<1>4. InTime' => pc'["onCreate"] \in Ended /\ ~on' /\ Closed("onDestroy")'
  BY <1>2 DEF VpnInv, InTime, Closed, Ended
<1>5. on => pc'["onCreate"] = "up"
  <2>1. on => t # "onCreate"
    BY DEF VpnInv, Waiting, Ended
  <2> QED
    BY <1>1, <2>1 DEF VpnInv, Tasks
<1> QED
  BY <1>1, <1>2, <1>3, <1>4, <1>5 DEF VpnInv

\* The catch block calls teardown.
LEMMA CreateTearsDown ==
  ASSUME VpnInv, pc["onCreate"] \notin Ended, teardown("onCreate"),
         UNCHANGED <<connection, late, session>>, statServer' = listening',
         iface' \in BOOLEAN, ~late => (iface' => connection')
  PROVE  VpnInv'
<1>1. Moved("onCreate") /\ on' = FALSE
  BY TornDown DEF Tasks
<1>2. connection' \in BOOLEAN
  BY DEF VpnInv
<1> QED
  BY <1>1, <1>2, CreateMoves

\* onDestroy that throws keeps the order of the extension's steps.
LEMMA DestroyThrows ==
  ASSUME VpnInv, NEW t \in Tasks, VpnDestroyThrows(t)
  PROVE  VpnInv'
<1>1. /\ pc[t] = "vpn"
      /\ UNCHANGED <<connection, statServer, iface, listening, session, late>>
  BY DEF VpnDestroyThrows, system
<1>2. CASE t = "onCreate" /\ ~caught
  <2>1. teardown("onCreate")
    BY <1>2 DEF VpnDestroyThrows
  <2> QED
    BY <1>1, <1>2, <2>1, CreateTearsDown DEF VpnInv, Ended
<1>3. CASE ~(t = "onCreate" /\ ~caught)
  <2>1. At(t, "failed") /\ UNCHANGED <<on, file>>
    BY <1>3 DEF VpnDestroyThrows
  <2> QED
    BY <1>1, <2>1, CallbackFails DEF Waiting, Ended
<1> QED
  BY <1>2, <1>3

\* deployAcl waits for the resource, or the statistics are cleared.
LEMMA DeployAcl ==
  ASSUME VpnInv, pc["onCreate"] \notin Ended, pc["onCreate"] # "none", deployAcl \/ Serve,
         UNCHANGED <<connection, statServer, listening, session, late>>,
         iface' \in BOOLEAN, ~late => (iface' => connection')
  PROVE  VpnInv'
<1>1. PICK label \in {"acl", "listen"} :
        At("onCreate", label) /\ UNCHANGED on /\ (label = "listen" => file' = None)
  BY DEF deployAcl, Serve
<1>2. on = FALSE /\ connection' \in BOOLEAN /\ statServer' = listening'
  BY DEF VpnInv, Ended
<1> QED
  BY <1>1, <1>2, CreateWaits

\* startTunFd keeps it.
LEMMA StartTunFd ==
  ASSUME VpnInv, pc["onCreate"] \in {"listen", "close"}, startTunFd,
         statServer' = listening', UNCHANGED <<connection, iface, session, late>>
  PROVE  VpnInv'
<1>1. /\ pc["onCreate"] \notin Ended /\ {connection, iface}' \subseteq BOOLEAN
      /\ ~late => (iface' => connection')
  BY DEF VpnInv, Ended
<1>2. CASE teardown("onCreate")
  BY <1>1, <1>2, CreateTearsDown
<1>3. CASE on' = TRUE /\ At("onCreate", "up") /\ UNCHANGED file
  <2>1. file' \in {session, None}
    BY <1>3 DEF VpnInv
  <2>2. on' \in BOOLEAN
    BY <1>3
  <2> QED
    BY <1>1, <1>3, <2>1, <2>2, CreateWaits
<1> QED
  BY <1>2, <1>3 DEF startTunFd

\* An await of onCreate settles.
LEMMA CreationGoesOn == ASSUME VpnInv, Creating PROVE VpnInv'
<1>1. /\ pc["onCreate"] \notin Ended /\ pc["onCreate"] # "none"
      /\ UNCHANGED <<connection, session, late>>
  BY DEF Creating, VpnCreated, VpnFails, Protected, AclRead, StatListens, PortTaken,
         PortGivenUp, Ended
<1>2. on = FALSE /\ {connection, iface}' \subseteq BOOLEAN
  BY <1>1 DEF VpnInv, Creating, VpnCreated, VpnFails, Protected, AclRead, StatListens,
              PortTaken, PortGivenUp, system, Ended
<1>3. CASE VpnCreated
  <2>1. /\ UNCHANGED <<statServer, listening>> /\ statServer' = listening'
        /\ ~late => (iface' => connection')
    BY <1>3 DEF VpnInv, VpnCreated
  <2>2. CASE Catch
    BY <1>1, <1>2, <2>1, <2>2, CreateTearsDown DEF Catch
  <2>3. CASE At("onCreate", "protect") /\ UNCHANGED <<on, file>>
    BY <1>1, <1>2, <2>1, <2>3, CreateWaits
  <2>4. CASE deployAcl
    BY <1>1, <1>2, <2>1, <2>4, DeployAcl
  <2> QED
    BY <1>3, <2>2, <2>3, <2>4 DEF VpnCreated
<1>4. ASSUME UNCHANGED <<statServer, iface, listening>>
      PROVE  statServer' = listening' /\ (~late => (iface' => connection'))
  BY <1>1, <1>4 DEF VpnInv
<1>5. CASE VpnFails
  BY <1>1, <1>2, <1>4, <1>5, CreateTearsDown DEF VpnFails, Catch, system
<1>6. CASE Protected \/ AclRead
  BY <1>1, <1>2, <1>4, <1>6, DeployAcl DEF Protected, AclRead, system
<1>7. CASE StatListens
  BY <1>7, StartTunFd DEF StatListens
<1>8. CASE PortTaken
  <2>1. file' \in {session, None}
    BY <1>8 DEF VpnInv, PortTaken
  <2> QED
    BY <1>1, <1>2, <1>4, <1>8, <2>1, CreateWaits DEF PortTaken, system
<1>9. CASE PortGivenUp
  <2>1. CASE At("onCreate", "listen") /\ UNCHANGED <<on, file>>
    <3>1. file' \in {session, None}
      BY <1>9, <2>1 DEF VpnInv, PortGivenUp
    <3> QED
      BY <1>1, <1>2, <1>4, <1>9, <2>1, <3>1, CreateWaits DEF PortGivenUp, system
  <2>2. CASE startTunFd
    BY <1>1, <1>4, <1>9, <2>2, StartTunFd DEF PortGivenUp, system
  <2> QED
    BY <1>9, <2>1, <2>2 DEF PortGivenUp
<1> QED
  BY <1>3, <1>5, <1>6, <1>7, <1>8, <1>9 DEF Creating

\* onCreate is called.
LEMMA CreateBegins ==
  ASSUME VpnInv, NEW p, onCreate(p)
  PROVE  VpnInv'
<1>1. /\ pc["onCreate"] = "none"
      /\ UNCHANGED <<statServer, on, iface, listening, file, session, late>>
      /\ \/ At("onCreate", "aborted") /\ UNCHANGED connection
         \/ At("onCreate", "create") /\ connection' = TRUE
  BY DEF onCreate, system
<1>2. ~InTime
  BY <1>1 DEF VpnInv, Ended
<1>3. /\ pc' \in [Tasks -> Labels] /\ pc'["onCreate"] \in {"aborted", "create"}
      /\ pc'["onDestroy"] = pc["onDestroy"]
  BY <1>1 DEF VpnInv, At, Tasks, Labels, Ended
<1>4. Closed("onCreate")' /\ ~InTime'
  BY <1>1, <1>2, <1>3 DEF Closed, InTime
<1>5. /\ {connection, iface, on, late}' \subseteq BOOLEAN /\ ~on'
      /\ connection => connection'
      /\ pc'["onCreate"] = "create" => connection'
  BY <1>1, <1>3 DEF VpnInv, At, Tasks
<1> QED
  BY <1>1, <1>3, <1>4, <1>5 DEF VpnInv

\* onDestroy is called.
LEMMA DestroyBegins == ASSUME VpnInv, onDestroy PROVE VpnInv'
<1>1. /\ pc["onDestroy"] = "none" /\ pc["onCreate"] # "none" /\ teardown("onDestroy")
      /\ late' = Waiting("onCreate")
      /\ UNCHANGED <<connection, statServer, iface, listening, session>>
  BY DEF onDestroy, system
<1>2. Moved("onDestroy") /\ on' = FALSE
  BY <1>1, TornDown DEF Tasks
<1>3. late' \in BOOLEAN /\ ~late /\ (Waiting("onCreate") => late')
  BY <1>1 DEF VpnInv, Waiting
<1>4. /\ statServer' = listening' /\ {connection, iface}' \subseteq BOOLEAN
      /\ (iface' => connection') /\ (pc["onCreate"] = "create" => connection')
  BY <1>1, <1>3 DEF VpnInv
<1> QED
  BY <1>1, <1>2, <1>3, <1>4, DestroyMoves

\* Another process: every callback is still to come.
LEMMA ProcessBegins ==
  ASSUME pc' = [t \in Tasks |-> "none"], statServer' = None, listening' = None,
         connection' = FALSE, on' = FALSE, iface' = FALSE, late' = FALSE
  PROVE  VpnInv'
<1>1. pc' \in [Tasks -> Labels] /\ \A t \in Tasks : pc'[t] = "none"
  BY DEF Labels
<1> QED
  BY <1>1 DEF VpnInv, Closed, InTime, Tasks

-----------------------------------------------------------------------------

\* The extension alone, and as part of the application, takes the same steps.
LEMMA AppStep == ASSUME [AppNext]_app PROVE [Next]_vars
BY DEF AppNext, Page, Click, Started, StartRejected, Stopped, aboutToDisappear, Served,
       SystemStops, Create, Destroy, Replaced, Extension, Next, app

\* The invariant, for the extension under whatever calls onCreate and onDestroy.
THEOREM VpnInvariance == AppSpec => []VpnInv
<1>1. AppInit => VpnInv
  <2> SUFFICES ASSUME Init PROVE VpnInv
    BY DEF AppInit
  <2>1. pc \in [Tasks -> Labels] /\ \A t \in Tasks : pc[t] = "none"
    BY DEF Init, Labels
  <2> QED
    BY <2>1 DEF Init, VpnInv, Closed, InTime, Tasks
<1>2. VpnInv /\ [Next]_vars => VpnInv'
  <2> SUFFICES ASSUME VpnInv, [Next]_vars PROVE VpnInv'
    OBVIOUS
  <2>1. ASSUME NEW p \in Profiles \cup {None}, onCreate(p) PROVE VpnInv'
    BY <2>1, CreateBegins
  <2>2. ASSUME NEW t \in Tasks, Teardown(t) PROVE VpnInv'
    BY <2>2, TeardownGoesOn, DestroyThrows DEF Teardown
  <2>3. CASE StatEvents \/ CoreEnds \/ UNCHANGED vars
    <3>1. /\ UNCHANGED <<pc, connection, statServer, on, iface, listening, session, late>>
          /\ file' \in {session, file}
      BY <2>3 DEF StatEvents, onStatConnection, StatMessage, StatEnds, IntervalOver,
                  CoreEnds, system, vars
    <3> QED
      BY <3>1, CallbacksStay
  <2>4. CASE ProcessEnds
    BY <2>4, ProcessBegins DEF ProcessEnds
  <2> QED
    BY <2>1, <2>2, <2>3, <2>4, CreationGoesOn, DestroyBegins DEF Next
<1> QED
  BY <1>1, <1>2, AppStep, PTL DEF AppSpec

\* onDestroy: when it has completed, in time, core, interface and port are gone.
THEOREM DestroyedClean == AppSpec => []DestroyedIsDown
<1>1. VpnInv => DestroyedIsDown
  BY DEF VpnInv, InTime, Closed, DestroyedIsDown
<1> QED
  BY <1>1, VpnInvariance, PTL

\* onCreate: a failed start has left nothing when it has cleaned up, and nothing
\* that runs is left even if onDestroy overtook it.
THEOREM FailedStartClean == AppSpec => []FailedStartIsUndone
<1>1. VpnInv => FailedStartIsUndone
  BY DEF VpnInv, Closed, FailedStartIsUndone
<1> QED
  BY <1>1, VpnInvariance, PTL

\* TrafficStatsStore: a session starts its core with cleared statistics, over any
\* number of killed sessions.
THEOREM StatsOfSession == AppSpec => []FreshStats
<1>1. VpnInv => FreshStats
  BY DEF VpnInv, FreshStats
<1> QED
  BY <1>1, VpnInvariance, PTL

-----------------------------------------------------------------------------
(* The statistics connections.                                             *)

\* The list and what the teardowns have taken over: a teardown has connections
\* exactly while it waits for one of them to close.
ListInv ==
  /\ todo \in [Tasks -> Seq(Conns)]
  /\ statConnections \in Seq(Conns) /\ Once(statConnections)
  /\ \A t \in Tasks : todo[t] # <<>> <=> pc[t] = "conn"
  /\ Range(statConnections) = {c \in live : ~Held(c)}

\* A step in which no connection comes or goes, and no teardown begins to wait for
\* one or ends waiting.
LEMMA ListCalm ==
  ASSUME ListInv, UNCHANGED <<todo, statConnections, live>>,
         \A t \in Tasks : pc'[t] = "conn" <=> pc[t] = "conn"
  PROVE  ListInv'
BY DEF ListInv, Held

\* A callback goes on, but not to or from the closing of a connection.
LEMMA ListGoesOn ==
  ASSUME ListInv, VpnInv, NEW t \in Tasks, pc[t] # "conn", NEW label, label # "conn",
         At(t, label), UNCHANGED <<todo, statConnections, live>>
  PROVE  ListInv'
<1>1. \A u \in Tasks : pc'[u] = "conn" <=> pc[u] = "conn"
  BY DEF VpnInv, At
<1> QED BY <1>1, ListCalm

\* A teardown takes the list over, and waits for the first if there is one.
LEMMA ListTakenOver ==
  ASSUME ListInv, VpnInv, NEW t \in Tasks, pc[t] # "conn", teardown(t), UNCHANGED live
  PROVE  ListInv'
<1>1. /\ todo[t] = <<>> /\ todo' = [todo EXCEPT ![t] = statConnections]
      /\ statConnections' = <<>>
      /\ At(t, Stage(statConnections, statServer', connection))
  BY DEF ListInv, teardown, Proceed
<1>2. /\ pc' = [pc EXCEPT ![t] = Stage(statConnections, statServer', connection)]
      /\ pc \in [Tasks -> Labels]
  BY <1>1 DEF At, VpnInv
<1>3. todo' \in [Tasks -> Seq(Conns)]
  BY <1>1 DEF ListInv
<1>4. \A u \in Tasks : todo'[u] # <<>> <=> pc'[u] = "conn"
  <2>1. statConnections # <<>> <=> Stage(statConnections, statServer', connection) = "conn"
    BY DEF Stage
  <2>2. ASSUME NEW u \in Tasks PROVE todo'[u] # <<>> <=> pc'[u] = "conn"
    <3>1. CASE u = t
      BY <1>1, <1>2, <2>1, <3>1 DEF ListInv
    <3>2. CASE u # t
      BY <1>1, <1>2, <3>2 DEF ListInv
    <3> QED BY <3>1, <3>2
  <2> QED BY <2>2
<1>5. \A c : Held(c)' <=> Held(c) \/ c \in Range(statConnections)
  <2>1. Range(<<>>) = {}
    BY DEF Range
  <2>2. \A u \in Tasks : todo'[u] = IF u = t THEN statConnections ELSE todo[u]
    BY <1>1 DEF ListInv
  <2> QED BY <1>1, <2>1, <2>2 DEF Held
<1>6. /\ statConnections' \in Seq(Conns) /\ Once(statConnections')
      /\ Range(statConnections') = {}
  BY <1>1 DEF Once, Range
<1> QED BY <1>3, <1>4, <1>5, <1>6 DEF ListInv

\* A connection has ended: the list is without it, and the others are as before.
LEMMA ListForgets ==
  ASSUME ListInv, NEW c, live' = live \ {c}, statConnections' = forget(statConnections, c),
         \A d : d # c => (Held(d)' <=> Held(d)),
         todo' \in [Tasks -> Seq(Conns)],
         \A t \in Tasks : todo'[t] # <<>> <=> pc'[t] = "conn"
  PROVE  ListInv'
<1>1. /\ statConnections' \in Seq(Conns) /\ Once(statConnections')
      /\ Range(statConnections') = Range(statConnections) \ {c}
  BY OnceRemoveFirst DEF ListInv, forget
<1> QED BY <1>1 DEF ListInv

\* The end of a connection keeps the list exact.
LEMMA ListCloses == ASSUME ListInv, VpnInv, NEW t \in Tasks, ConnClosed(t) PROVE ListInv'
<1> DEFINE rest == Tail(todo[t])
           c == Head(todo[t])
<1>1. /\ pc[t] = "conn" /\ live' = live \ {c} /\ statConnections' = forget(statConnections, c)
      /\ todo' = [todo EXCEPT ![t] = rest]
      /\ pc' = [pc EXCEPT ![t] = Stage(rest, statServer, connection)]
  BY DEF ConnClosed, Proceed, At
<1>2. /\ todo \in [Tasks -> Seq(Conns)] /\ pc \in [Tasks -> Labels]
      /\ todo[t] \in Seq(Conns) /\ todo[t] # <<>>
  BY <1>1 DEF ListInv, VpnInv
<1>3. rest \in Seq(Conns) /\ Range(todo[t]) = Range(rest) \cup {c}
  BY <1>2, HeadTailRange
<1> HIDE DEF rest, c
<1>4. \A u \in Tasks : todo'[u] = IF u = t THEN rest ELSE todo[u]
  BY <1>1, <1>2
<1>5. \A d : d # c => (Held(d)' <=> Held(d))
  <2>1. \A d : Held(d)' <=> \E u \in Tasks : d \in Range(todo'[u])
    BY DEF Held
  <2> QED BY <1>3, <1>4, <2>1 DEF Held
<1>6. todo' \in [Tasks -> Seq(Conns)]
  BY <1>1, <1>2, <1>3
<1>7. \A u \in Tasks : todo'[u] # <<>> <=> pc'[u] = "conn"
  <2>1. rest # <<>> <=> Stage(rest, statServer, connection) = "conn"
    BY DEF Stage
  <2>2. \A u \in Tasks : pc'[u] = IF u = t THEN Stage(rest, statServer, connection) ELSE pc[u]
    BY <1>1, <1>2
  <2> QED BY <1>4, <2>1, <2>2 DEF ListInv
<1> QED BY <1>1, <1>5, <1>6, <1>7, ListForgets

\* The statistics endpoint: a connection comes, ends, or brings a sample.
LEMMA ListServes == ASSUME ListInv, StatEvents PROVE ListInv'
<1>1. ASSUME NEW c \in Conns, onStatConnection(c) PROVE ListInv'
  <2>1. /\ c \notin live /\ live' = live \cup {c} /\ ~Held(c)
        /\ statConnections' = Append(statConnections, c) /\ UNCHANGED <<pc, todo>>
    BY <1>1 DEF onStatConnection
  <2>2. /\ statConnections' \in Seq(Conns) /\ Once(statConnections')
        /\ Range(statConnections') = Range(statConnections) \cup {c}
    BY <2>1, OnceAppend DEF ListInv
  <2>3. \A d : Held(d)' <=> Held(d)
    BY <2>1 DEF Held
  <2> QED BY <2>1, <2>2, <2>3 DEF ListInv
<1>2. ASSUME NEW c \in Conns, StatEnds(c) PROVE ListInv'
  <2>1. /\ live' = live \ {c} /\ statConnections' = forget(statConnections, c)
        /\ UNCHANGED <<pc, todo>>
    BY <1>2 DEF StatEnds
  <2>2. \A d : Held(d)' <=> Held(d)
    BY <2>1 DEF Held
  <2> QED BY <2>1, <2>2, ListForgets DEF ListInv
<1>3. CASE (\E c \in Conns : StatMessage(c)) \/ IntervalOver
  BY <1>3, ListCalm DEF StatMessage, IntervalOver, system
<1> QED BY <1>1, <1>2, <1>3 DEF StatEvents

\* deployAcl and startTunFd go on, or tear down.
LEMMA ListOfCreate ==
  ASSUME ListInv, VpnInv, pc["onCreate"] # "conn", UNCHANGED live,
         \/ deployAcl \/ Serve \/ Catch \/ startTunFd
         \/ /\ At("onCreate", "protect") \/ At("onCreate", "close") \/ At("onCreate", "listen")
               \/ At("onCreate", "aborted") \/ At("onCreate", "create")
            /\ UNCHANGED <<todo, statConnections>>
  PROVE  ListInv'
<1>1. "onCreate" \in Tasks
  BY DEF Tasks
<1>2. CASE teardown("onCreate")
  BY <1>1, <1>2, ListTakenOver
<1>3. ASSUME NEW label, label # "conn", At("onCreate", label), UNCHANGED <<todo, statConnections>>
      PROVE  ListInv'
  BY <1>1, <1>3, ListGoesOn
<1> QED BY <1>2, <1>3 DEF deployAcl, Serve, Catch, startTunFd

\* An await settles.
LEMMA ListSettles ==
  ASSUME ListInv, VpnInv, Creating \/ \E t \in Tasks : Teardown(t)
  PROVE  ListInv'
<1>1. CASE Creating
  <2>1. pc["onCreate"] # "conn" /\ UNCHANGED live
    BY <1>1 DEF Creating, VpnCreated, VpnFails, Protected, AclRead, StatListens, PortTaken,
                PortGivenUp, system
  <2> QED
    BY <1>1, <2>1, ListOfCreate
       DEF Creating, VpnCreated, VpnFails, Protected, AclRead, StatListens, PortTaken, PortGivenUp
<1>2. ASSUME NEW t \in Tasks, Teardown(t) PROVE ListInv'
  <2>1. CASE ServerClosed(t)
    <3>1. PICK stage : stage = Stage(<<>>, None, connection) /\ At(t, stage)
      BY <2>1 DEF ServerClosed, Proceed
    <3>2. stage # "conn" /\ pc[t] # "conn" /\ UNCHANGED <<todo, statConnections, live>>
      BY <2>1, <3>1 DEF ServerClosed, Stage
    <3> QED BY <3>1, <3>2, ListGoesOn
  <2>2. CASE VpnDestroyed(t)
    BY <2>2, ListGoesOn DEF VpnDestroyed, Proceed
  <2>3. CASE VpnDestroyThrows(t)
    <3>1. pc[t] # "conn" /\ UNCHANGED live
      BY <2>3 DEF VpnDestroyThrows, system
    <3> QED BY <2>3, <3>1, ListGoesOn, ListTakenOver DEF VpnDestroyThrows
  <2> QED BY <1>2, <2>1, <2>2, <2>3, ListCloses DEF Teardown
<1> QED BY <1>1, <1>2

\* Another process, or the first: nothing is connected.
LEMMA ListBegins ==
  ASSUME pc' = [t \in Tasks |-> "none"], todo' = [t \in Tasks |-> <<>>],
         statConnections' = <<>>, live' = {}
  PROVE  ListInv'
<1>1. todo' \in [Tasks -> Seq(Conns)]
  OBVIOUS
<1> QED BY <1>1 DEF ListInv, Once, Range

\* onStatConnection: over any number of connections, teardowns and sessions, the
\* list holds the open connections that no teardown has taken over, each once.
THEOREM ListKept == AppSpec => []ListExact
<1>1. AppInit => ListInv
  <2> SUFFICES ASSUME Init PROVE ListInv
    BY DEF AppInit
  <2>1. todo \in [Tasks -> Seq(Conns)] /\ statConnections = <<>> /\ live = {}
        /\ \A t \in Tasks : todo[t] = <<>> /\ pc[t] = "none"
    BY DEF Init
  <2> QED BY <2>1 DEF ListInv, Once, Range
<1>2. ListInv /\ VpnInv /\ [Next]_vars => ListInv'
  <2> SUFFICES ASSUME ListInv, VpnInv, [Next]_vars PROVE ListInv'
    OBVIOUS
  <2>1. ASSUME NEW p \in Profiles \cup {None}, onCreate(p) PROVE ListInv'
    <3>1. pc["onCreate"] # "conn" /\ UNCHANGED <<todo, statConnections, live>>
      BY <2>1 DEF onCreate, system
    <3> QED BY <2>1, <3>1, ListOfCreate DEF onCreate
  <2>2. CASE onDestroy
    <3>1. pc["onDestroy"] # "conn" /\ UNCHANGED live /\ "onDestroy" \in Tasks
      BY <2>2 DEF onDestroy, system, Tasks
    <3> QED BY <2>2, <3>1, ListTakenOver DEF onDestroy
  <2>3. CASE CoreEnds \/ UNCHANGED vars
    BY <2>3, ListCalm DEF CoreEnds, vars, system
  <2>4. CASE ProcessEnds
    BY <2>4, ListBegins DEF ProcessEnds
  <2> QED BY <2>1, <2>2, <2>3, <2>4, ListSettles, ListServes DEF Next
<1>3. ListInv => ListExact
  BY OnceCardinality DEF ListInv, ListExact
<1> QED BY <1>1, <1>2, <1>3, VpnInvariance, AppStep, PTL DEF AppSpec

-----------------------------------------------------------------------------
(* The polling timer of the page.                                          *)


HandlersType == handlers \in [Calls -> Nat]

\* A page that went while no connect was waiting has no connect waiting later.
NoLateStart == gone /\ ~overtaken => ~Pending(Starts)

PollInv == HandlersType /\ OnePoller /\ PollerEndsWithPage /\ NoLateStart

\* A call moves on: the number of handlers stays a number, and a connect is
\* waiting afterwards only if one was before.
LEMMA GoesOn ==
  ASSUME HandlersType, NEW from \in Calls, NEW to \in Calls, Goes(from, to),
         to \in Starts => from \in Starts
  PROVE  HandlersType' /\ (Pending(Starts)' => Pending(Starts))
<1> USE DEF Goes, HandlersType
<1>1. HandlersType'
  OBVIOUS
<1>2. ASSUME Pending(Starts)' PROVE Pending(Starts)
  <2>1. PICK c \in Starts : handlers'[c] > 0
    BY <1>2 DEF Pending
  <2>2. CASE to \in Starts
    BY <2>2 DEF Pending
  <2>3. CASE to \notin Starts
    BY <2>1, <2>3 DEF Pending, Calls, Starts
  <2> QED
    BY <2>2, <2>3
<1> QED
  BY <1>1, <1>2

\* A handler returns: likewise.
LEMMA ReturnsOn ==
  ASSUME HandlersType, NEW c \in Calls, Returns(c)
  PROVE  HandlersType' /\ (Pending(Starts)' => Pending(Starts))
<1> USE DEF Returns, HandlersType
<1>1. HandlersType'
  OBVIOUS
<1>2. ASSUME Pending(Starts)' PROVE Pending(Starts)
  <2>1. PICK d \in Starts : handlers'[d] > 0
    BY <1>2 DEF Pending
  <2> QED
    BY <2>1 DEF Pending, Calls, Starts
<1> QED
  BY <1>1, <1>2

\* A step that leaves the timer and the page alone, and starts no connect.
LEMMA Elsewhere ==
  ASSUME PollInv, UNCHANGED <<connected, statsTimer, intervals, gone, overtaken>>,
         HandlersType' /\ (Pending(Starts)' => Pending(Starts))
  PROVE  PollInv'
BY DEF PollInv, OnePoller, PollerEndsWithPage, NoLateStart

\* connect() goes on behind its awaits: with the timer that ran before cleared,
\* the new one is the only one.
LEMMA StartedPoll == ASSUME PollInv, Started PROVE PollInv'
<1>1. HandlersType' /\ (Pending(Starts)' => Pending(Starts))
  BY ReturnsOn DEF PollInv, Started, Calls, Starts
<1>2. OnePoller'
  BY DEF PollInv, OnePoller, Started, startStatsPolling
<1>3. Pending(Starts)
  BY DEF Started, Returns, Pending, Starts
<1>4. ~(gone' /\ ~overtaken')
  BY <1>3 DEF PollInv, NoLateStart, Started
<1> QED
  BY <1>1, <1>2, <1>4 DEF PollInv, PollerEndsWithPage, NoLateStart

\* disconnect() clears the timer, however the stop has ended.
LEMMA StoppedPoll == ASSUME PollInv, Stopped PROVE PollInv'
<1>1. HandlersType' /\ (Pending(Starts)' => Pending(Starts))
  BY ReturnsOn DEF PollInv, Stopped, Calls, Stops
<1>2. intervals' = {}
  BY DEF PollInv, OnePoller, Stopped, stopStatsPolling
<1> QED
  BY <1>1, <1>2
     DEF PollInv, OnePoller, PollerEndsWithPage, NoLateStart, Stopped

\* A click on a page that is there.
LEMMA ClickPoll == ASSUME PollInv, Click PROVE PollInv'
<1>1. ~gone' /\ UNCHANGED <<connected, statsTimer, intervals>>
  BY DEF Click
<1>2. HandlersType'
  <2>1. PICK c \in Calls : handlers' = [handlers EXCEPT ![c] = @ + 1]
    BY DEF Click, Calls, Starts, Stops
  <2> QED
    BY <2>1 DEF PollInv, HandlersType
<1> QED
  BY <1>1, <1>2 DEF PollInv, OnePoller, PollerEndsWithPage, NoLateStart

\* The page goes, and remembers whether a connect is waiting.
LEMMA DisappearPoll == ASSUME PollInv, aboutToDisappear PROVE PollInv'
<1>1. intervals' = {} /\ overtaken' = Pending(Starts) /\ handlers' = handlers
  BY DEF PollInv, OnePoller, aboutToDisappear, stopStatsPolling
<1> QED
  BY <1>1 DEF PollInv, HandlersType, OnePoller, PollerEndsWithPage, NoLateStart, Pending

\* The invariant of the polling timer.
THEOREM PollInvariance == AppSpec => []PollInv
<1>1. AppInit => PollInv
  BY DEF AppInit, PollInv, HandlersType, OnePoller, PollerEndsWithPage, NoLateStart
<1>2. PollInv /\ [AppNext]_app => PollInv'
  <2> SUFFICES ASSUME PollInv, [AppNext]_app PROVE PollInv'
    OBVIOUS
  <2>1. CASE Page
    <3>1. CASE StartRejected
      <4>1. HandlersType' /\ (Pending(Starts)' => Pending(Starts))
        BY <3>1, GoesOn, ReturnsOn DEF PollInv, StartRejected, Calls, Starts
      <4> QED
        BY <3>1, <4>1, Elsewhere DEF StartRejected
    <3> QED
      BY <2>1, <3>1, StartedPoll, StoppedPoll, ClickPoll, DisappearPoll DEF Page
  <2>2. ASSUME NEW call \in {"start", "retry", "stop"}, Served(call) PROVE PollInv'
    <3>1. HandlersType' /\ (Pending(Starts)' => Pending(Starts))
      BY <2>2, GoesOn DEF PollInv, Served, Resolves, Calls, Starts, Stops
    <3> QED
      BY <2>2, <3>1, Elsewhere DEF Served
  <2>3. CASE SystemStops \/ Create \/ Destroy \/ Replaced \/ Extension \/ UNCHANGED app
    <3>1. UNCHANGED page
      BY <2>3 DEF SystemStops, Create, Destroy, Replaced, Extension, app
    <3> QED
      BY <3>1, Elsewhere DEF page, PollInv, HandlersType, Pending
  <2> QED
    BY <2>1, <2>2, <2>3 DEF AppNext
<1> QED
  BY <1>1, <1>2, PTL DEF AppSpec

\* startStatsPolling: however many connects and disconnects overlap and in
\* whatever order they are answered, at most the page's own timer fires, and only
\* while the page says that it is connected.
THEOREM TimerOwned == AppSpec => []OnePoller
<1>1. PollInv => OnePoller
  BY DEF PollInv
<1> QED
  BY <1>1, PollInvariance, PTL

\* aboutToDisappear: the page leaves no timer, unless connect was waiting.
THEOREM TimerEnds == AppSpec => []PollerEndsWithPage
<1>1. PollInv => PollerEndsWithPage
  BY DEF PollInv
<1> QED
  BY <1>1, PollInvariance, PTL

-----------------------------------------------------------------------------
(* What the page shows.                                                    *)

\* Without a crossing, answers under way agree with what the system was last told.
ShownInv ==
  /\ HandlersType /\ {crossed, stopFailed, wanted} \subseteq BOOLEAN
  /\ ~crossed => ~(Pending(Starts) /\ Pending(Stops))
  /\ ~crossed /\ handlers["stopped"] > 0 => ~wanted
  /\ wanted /\ ~stopFailed /\ ~crossed => connected \/ handlers["started"] > 0

\* The number of handlers at each call, and what waits, after a step.
LEMMA Moves ==
  ASSUME HandlersType, NEW from \in Calls, NEW to \in Calls, from # to, Goes(from, to)
  PROVE  /\ handlers' \in [Calls -> Nat] /\ handlers'[to] > 0
         /\ \A c \in Calls : c # to /\ handlers'[c] > 0 => handlers[c] > 0
         /\ \A c \in Calls \ {from, to} : handlers'[c] = handlers[c]
BY DEF Goes, HandlersType

\* A call that returns has one handler less, the others keep theirs.
LEMMA Leaves ==
  ASSUME HandlersType, NEW from \in Calls, Returns(from)
  PROVE  /\ handlers' \in [Calls -> Nat] /\ handlers[from] > 0
         /\ \A c \in Calls : handlers'[c] > 0 => handlers[c] > 0
         /\ \A c \in Calls \ {from} : handlers'[c] = handlers[c]
BY DEF Returns, HandlersType

\* A click keeps what is shown in step with what was asked for.
LEMMA ClickShown == ASSUME ShownInv, Click PROVE ShownInv'
<1>1. PICK c \in {"start", "stop"} :
        /\ handlers' = [handlers EXCEPT ![c] = @ + 1]
        /\ c = (IF connected THEN "stop" ELSE "start")
  BY DEF Click
<1>2. /\ handlers' \in [Calls -> Nat]
      /\ \A d \in Calls \ {c} : handlers'[d] = handlers[d]
  BY <1>1 DEF ShownInv, HandlersType, Calls, Starts, Stops
<1>3. /\ UNCHANGED <<connected, wanted, stopFailed>>
      /\ crossed' = (crossed \/ Pending(IF connected THEN Starts ELSE Stops))
  BY DEF Click
<1>4. crossed' \in BOOLEAN /\ (~crossed' => ~crossed)
  BY <1>3 DEF ShownInv, Pending
<1>5. ~crossed' => ~(Pending(Starts)' /\ Pending(Stops)')
  <2>1. c = "start" => UNCHANGED Pending(Stops)
    BY <1>2 DEF Pending, Calls, Starts, Stops
  <2>2. c = "stop" => UNCHANGED Pending(Starts)
    BY <1>2 DEF Pending, Calls, Starts, Stops
  <2> QED
    BY <1>1, <1>3, <2>1, <2>2
<1>6. handlers'["stopped"] = handlers["stopped"] /\ handlers'["started"] = handlers["started"]
  BY <1>2 DEF Calls, Starts, Stops
<1> QED
  BY <1>2, <1>3, <1>4, <1>5, <1>6 DEF ShownInv, HandlersType

\* A start that succeeds does.
LEMMA StartedShown == ASSUME ShownInv, Started PROVE ShownInv'
<1>1. /\ Returns("started") /\ connected' = TRUE /\ stopFailed' = FALSE
      /\ UNCHANGED <<wanted, crossed>>
  BY DEF Started
<1>2. /\ handlers' \in [Calls -> Nat]
      /\ \A c \in Calls : handlers'[c] > 0 => handlers[c] > 0
  BY <1>1, Leaves DEF ShownInv, Calls, Starts
<1>3. (Pending(Starts)' => Pending(Starts)) /\ (Pending(Stops)' => Pending(Stops))
  BY <1>2 DEF Pending, Calls
<1> QED
  BY <1>1, <1>2, <1>3 DEF ShownInv, HandlersType, Calls, Stops

\* A start that is rejected does.
LEMMA RejectedShown == ASSUME ShownInv, StartRejected PROVE ShownInv'
<1>1. UNCHANGED <<connected, wanted, crossed, stopFailed>>
  BY DEF StartRejected
<1>2. /\ handlers' \in [Calls -> Nat]
      /\ UNCHANGED <<handlers["started"], handlers["stopped"], handlers["stop"]>>
      /\ Pending(Starts)' => Pending(Starts)
  <2>1. CASE Goes("start", "retry")
    <3>1. /\ handlers["start"] > 0 /\ handlers' \in [Calls -> Nat]
          /\ \A c \in Calls \ {"start", "retry"} : handlers'[c] = handlers[c]
      BY <2>1, Moves DEF ShownInv, Goes, Calls, Starts
    <3> QED
      BY <3>1 DEF Pending, Calls, Starts, Stops
  <2>2. CASE Returns("retry")
    <3>1. /\ handlers["retry"] > 0 /\ handlers' \in [Calls -> Nat]
          /\ \A c \in Calls \ {"retry"} : handlers'[c] = handlers[c]
      BY <2>2, Leaves DEF ShownInv, Calls, Starts
    <3> QED
      BY <3>1 DEF Pending, Calls, Starts, Stops
  <2> QED
    BY <2>1, <2>2 DEF StartRejected
<1>3. Pending(Stops)' => Pending(Stops)
  BY <1>2 DEF Pending, Stops
<1> QED
  BY <1>1, <1>2, <1>3 DEF ShownInv, HandlersType

\* An accepted stop agrees with what was last told, or there was a crossing.
LEMMA StoppedShown == ASSUME ShownInv, Stopped PROVE ShownInv'
<1>1. PICK c \in Stops :
        Returns(c) /\ (c = "stopped" => UNCHANGED stopFailed) /\ (c = "stop" => stopFailed' = TRUE)
  BY DEF Stopped, Stops
<1>2. UNCHANGED <<wanted, crossed>>
  BY DEF Stopped
<1>3. /\ handlers' \in [Calls -> Nat] /\ handlers[c] > 0
      /\ \A d \in Calls : handlers'[d] > 0 => handlers[d] > 0
  BY <1>1, Leaves DEF ShownInv, Calls
<1>4. (Pending(Starts)' => Pending(Starts)) /\ (Pending(Stops)' => Pending(Stops))
  BY <1>3 DEF Pending, Calls
<1>5. handlers'["stopped"] > 0 => handlers["stopped"] > 0
  BY <1>3 DEF Calls, Stops
<1>6. stopFailed' \in BOOLEAN /\ (wanted /\ ~stopFailed' => crossed)
  BY <1>1, <1>3 DEF ShownInv, Stops
<1> QED
  BY <1>2, <1>3, <1>4, <1>5, <1>6 DEF ShownInv, HandlersType

\* A call is carried out: alone, it settles what will be shown.
LEMMA ServedShown ==
  ASSUME ShownInv, NEW call \in {"start", "retry", "stop"}, Served(call)
  PROVE  ShownInv'
<1> DEFINE to == IF call = "stop" THEN "stopped" ELSE "started"
<1>1. /\ Goes(call, to) /\ handlers[call] > 0
      /\ UNCHANGED <<connected, stopFailed>> /\ wanted' = (call # "stop")
      /\ crossed' = (crossed /\ Pending(Starts) /\ Pending(Stops))
  BY DEF Served, Resolves, Goes
<1>2. /\ handlers' \in [Calls -> Nat] /\ handlers'[to] > 0
      /\ \A c \in Calls : c # to /\ handlers'[c] > 0 => handlers[c] > 0
  BY <1>1, Moves DEF ShownInv, Calls, Starts, Stops
<1>3. (Pending(Starts)' => Pending(Starts)) /\ (Pending(Stops)' => Pending(Stops))
  BY <1>1, <1>2 DEF Pending, Calls, Starts, Stops
<1>4. crossed' \in BOOLEAN /\ (~crossed' => ~(Pending(Starts) /\ Pending(Stops)))
  BY <1>1 DEF ShownInv, Pending
<1>5. CASE call = "stop"
  BY <1>1, <1>2, <1>3, <1>4, <1>5 DEF ShownInv, HandlersType
<1>6. CASE call # "stop"
  <2>1. Pending(Starts)
    BY <1>1, <1>6 DEF Pending, Starts
  <2>2. handlers'["stopped"] > 0 => Pending(Stops)
    BY <1>2, <1>6 DEF Pending, Calls, Stops
  <2> QED
    BY <1>1, <1>2, <1>3, <1>4, <1>6, <2>1, <2>2 DEF ShownInv, HandlersType
<1> QED
  BY <1>5, <1>6

\* connect: an accepted start is shown, at whichever attempt, for any number of
\* clicks; what is excepted is a refused stop, and a crossing since which no call
\* was carried out alone.
THEOREM StartShown == AppSpec => []UpIsShown
<1>1. AppInit => ShownInv
  <2> SUFFICES ASSUME AppInit PROVE ShownInv
    OBVIOUS
  <2>1. handlers \in [Calls -> Nat] /\ \A c \in Calls : handlers[c] = 0
    BY DEF AppInit
  <2>2. ~Pending(Starts) /\ ~Pending(Stops) /\ ~(handlers["stopped"] > 0)
    BY <2>1 DEF Pending, Calls, Starts, Stops
  <2> QED
    BY <2>1, <2>2 DEF AppInit, ShownInv, HandlersType
<1>2. ShownInv /\ [AppNext]_app => ShownInv'
  <2> SUFFICES ASSUME ShownInv, [AppNext]_app PROVE ShownInv'
    OBVIOUS
  <2>1. CASE aboutToDisappear
    BY <2>1 DEF aboutToDisappear, ShownInv, HandlersType, Pending
  <2>2. CASE SystemStops \/ Create \/ Destroy \/ Replaced \/ Extension \/ UNCHANGED app
    <3>1. UNCHANGED page
      BY <2>2 DEF SystemStops, Create, Destroy, Replaced, Extension, app
    <3>2. wanted' \in BOOLEAN /\ (wanted' => wanted)
      <4>1. CASE Replaced
        <5>1. wanted' = (wanted /\ pc["onDestroy"] # "none")
          BY <4>1 DEF Replaced
        <5> QED
          BY <5>1, Zenon
      <4>2. CASE UNCHANGED wanted
        BY <4>2 DEF ShownInv
      <4>3. CASE SystemStops
        BY <4>3 DEF SystemStops
      <4> QED
        BY <2>2, <4>1, <4>2, <4>3 DEF Create, Destroy, Extension, app
    <3> QED
      BY <3>1, <3>2 DEF page, ShownInv, HandlersType, Pending
  <2> QED
    BY <2>1, <2>2, ClickShown, StartedShown, RejectedShown, StoppedShown, ServedShown
       DEF AppNext, Page
<1>3. ShownInv => UpIsShown
  BY DEF ShownInv, UpIsShown, Pending, Calls, Starts
<1> QED
  BY <1>1, <1>2, <1>3, PTL DEF AppSpec
=============================================================================

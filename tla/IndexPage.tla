------------------------------ MODULE IndexPage ------------------------------
(***************************************************************************)
(* The connect toggle and the statistics polling of the main page          *)
(* (entry/src/main/ets/pages/Index.ets), composed with the extension that  *)
(* they start and stop.                                                    *)
(*                                                                         *)
(* connect() and disconnect() wait for the system, and the button can be   *)
(* pressed again meanwhile, so that several handlers are under way at      *)
(* once.  The system carries a call out and answers it later, and answers  *)
(* may overtake each other.  It remembers in `wanted` what it was last     *)
(* told, creates the extension accordingly and destroys it.  It may also   *)
(* stop the extension by itself; the page is not told.                     *)
(***************************************************************************)
EXTENDS VpnExtension

CONSTANTS MaxHandlers,  \* bound on the click handlers under way at a time
          MaxClicks     \* bound on the clicks

VARIABLES
  handlers,     \* how many click handlers wait for each call, at each of its stages
  connected,    \* a @State of the page
  statsTimer,   \* None is -1
  intervals,    \* the system: timers that fire
  gone,         \* aboutToDisappear has run
  wanted,       \* the system: the extension is to be up
  clicks,
  overtaken,    \* history: the page went while connect was waiting
  crossed,      \* history: a start and a stop overlapped, and none has been carried out alone since
  stopFailed    \* history: since the last start the system has refused to stop the extension

page == <<handlers, connected, statsTimer, intervals, gone, clicks, overtaken, crossed,
          stopFailed>>
app == <<vars, page, wanted>>

\* startVpnExtensionAbility at the first and at the second attempt, and carried
\* out but not yet answered; the same of stopVpnExtensionAbility.
Starts == {"start", "retry", "started"}
Stops == {"stop", "stopped"}
Calls == Starts \cup Stops

\* Identifiers are used again: there are never more timers than clicks.
TimerIds == {"t1", "t2", "t3"}

AppInit ==
  /\ Init
  /\ handlers = [call \in Calls |-> 0]
  /\ connected = FALSE /\ statsTimer = None /\ intervals = {} /\ gone = FALSE
  /\ wanted = FALSE /\ clicks = 0
  /\ overtaken = FALSE /\ crossed = FALSE /\ stopFailed = FALSE

UnderWay == FoldFunction(+, 0, handlers)

Pending(calls) == \E call \in calls : handlers[call] > 0

Goes(from, to) ==
  /\ handlers[from] > 0
  /\ handlers' = [handlers EXCEPT ![from] = @ - 1, ![to] = @ + 1]

Returns(call) ==
  /\ handlers[call] > 0
  /\ handlers' = [handlers EXCEPT ![call] = @ - 1]

-----------------------------------------------------------------------------
(* The page.                                                               *)

\* A click, with a usable profile selected; without one connect() says so.
Click ==
  /\ ~gone /\ clicks < MaxClicks /\ UnderWay < MaxHandlers
  /\ clicks' = clicks + 1
  /\ handlers' = [handlers EXCEPT ![IF connected THEN "stop" ELSE "start"] = @ + 1]
  /\ crossed' = (crossed \/ Pending(IF connected THEN Starts ELSE Stops))
  /\ UNCHANGED <<vars, connected, statsTimer, intervals, gone, wanted, overtaken,
                 stopFailed>>

\* Mutant: the timer is forgotten, not cleared.
stopStatsPolling_forgotten == statsTimer' = None /\ UNCHANGED intervals

stopStatsPolling == statsTimer' = None /\ intervals' = intervals \ {statsTimer}

\* Mutant: a timer that runs already is not cleared.
startStatsPolling_twice ==
  /\ statsTimer' = CHOOSE t \in TimerIds : t \notin intervals
  /\ intervals' = intervals \cup {statsTimer'}

\* stopStatsPolling, then setInterval, which gives an identifier not in use.
startStatsPolling ==
  /\ statsTimer' = CHOOSE t \in TimerIds : t \notin intervals \ {statsTimer}
  /\ intervals' = (intervals \ {statsTimer}) \cup {statsTimer'}

\* startVpnExtensionAbility resolves, whichever attempt it was.
Started ==
  /\ Returns("started")
  /\ connected' = TRUE /\ startStatsPolling
  /\ stopFailed' = FALSE
  /\ UNCHANGED <<vars, gone, wanted, clicks, overtaken, crossed>>

\* It rejects: once more after another grant, then no more.
StartRejected ==
  /\ Goes("start", "retry") \/ Returns("retry")
  /\ UNCHANGED <<vars, connected, statsTimer, intervals, gone, wanted, clicks, overtaken,
                 crossed, stopFailed>>

\* stopVpnExtensionAbility settles; an error changes nothing for the page.
Stopped ==
  /\ \/ Returns("stopped") /\ UNCHANGED stopFailed
     \/ Returns("stop") /\ stopFailed' = TRUE
  /\ connected' = FALSE /\ stopStatsPolling
  /\ UNCHANGED <<vars, gone, wanted, clicks, overtaken, crossed>>

aboutToDisappear ==
  /\ ~gone /\ gone' = TRUE /\ clicks' = 0
  /\ overtaken' = Pending(Starts)
  /\ stopStatsPolling
  /\ UNCHANGED <<vars, handlers, connected, wanted, crossed, stopFailed>>

-----------------------------------------------------------------------------
(* The system.                                                             *)

\* Mutant: the return stands after the inner try, and ends a retry that succeeds.
Resolves_first(call) ==
  CASE call = "start" -> Goes(call, "started")
    [] call = "retry" -> Returns(call)
    [] call = "stop" -> Goes(call, "stopped")

\* What is left of the handler: to go on behind the inner or the outer try.
Resolves(call) == Goes(call, IF call = "stop" THEN "stopped" ELSE "started")

\* The system carries a call out.
Served(call) ==
  /\ Resolves(call)
  /\ wanted' = (call # "stop")
  /\ crossed' = (crossed /\ Pending(Starts) /\ Pending(Stops))
  /\ UNCHANGED <<vars, connected, statsTimer, intervals, gone, clicks, overtaken, stopFailed>>

\* The user withdraws the VPN in the settings, or the system needs the memory.
SystemStops ==
  /\ wanted /\ wanted' = FALSE
  /\ UNCHANGED <<vars, page>>

Create == wanted /\ (\E p \in Profiles \cup {None} : onCreate(p)) /\ UNCHANGED <<page, wanted>>

Destroy == ~wanted /\ onDestroy /\ UNCHANGED <<page, wanted>>

\* Killed, the extension is not created again unless the system was told to
\* after it had been destroyed.
Replaced ==
  /\ ProcessEnds
  /\ wanted' = (wanted /\ pc["onDestroy"] # "none")
  /\ UNCHANGED page

\* The steps the extension takes by itself.
Extension ==
  /\ Creating \/ StatEvents \/ CoreEnds \/ \E t \in Tasks : Teardown(t)
  /\ UNCHANGED <<page, wanted>>

Page == \/ Click \/ Started \/ StartRejected \/ Stopped
        \/ aboutToDisappear

AppNext == \/ Page \/ (\E call \in {"start", "retry", "stop"} : Served(call)) \/ SystemStops
           \/ Create \/ Destroy \/ Replaced \/ Extension

\* The calls of the extension settle, and the system carries out what it was told.
AppSpec == /\ AppInit /\ [][AppNext]_app
           /\ WF_app(Creating /\ UNCHANGED <<page, wanted>>)
           /\ \A t \in Tasks : WF_app(Teardown(t) /\ UNCHANGED <<page, wanted>>)
           /\ WF_app(Destroy)

-----------------------------------------------------------------------------

\* startStatsPolling, disconnect: no timer fires that the page could not clear,
\* and none once the page says that it is disconnected, however the clicks and
\* their answers interleave.
OnePoller ==
  /\ intervals \subseteq {statsTimer}
  /\ intervals # {} => connected

\* aboutToDisappear: a page that is gone polls no more, unless connect was
\* waiting when it went: then startStatsPolling comes after the last clearing.
PollerEndsWithPage == gone /\ ~overtaken => intervals = {}

\* connect: when no call is under way, a VPN that the system keeps up is shown as
\* connected, at whichever attempt it was started.  Except after the system has
\* refused to stop it, which disconnect shows as disconnected all the same, and
\* except when a start and a stop overlapped and the answers crossed.
UpIsShown ==
  wanted /\ ~stopFailed /\ ~crossed /\ ~Pending(Calls) => connected

\* disconnect: once the system has accepted the stop, core, VPN interface and
\* statistics port go away, also after the core has ended by itself, unless the
\* VPN is started again, destroy() fails or onDestroy came while onCreate waited.
StopTakesDown ==
  (~wanted /\ pc["onCreate"] # "none") ~>
     \/ wanted \/ late \/ pc["onDestroy"] = "failed"
     \/ ~on /\ ~iface /\ listening = None
=============================================================================

--------------------------- MODULE DisplaySession ---------------------------
(***************************************************************************)
(* The daemon's view of the display (display.c), the main loop that loads  *)
(* the enabled plugins into it and shuts down when they are unloaded       *)
(* (main.c, API_ShutdownPlugins), and the pages (display.js).              *)
(*                                                                         *)
(* Callbacks run inside lws_service, which the main loop calls once per    *)
(* turn; between two calls the main loop compares what it sees with what   *)
(* it saw the turn before.                                                 *)
(***************************************************************************)
EXTENDS Integers, Sequences, FiniteSets, SequencesExt

CONSTANTS Plugins,
          Pages,           \* pages; each is opened at most once
          NoPage,          \* displaySocketInstance = NULL
          Circumstances,   \* what may happen besides, see Unusual
          MaxLeaves,       \* bound: pages the user closes
          MaxCalls         \* bound: enable and disable calls

ASSUME PagesAssumption == NoPage \notin Pages
ASSUME PluginsAssumption == IsFiniteSet(Plugins)

(* What separates a page that simply comes, stays and is told to load      *)
(* plugins from all that users do.                                         *)
(* "overlap": a page opens while another is still open.                    *)
(* "quick reload": a page closes and the next one says "ready" within one  *)
(*   call of lws_service.                                                  *)
(* "enable twice": enable is called for a plugin that is enabled.          *)
(* "race": an API call meets a page whose plugins are not loaded yet, or   *)
(*   calls and new pages come while the daemon shuts down.                 *)
Unusual == {"overlap", "quick reload", "enable twice", "race"}
ASSUME CircumstancesAssumption == Circumstances \subseteq Unusual
ASSUME BoundsAssumption == {MaxLeaves, MaxCalls} \subseteq Nat

VARIABLES enabled,         \* plugins with PLUGIN_FLAG_RENDER
          displaySocketInstance,
          displayConnected, loadedPlugins,
          oldWebStatus, pluginSent,        \* locals of daemonProcess
          shutdown,
          pc,              \* what the main thread does
          turn, todo,      \* API_ShutdownPlugins: the plugin at hand, the rest
          open,            \* sockets the daemon has not seen close
          readyReceived,   \* of these, those whose "ready" was received
          unused,          \* pages not opened yet
          alive,           \* pages the user has not closed
          pluginList,      \* pluginList[p]: plugins page p has loaded
          toPage, toDaemon,
          sawClose,        \* a socket closed during this lws_service
          crashed,         \* a NULL socket was dereferenced
          happened,        \* history: the circumstances that arose
          leaves, calls

seen == <<displaySocketInstance, displayConnected, loadedPlugins>>
loop == <<oldWebStatus, pluginSent, shutdown, pc, turn, todo>>
sockets == <<open, readyReceived, unused>>
net == <<toPage, toDaemon>>
bounds == <<leaves, calls>>
vars == <<enabled, seen, loop, sockets, alive, pluginList, net, sawClose,
          crashed, happened, bounds>>

(* Definitions named Fault... are faulty variants of the definition that   *)
(* follows them, each with one plausible mistake; no behaviour uses them.  *)

(* A step under certain circumstances, allowed or not by the constant. *)
Under(circumstances) ==
  /\ circumstances \subseteq Circumstances
  /\ happened' = happened \cup circumstances

When(happens, circumstance) == IF happens THEN {circumstance} ELSE {}

Messages == [cmd : {"load", "unload"}, pName : Plugins]

Init ==
  /\ enabled \in SUBSET Plugins
  /\ displaySocketInstance = NoPage
  /\ displayConnected = FALSE /\ loadedPlugins = 0
  /\ oldWebStatus = FALSE /\ pluginSent = FALSE /\ shutdown = FALSE
  /\ pc = "check" /\ turn = {} /\ todo = {}
  /\ open = {} /\ readyReceived = {} /\ unused = Pages /\ alive = {}
  /\ pluginList = [p \in Pages |-> {}]
  /\ toPage = [p \in Pages |-> <<>>] /\ toDaemon = [p \in Pages |-> <<>>]
  /\ sawClose = FALSE /\ crashed = FALSE
  /\ happened = {} /\ leaves = 0 /\ calls = 0

(* Display_IsDisplayConnected *)
IsDisplayConnected == displayConnected /\ displaySocketInstance # NoPage

(* Display_LoadPlugin or Display_UnloadPlugin for each of a set of enabled *)
(* plugins; nothing without a display.                                     *)
Bootstrap(cmd, plugins) ==
  toPage' = IF ~IsDisplayConnected THEN toPage
            ELSE [toPage EXCEPT ![displaySocketInstance] =
                    @ \o SetToSeq({[cmd |-> cmd, pName |-> x] : x \in plugins})]

FaultChanged == IsDisplayConnected /\ ~oldWebStatus

(* The display came or went since the last turn. *)
Changed == IsDisplayConnected # oldWebStatus

(* Does daemonProcess load the plugins this turn? *)
Loads == Changed /\ IsDisplayConnected /\ ~pluginSent

(* One turn of daemonProcess up to lws_service, or the end of its loop. *)
Check ==
  /\ pc = "check"
  /\ IF shutdown
       THEN /\ pc' = "disable" /\ todo' = Plugins
            /\ UNCHANGED <<oldWebStatus, pluginSent, toPage>>
       ELSE /\ Bootstrap("load", IF Loads THEN enabled ELSE {})
            /\ oldWebStatus' = IsDisplayConnected
            /\ pluginSent' = IF Changed THEN IsDisplayConnected ELSE pluginSent
            /\ pc' = "service"
            /\ UNCHANGED todo
  /\ UNCHANGED <<enabled, seen, shutdown, turn, sockets, alive, pluginList,
                 toDaemon, sawClose, crashed, happened, bounds>>

(* API_ShutdownPlugins, first loop: actionPluginDisable unloads a plugin   *)
(* and runs lws_service before it disables it.                             *)
ShutdownUnload ==
  /\ pc = "disable" /\ todo # {}
  /\ \E x \in todo :
       /\ Bootstrap("unload", {x} \cap enabled)
       /\ turn' = {x} /\ todo' = todo \ {x}
  /\ pc' = "update"
  /\ UNCHANGED <<enabled, seen, oldWebStatus, pluginSent, shutdown, sockets,
                 alive, pluginList, toDaemon, sawClose, crashed, happened, bounds>>

(* Second loop: wait until no plugin is loaded in the display. *)
Drain ==
  /\ \/ pc = "disable" /\ todo = {}
     \/ pc = "drain"
  /\ pc' = IF loadedPlugins = 0 THEN "stopped" ELSE "wait"
  /\ UNCHANGED <<enabled, seen, oldWebStatus, pluginSent, shutdown, turn, todo,
                 sockets, alive, pluginList, net, sawClose, crashed, happened, bounds>>

(* The main thread is in lws_service, called from one of three places. *)
InService == pc \in {"service", "update", "wait"} /\ ~crashed

EndService ==
  /\ InService
  /\ pc' = CASE pc = "service" -> "check"
             [] pc = "update" -> "disable"
             [] pc = "wait" -> "drain"
  /\ enabled' = enabled \ turn
  /\ turn' = {} /\ sawClose' = FALSE
  /\ UNCHANGED <<seen, oldWebStatus, pluginSent, shutdown, todo, sockets,
                 alive, pluginList, net, crashed, happened, bounds>>

-----------------------------------------------------------------------------
FaultCurrentAfter(p) == displaySocketInstance

(* The current page once p has connected. *)
CurrentAfter(p) == p

(* LWS_CALLBACK_ESTABLISHED; the page says "ready" as soon as it is open. *)
Established(p) ==
  /\ InService
  /\ p \in unused
  /\ Under(When(open # {}, "overlap") \cup When(shutdown, "race"))
  /\ unused' = unused \ {p}
  /\ open' = open \cup {p} /\ alive' = alive \cup {p}
  /\ displaySocketInstance' = CurrentAfter(p)
  /\ toDaemon' = [toDaemon EXCEPT ![p] = <<"ready">>]
  /\ UNCHANGED <<enabled, displayConnected, loadedPlugins, loop, readyReceived,
                 pluginList, toPage, sawClose, crashed, bounds>>

FaultCounted(msg) == CASE msg = "loaded" -> 1 [] OTHER -> 0

Counted(msg) == CASE msg = "loaded" -> 1 [] msg = "unloaded" -> -1 [] OTHER -> 0

FaultConnectedAfter(msg) == msg = "ready"

(* The flag displayConnected after a message of the page. *)
ConnectedAfter(msg) == displayConnected \/ msg = "ready"

(* LWS_CALLBACK_RECEIVE *)
Receive(p) ==
  /\ InService
  /\ p \in open /\ toDaemon[p] # <<>>
  /\ LET msg == Head(toDaemon[p]) IN
       /\ Under(When(msg = "ready" /\ sawClose, "quick reload"))
       /\ displayConnected' = ConnectedAfter(msg)
       /\ readyReceived' = IF msg = "ready" THEN readyReceived \cup {p}
                           ELSE readyReceived
       /\ loadedPlugins' = loadedPlugins + Counted(msg)
  /\ toDaemon' = [toDaemon EXCEPT ![p] = Tail(@)]
  /\ UNCHANGED <<enabled, displaySocketInstance, loop, open, unused, alive,
                 pluginList, toPage, sawClose, crashed, bounds>>

(* LWS_CALLBACK_CLOSED of page p.  What the current page has not been sent *)
(* yet is freed, whichever page closed.  Without a current page,           *)
(* lws_get_protocol(NULL) is called and the daemon dies.                   *)
Closed(p) ==
  /\ InService
  /\ p \in open \ alive
  /\ open' = open \ {p} /\ readyReceived' = readyReceived \ {p}
  /\ crashed' = (displaySocketInstance = NoPage)
  /\ IF displaySocketInstance \in open \ {p}
       THEN \E kept \in Prefixes(toPage[displaySocketInstance]) :
              toPage' = [toPage EXCEPT ![p] = <<>>, ![displaySocketInstance] = kept]
       ELSE toPage' = [toPage EXCEPT ![p] = <<>>]
  /\ toDaemon' = [toDaemon EXCEPT ![p] = <<>>]
  /\ displaySocketInstance' = NoPage /\ displayConnected' = FALSE
  /\ sawClose' = TRUE
  /\ UNCHANGED <<enabled, loadedPlugins, loop, unused, alive, pluginList,
                 happened, bounds>>

-----------------------------------------------------------------------------
(* Every open page has its plugins, and the daemon is not shutting down. *)
Settled == ~shutdown /\ (open = {} \/ (oldWebStatus /\ pluginSent))

(* An API call arrives. *)
Call(circumstances) ==
  /\ InService
  /\ Under(circumstances \cup When(~Settled, "race"))

(* The API calls "enable", "disable" and "stop". *)
EnablePlugin(x) ==
  /\ Call(When(x \in enabled, "enable twice")) /\ calls < MaxCalls
  /\ enabled' = enabled \cup {x}
  /\ Bootstrap("load", {x})
  /\ calls' = calls + 1
  /\ UNCHANGED <<seen, loop, sockets, alive, pluginList, toDaemon, sawClose,
                 crashed, leaves>>

DisablePlugin(x) ==
  /\ Call({}) /\ calls < MaxCalls
  /\ Bootstrap("unload", {x} \cap enabled)
  /\ enabled' = enabled \ {x}
  /\ calls' = calls + 1
  /\ UNCHANGED <<seen, loop, sockets, alive, pluginList, toDaemon, sawClose,
                 crashed, leaves>>

Stop ==
  /\ Call({}) /\ ~shutdown
  /\ shutdown' = TRUE
  /\ UNCHANGED <<enabled, seen, oldWebStatus, pluginSent, pc, turn, todo,
                 sockets, alive, pluginList, net, sawClose, crashed, bounds>>

-----------------------------------------------------------------------------
(* The page carries out a command and reports it. *)
PageActs(p) ==
  /\ p \in alive /\ toPage[p] # <<>>
  /\ LET m == Head(toPage[p]) IN
       /\ pluginList' = [pluginList EXCEPT ![p] =
            IF m.cmd = "load" THEN @ \cup {m.pName} ELSE @ \ {m.pName}]
       /\ toDaemon' = [toDaemon EXCEPT ![p] = Append(@,
            IF m.cmd = "load" THEN "loaded" ELSE "unloaded")]
  /\ toPage' = [toPage EXCEPT ![p] = Tail(@)]
  /\ UNCHANGED <<enabled, seen, loop, sockets, alive, sawClose, crashed, happened, bounds>>

(* The user closes or reloads a page; its last messages may be lost. *)
Leave(p) ==
  /\ p \in alive /\ leaves < MaxLeaves
  /\ alive' = alive \ {p}
  /\ pluginList' = [pluginList EXCEPT ![p] = {}]
  /\ leaves' = leaves + 1
  /\ UNCHANGED <<enabled, seen, loop, sockets, net, sawClose, crashed,
                 happened, calls>>

MainStep == Check \/ ShutdownUnload \/ Drain \/ EndService

Next ==
  \/ MainStep
  \/ Stop
  \/ \E p \in Pages : \/ Established(p) \/ Receive(p) \/ Closed(p)
                      \/ PageActs(p) \/ Leave(p)
  \/ \E x \in Plugins : EnablePlugin(x) \/ DisablePlugin(x)

Spec == Init /\ [][Next]_vars

(* The main thread never rests, every call of lws_service serves the       *)
(* sockets that are ready, and open pages carry out what they are told.    *)
Fairness ==
  /\ WF_vars(MainStep)
  /\ \A p \in Pages : /\ SF_vars(Receive(p)) /\ SF_vars(Closed(p))
                      /\ WF_vars(PageActs(p))
FairSpec == Spec /\ Fairness

-----------------------------------------------------------------------------
(* Type invariant. *)
TypeOK ==
  /\ enabled \subseteq Plugins /\ todo \subseteq Plugins /\ turn \subseteq Plugins
  /\ displaySocketInstance \in open \cup {NoPage}
  /\ {displayConnected, oldWebStatus, pluginSent, shutdown, sawClose, crashed}
       \subseteq BOOLEAN
  /\ loadedPlugins \in Int
  /\ pc \in {"check", "service", "disable", "update", "drain", "wait", "stopped"}
  /\ readyReceived \subseteq open /\ open \subseteq Pages /\ alive \subseteq open
  /\ unused \subseteq Pages \ open
  /\ pluginList \in [Pages -> SUBSET Plugins]
  /\ toPage \in [Pages -> Seq(Messages)]
  /\ toDaemon \in [Pages -> Seq({"ready", "loaded", "unloaded"})]
  /\ leaves \in 0 .. MaxLeaves /\ calls \in 0 .. MaxCalls
  /\ happened \subseteq Circumstances

(* "Returns true/false indicator if the daemon is connected to a display": *)
(* true whenever some open page's "ready" has been received.               *)
SeesDisplay == readyReceived # {} /\ ~crashed => IsDisplayConnected

(* The same, as long as pages come one after the other; then no CLOSED     *)
(* callback runs without a current page either.                            *)
SeesEachDisplay == "overlap" \notin happened => SeesDisplay /\ ~crashed

(* Whatever happens, the daemon's idea of the display is well typed, and   *)
(* right while pages do not overlap.                                       *)
DisplaySeen == TypeOK /\ SeesEachDisplay

Reported(p, msg) == Cardinality({i \in DOMAIN toDaemon[p] : toDaemon[p][i] = msg})

(* The count that API_ShutdownPlugins waits for is the number of plugins   *)
(* in the page, but for the reports on their way, as long as the page      *)
(* stays and nothing unusual happened.                                     *)
CountAgrees ==
  leaves = 0 /\ happened = {} =>
    \A p \in open :
      loadedPlugins + Reported(p, "loaded") - Reported(p, "unloaded")
        = Cardinality(pluginList[p])

(* "stop: Stops the plugin daemon for a clean shutdown": it does stop. *)
StopEnds == shutdown ~> pc = "stopped"

(* It does when the page stays and nothing unusual happened. *)
UndisturbedStopEnds == shutdown ~> pc = "stopped" \/ leaves > 0 \/ happened # {}

(* "pause plugins when disconnected from frontend and resume when          *)
(* reconnected": an enabled plugin gets into every page the daemon has     *)
(* heard from, unless the page goes, the plugin is disabled or all stops,  *)
(* as long as the main loop sees every page come and go.                   *)
PagesGetPlugins ==
  \A p \in Pages, x \in Plugins :
    p \in readyReceived /\ x \in enabled
      ~> \/ x \in pluginList[p] \/ p \notin alive
         \/ x \notin enabled \/ shutdown
         \/ {"overlap", "quick reload"} \cap happened # {}
=============================================================================

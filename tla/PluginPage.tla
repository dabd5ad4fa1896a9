----------------------------- MODULE PluginPage -----------------------------
(***************************************************************************)
(* The connection between one plugin and its page (plugin.c,               *)
(* plugin-client.js): the display window creates a client for the plugin,  *)
(* the client's socket becomes the plugin's socketInstance, the plugin     *)
(* sends what to load, the client confirms, and the stored CSS follows.    *)
(* External programs talk to the page through the plugin.                  *)
(*                                                                         *)
(* There is one display window; its own socket is DisplaySession's.  What  *)
(* is queued for a client is lost in part when more than Slots messages    *)
(* wait (WriteQueue says which); here the oldest is.  lws_get_protocol     *)
(* reads through its argument, so NULL stops the daemon.                   *)
(***************************************************************************)
EXTENDS Integers, Sequences, FiniteSets, SequencesExt

CONSTANTS Clients,        \* sockets of PluginClient objects
          Externs,        \* sockets of external programs
          Attrs, Values,  \* CSS attributes, their values
          Blank,          \* setcss with nothing after "="
          None,           \* NULL, or not set
          Slots,          \* NUM_BUFFERED_WRITES
          MaxCalls        \* bound: API calls, windows opened and closed

ASSUME PageAssumption ==
  /\ None \notin Clients \cup Externs \cup Values \cup {Blank} /\ Blank \notin Values
  /\ {Slots, MaxCalls} \subseteq Nat \ {0}
  /\ IsFiniteSet(Attrs)

VARIABLES
  \* the plugin
  enabled,          \* PLUGIN_FLAG_RENDER
  loaded,           \* PLUGIN_FLAG_LOADED
  current,          \* socketInstance
  extern,           \* externSocketInstance
  store, hasStore,  \* cssAttr, and whether it is not NULL
  saved,            \* position.txt
  crashed,          \* the daemon followed NULL
  \* the display window
  window,           \* it is open
  toDisplay,        \* commands on the way to it
  listed,           \* pluginList[plugName]
  \* clients
  socket,           \* state of each client's connection
  page,             \* what it shows
  style,            \* CSS of the plugin's div
  toPage,           \* messages on the way to it
  reports,          \* "PluginClient Loaded" is on the way from it
  \* external programs
  extOpen,          \* the connected ones
  \* history
  blanked,          \* attributes last set to Blank
  mishaps,          \* which of Mishaps happened
  calls             \* counter for the bound

plugin == <<enabled, loaded, current, extern>>
css == <<store, hasStore, saved, blanked>>
display == <<window, toDisplay, listed>>
clients == <<socket, page, style, toPage, reports>>
vars == <<plugin, css, crashed, display, clients, extOpen, mishaps, calls>>

(* "overlap": two clients were connected at a time.                        *)
(* "externals": two external programs were.                                *)
(* "reload": the plugin was reloaded with something connected to it.       *)
(* "overflow": a message to a client was pushed out of the ring.           *)
(* "dropped": a client's connection failed; it does not connect again.     *)
(* "half enabled": reload read start-on-load=true for a disabled plugin,   *)
(*   which sets its flag, and neither schedules nor shows it.              *)
Mishaps == {"overlap", "externals", "reload", "overflow", "dropped", "half enabled"}
Unless(exceptions) == mishaps \cap exceptions = {}
With(mishap, happens) == mishaps \cup IF happens THEN {mishap} ELSE {}

(* The daemon sees the connection. *)
Connected(c) == socket[c] \in {"open", "closing"}
Message(kind, a, v) == [kind |-> kind, attr |-> a, value |-> v]
SetCSS(a, v) == Message("setcss", a, v)

(* Definitions named Fault... are faulty variants of the definition that   *)
(* follows them, each with one plausible mistake; no behaviour uses them.  *)

(* Plugin_SendMsg, to the socket s if it is not NULL. *)
Queued(s, msgs) ==
  IF s = None THEN toPage
  ELSE LET all == toPage[s] \o msgs IN
         [toPage EXCEPT ![s] =
            SubSeq(all, 1 + (IF Len(all) > Slots THEN Len(all) - Slots ELSE 0), Len(all))]
Overflows(s, msgs) == s # None /\ Len(toPage[s]) + Len(msgs) > Slots

NoStyle == [a \in Attrs |-> None]

(* PluginCSS_load *)
LoadedCSS(file) == file

Init ==
  /\ enabled \in BOOLEAN /\ loaded = FALSE /\ current = None /\ extern = None
  /\ saved \in [Attrs -> Values \cup {None}] /\ store = LoadedCSS(saved) /\ hasStore = TRUE
  /\ crashed = FALSE
  /\ window = FALSE /\ toDisplay = <<>> /\ listed = None
  /\ socket = [c \in Clients |-> "gone"] /\ page = [c \in Clients |-> "blank"]
  /\ style = [c \in Clients |-> NoStyle]
  /\ toPage = [c \in Clients |-> <<>>] /\ reports = [c \in Clients |-> FALSE]
  /\ extOpen = {}
  /\ blanked = {} /\ mishaps = {} /\ calls = 0

-----------------------------------------------------------------------------
(* API calls. *)
CallOnce == calls < MaxCalls /\ calls' = calls + 1
Told(command) == IF window THEN Append(toDisplay, command) ELSE toDisplay

Enable ==
  /\ CallOnce
  /\ enabled' = TRUE
  /\ toDisplay' = Told("load")
  /\ UNCHANGED <<loaded, current, extern, css, crashed, window, listed, clients,
                 extOpen, mishaps>>

Disable ==
  /\ CallOnce
  /\ toDisplay' = IF enabled THEN Told("unload") ELSE toDisplay
  /\ enabled' = FALSE
  /\ UNCHANGED <<loaded, current, extern, css, crashed, window, listed, clients,
                 extOpen, mishaps>>

(* Plugin_Free clears the whole Plugin_t; cssAttr is not made again.  The  *)
(* file may say start-on-load=true, also of a plugin that is disabled.     *)
Reload ==
  /\ CallOnce
  /\ toDisplay' = IF enabled /\ window THEN toDisplay \o <<"unload", "load">> ELSE toDisplay
  /\ enabled' \in IF enabled THEN {TRUE} ELSE BOOLEAN
  /\ loaded' = FALSE /\ current' = None /\ extern' = None
  /\ store' = NoStyle /\ hasStore' = FALSE
  /\ mishaps' = With("reload", extOpen # {} \/ \E c \in Clients : Connected(c))
                 \cup {m \in {"half enabled"} : enabled' /\ ~enabled}
  /\ UNCHANGED <<saved, blanked, crashed, window, listed, clients, extOpen>>

FaultStored(a, v) ==
  IF v = Blank \/ ~hasStore \/ loaded THEN store ELSE [store EXCEPT ![a] = v]

(* PluginCSS_store: a blank value is not stored, nor anything in NULL. *)
Stored(a, v) == IF v = Blank \/ ~hasStore THEN store ELSE [store EXCEPT ![a] = v]

CallSetCSS(a, v) ==
  /\ CallOnce
  /\ store' = Stored(a, v)
  /\ toPage' = Queued(current, <<SetCSS(a, v)>>)
  /\ blanked' = IF v = Blank THEN blanked \cup {a} ELSE blanked \ {a}
  /\ mishaps' = With("overflow", Overflows(current, <<SetCSS(a, v)>>))
  /\ UNCHANGED <<plugin, hasStore, saved, crashed, display, socket, page, style,
                 reports, extOpen>>

(* savecss *)
CallSaveCSS ==
  /\ CallOnce
  /\ saved' = store
  /\ UNCHANGED <<plugin, store, hasStore, blanked, crashed, display, clients,
                 extOpen, mishaps>>

-----------------------------------------------------------------------------
(* The display window. *)
WindowOpens ==
  /\ ~window /\ CallOnce
  /\ window' = TRUE /\ toDisplay' = IF enabled THEN <<"load">> ELSE <<>>
  /\ UNCHANGED <<plugin, css, crashed, listed, clients, extOpen, mishaps>>

(* What becomes of a socket that the browser closes. *)
ClosedByBrowser(s) ==
  CASE s = "open" -> "closing" [] s = "connecting" -> "gone" [] OTHER -> s

WindowCloses ==
  /\ window /\ CallOnce
  /\ window' = FALSE /\ toDisplay' = <<>> /\ listed' = None
  /\ socket' = [c \in Clients |-> ClosedByBrowser(socket[c])]
  /\ UNCHANGED <<plugin, css, crashed, page, style, toPage, reports, extOpen, mishaps>>

(* The main loop: the display has gone. *)
NoticeDisconnect ==
  /\ ~window /\ loaded
  /\ loaded' = FALSE
  /\ UNCHANGED <<enabled, current, extern, css, crashed, display, clients, extOpen,
                 mishaps, calls>>

(* "load": a new client, whatever was listed. *)
DisplayLoads ==
  /\ toDisplay # <<>> /\ toDisplay[1] = "load"
  /\ toDisplay' = Tail(toDisplay)
  /\ \E c \in Clients :
       /\ socket[c] = "gone"
       /\ listed' = c
       /\ socket' = [socket EXCEPT ![c] = "connecting"]
       /\ page' = [page EXCEPT ![c] = "blank"]
       /\ style' = [style EXCEPT ![c] = NoStyle]
       /\ toPage' = [toPage EXCEPT ![c] = <<>>]
       /\ reports' = [reports EXCEPT ![c] = FALSE]
  /\ UNCHANGED <<plugin, css, crashed, window, extOpen, mishaps, calls>>

DisplayUnloads ==
  /\ toDisplay # <<>> /\ toDisplay[1] = "unload"
  /\ toDisplay' = Tail(toDisplay) /\ listed' = None
  /\ socket' = IF listed = None THEN socket
               ELSE [socket EXCEPT ![listed] = ClosedByBrowser(@)]
  /\ UNCHANGED <<plugin, css, crashed, window, page, style, toPage, reports, extOpen,
                 mishaps, calls>>

-----------------------------------------------------------------------------
(* Plugin_SocketCallback *)
FaultCurrentAfter(c) == IF current = None /\ enabled THEN c ELSE current

(* The first to come; a later one is ignored for good. *)
CurrentAfter(c) == IF current = None THEN c ELSE current

(* Plugin_LoadFrontend; "innerdiv", which fills the page before its scripts *)
(* run, is left out.                                                       *)
LoadMessages == <<Message("load", None, None)>>

Established(c) ==
  LET msgs == IF current = None /\ ~loaded /\ enabled THEN LoadMessages ELSE <<>> IN
    /\ socket[c] = "connecting"
    /\ socket' = [socket EXCEPT ![c] = "open"]
    /\ current' = CurrentAfter(c)
    /\ toPage' = Queued(c, msgs)
    /\ mishaps' = With("overlap", \E d \in Clients : Connected(d))
    /\ UNCHANGED <<enabled, loaded, extern, css, crashed, display, page, style,
                   reports, extOpen, calls>>

FaultSavedStyle == <<>>

(* PluginCSS_sendAll *)
SavedStyle ==
  LET stored == SetToSeq({a \in Attrs : store[a] # None}) IN
    [i \in DOMAIN stored |-> SetCSS(stored[i], store[stored[i]])]

(* RECEIVE of "PluginClient Loaded", from whichever client. *)
ReceiveLoaded(c) ==
  /\ Connected(c) /\ reports[c]
  /\ reports' = [reports EXCEPT ![c] = FALSE]
  /\ loaded' = TRUE
  /\ toPage' = Queued(current, SavedStyle)
  /\ mishaps' = With("overflow", Overflows(current, SavedStyle))
  /\ UNCHANGED <<enabled, current, extern, css, crashed, display, socket, page, style,
                 extOpen, calls>>

FaultLoadedAfterClose == loaded

LoadedAfterClose == FALSE
CurrentAfterClose == None

(* CLOSED of any client is taken for the current one's.  Its callback      *)
(* passes socketInstance on, also when it is NULL.                         *)
Closed(c) ==
  /\ socket[c] = "closing"
  /\ socket' = [socket EXCEPT ![c] = "gone"]
  /\ reports' = [reports EXCEPT ![c] = FALSE]
  /\ loaded' = LoadedAfterClose /\ current' = CurrentAfterClose
  /\ crashed' = (current = None)
  /\ toPage' = IF current = None THEN toPage ELSE [toPage EXCEPT ![current] = <<>>]
  /\ UNCHANGED <<enabled, extern, css, display, page, style, extOpen, mishaps, calls>>

(* The connection fails, and the client does not notice or care. *)
Drop(c) ==
  /\ socket[c] = "open" /\ CallOnce
  /\ socket' = [socket EXCEPT ![c] = "closing"]
  /\ mishaps' = With("dropped", TRUE)
  /\ UNCHANGED <<plugin, css, crashed, display, page, style, toPage, reports, extOpen>>

-----------------------------------------------------------------------------
(* The client. *)
Receives(c) ==
  LET msg == toPage[c][1] IN
    /\ socket[c] = "open" /\ toPage[c] # <<>>
    /\ toPage' = [toPage EXCEPT ![c] = Tail(@)]
    /\ page' = IF msg.kind = "load" THEN [page EXCEPT ![c] = "loading"] ELSE page
    /\ style' = IF msg.kind = "setcss"
                  THEN [style EXCEPT ![c][msg.attr] =
                          IF msg.value = Blank THEN None ELSE msg.value]
                  ELSE style
    /\ UNCHANGED <<plugin, css, crashed, display, socket, reports, extOpen, mishaps,
                   calls>>

(* doneLoadTimer: every file is there. *)
DoneLoad(c) ==
  /\ socket[c] = "open" /\ page[c] = "loading"
  /\ page' = [page EXCEPT ![c] = "shown"]
  /\ reports' = [reports EXCEPT ![c] = TRUE]
  /\ UNCHANGED <<plugin, css, crashed, display, socket, style, toPage, extOpen,
                 mishaps, calls>>

-----------------------------------------------------------------------------
(* Plugin_ExternalSocketCallback: the last to come. *)
ExternEstablished(e) ==
  /\ e \notin extOpen /\ CallOnce
  /\ extOpen' = extOpen \cup {e} /\ extern' = e
  /\ mishaps' = With("externals", extOpen # {})
  /\ UNCHANGED <<enabled, loaded, current, css, crashed, display, clients>>

(* A message is forwarded to the page, if there is one. *)
ExternReceive(e) ==
  LET msg == <<Message("command", None, None)>> IN
    /\ e \in extOpen /\ CallOnce
    /\ toPage' = Queued(current, msg)
    /\ mishaps' = With("overflow", Overflows(current, msg))
    /\ UNCHANGED <<plugin, css, crashed, display, socket, page, style, reports, extOpen>>

(* Any program that leaves is taken for the last that came. *)
ExternAfterClose(e) == None

ExternClosed(e) ==
  /\ e \in extOpen
  /\ extOpen' = extOpen \ {e}
  /\ crashed' = (extern = None) /\ extern' = ExternAfterClose(e)
  /\ UNCHANGED <<enabled, loaded, current, css, display, clients, mishaps, calls>>

-----------------------------------------------------------------------------
Operator ==
  \/ Enable \/ Disable \/ Reload \/ CallSaveCSS
  \/ \E a \in Attrs, v \in Values \cup {Blank} : CallSetCSS(a, v)
  \/ WindowOpens \/ WindowCloses
  \/ \E c \in Clients : Drop(c)
  \/ \E e \in Externs : ExternEstablished(e) \/ ExternReceive(e) \/ ExternClosed(e)

ClientStep(c) ==
  Established(c) \/ ReceiveLoaded(c) \/ Closed(c) \/ Receives(c) \/ DoneLoad(c)

Next ==
  /\ ~crashed
  /\ \/ Operator
     \/ NoticeDisconnect \/ DisplayLoads \/ DisplayUnloads
     \/ \E c \in Clients : ClientStep(c)

Spec == Init /\ [][Next]_vars

(* The daemon serves each socket, and the browser its timers; what is sent *)
(* on a connection that stays open arrives, and files to load are there.   *)
Fairness ==
  /\ WF_vars(~crashed /\ DisplayLoads) /\ WF_vars(~crashed /\ DisplayUnloads)
  /\ \A c \in Clients :
       /\ WF_vars(~crashed /\ Established(c)) /\ WF_vars(~crashed /\ Closed(c))
       /\ WF_vars(~crashed /\ ReceiveLoaded(c))
       /\ WF_vars(~crashed /\ Receives(c)) /\ WF_vars(~crashed /\ DoneLoad(c))

FairSpec == Spec /\ Fairness

-----------------------------------------------------------------------------
(* The types of the variables. *)
TypeOK ==
  /\ {enabled, loaded, hasStore, crashed, window} \subseteq BOOLEAN
  /\ current \in Clients \cup {None} /\ extern \in Externs \cup {None}
  /\ store \in [Attrs -> Values \cup {None}] /\ saved \in [Attrs -> Values \cup {None}]
  /\ \A i \in DOMAIN toDisplay : toDisplay[i] \in {"load", "unload"}
  /\ listed \in Clients \cup {None}
  /\ socket \in [Clients -> {"gone", "connecting", "open", "closing"}]
  /\ page \in [Clients -> {"blank", "loading", "shown"}]
  /\ style \in [Clients -> [Attrs -> Values \cup {None}]]
  /\ \A c \in Clients : Len(toPage[c]) <= Slots
  /\ reports \in [Clients -> BOOLEAN]
  /\ extOpen \subseteq Externs /\ blanked \subseteq Attrs
  /\ mishaps \subseteq Mishaps /\ calls \in 0 .. MaxCalls

(* The plugin never holds a socket that libwebsockets has closed and       *)
(* freed; and it follows NULL on a close only if two clients or two        *)
(* external programs were connected at a time, or the plugin was reloaded  *)
(* under a connection.                                                     *)
SocketsValid ==
  /\ current # None => Connected(current)
  /\ extern # None => extern \in extOpen
  /\ crashed => ~Unless({"overlap", "externals", "reload"})

(* The plugin's state is well typed, and its sockets are there. *)
SocketsSound == TypeOK /\ SocketsValid

(* Once a page has confirmed its load and received what was sent, it shows *)
(* the stored CSS, whenever setcss came: before the page, between its load *)
(* and its confirmation, or after.  A blank value only clears the page's.  *)
ShowsStoredStyle ==
  current # None /\ loaded /\ Unless({"overlap", "overflow"}) =>
    (page[current] = "shown" /\ toPage[current] = <<>> =>
       \A a \in Attrs \ blanked :
         store[a] # None => style[current][a] = store[a])

(* "Any css sent through the main API will get parsed through here and     *)
(* stored into a hash table for saving": savecss writes every attribute    *)
(* that any page shows, sent before or after its load, and keeps each that *)
(* was saved before; until a reload has thrown the plugin's CSS away.      *)
SavedStaysSaved ==
  [][hasStore =>
       \A a \in Attrs :
         /\ saved[a] # None => saved'[a] # None
         /\ CallSaveCSS => \A c \in Clients : style[c][a] # None => saved'[a] # None]_vars

(* "enable: Loads a plugin into the frontend": while the window is open    *)
(* and the plugin is enabled, the window's client gets to show it.         *)
Shown == IF listed = None THEN FALSE ELSE page[listed] = "shown"
EnabledIsShown ==
  window /\ enabled ~>
    Shown \/ ~window \/ ~enabled \/ mishaps # {}

(* "reload: ... then reloads it back into the frontend".                   *)
ReloadComesBack ==
  "reload" \in mishaps /\ window /\ enabled ~> Shown \/ ~window \/ ~enabled
=============================================================================

--------------------------- MODULE PluginSchedule ---------------------------
(***************************************************************************)
(* Scheduling of one plugin's script: enable, disable, reload and the      *)
(* rescheduling when the display is lost (plugin.c, pluginSchedule.c,      *)
(* pluginLoader.c), the POSIX timer behind them (scheduler.c) and the      *)
(* background process a script may become (scripts.c).                     *)
(*                                                                         *)
(* The main thread runs one operation at a time.  The timer's signal       *)
(* handler runs on the same thread between any two of its steps, to the    *)
(* end.  The steps of an operation are cut where an armed timer can see    *)
(* the difference; where no timer is armed they are one step.              *)
(***************************************************************************)
EXTENDS Integers, FiniteSets

CONSTANTS Kinds,        \* the kinds of script a plugin.conf may ask for
          SplitFlags,   \* is plugin->flags |= F a load and a store (ARM)?
          SlowChild,    \* may a kill overtake the child's setpgid?
          ForkFails,    \* may fork and popen fail?
          MaxTimers     \* bound: timers created

ASSUME KindAssumption == Kinds \subseteq {"periodic", "oneshot", "background"}
ASSUME FlagsAssumption == {SplitFlags, SlowChild, ForkFails} \subseteq BOOLEAN
ASSUME MaxTimersAssumption == MaxTimers \in Nat \ {0}

VARIABLES kind,         \* what plugin.conf asks for (..._ONESHOT, ..._BACKGROUND)
          enabled,      \* PLUGIN_FLAG_RENDER
          scheduled,    \* PLUGIN_FLAG_ISSCRIPT and ..._CONTINUOUS
          inbg,         \* PLUGIN_FLAG_INBG
          bgScriptPID,
          connected,    \* socketInstance # NULL
          schedule,     \* the Schedule_t of the plugin
          timers,       \* the kernel's timers made for this plugin
          armed,        \* those that can fire
          handlerData,  \* allocated ScheduleHandleData_t, one per timer
          children,     \* background processes alive
          leaders,      \* those that have called setpgid(0, 0)
          pc, op,       \* where the main thread is, in which operation
          again,        \* wasRunning, or the status API_RELOAD restores
          flagsCopy,    \* INBG as loaded by a flags update under way
          created,      \* timers created so far; also numbers them
          forks,        \* processes forked so far; also numbers them
          ran,          \* history: the script ran since last scheduled
          idleLosses,   \* history: display losses seen while disabled
          mishaps       \* history: which of Mishaps happened

flags == <<kind, enabled, scheduled, inbg>>
kernel == <<timers, armed, handlerData, created>>
processes == <<bgScriptPID, children, leaders, forks>>
control == <<pc, op, again, flagsCopy>>
history == <<ran, idleLosses, mishaps>>
vars == <<flags, connected, schedule, kernel, processes, control, history>>

(* Definitions named Fault... are faulty variants of the definition that   *)
(* follows them, each with one plausible mistake; no behaviour uses them.  *)

(* "reenabled": enabled again while a script is in the background.         *)
(* "overtaken": the kill came before the child's setpgid.                  *)
(* "flag lost": an update of plugin->flags wiped INBG.                     *)
(* "fork failed", of a background script; "popen failed", of the others.   *)
(* "stray delete": timer_delete on a zeroed Schedule_t.                    *)
Mishaps == {"reenabled", "overtaken", "flag lost", "fork failed", "popen failed",
            "stray delete"}

(* mishaps, and one more if it happens. *)
With(mishap, happens) == mishaps \cup IF happens THEN {mishap} ELSE {}

Zeroed == [timerid |-> 0, data |-> 0, running |-> FALSE]
IsInitialized == schedule.data # 0        \* Scheduler_isInitialized
IsTicking == schedule.running             \* Scheduler_isTicking

(* The daemon has loaded the plugin: a plugin with start-on-load is        *)
(* enabled and its timer started.                                          *)
Init ==
  /\ kind \in Kinds
  /\ enabled \in BOOLEAN /\ scheduled = enabled
  /\ inbg = FALSE /\ bgScriptPID = -1
  /\ connected = FALSE
  /\ created = IF enabled THEN 1 ELSE 0
  /\ timers = 1 .. created /\ armed = timers /\ handlerData = timers
  /\ schedule = IF enabled THEN [timerid |-> 1, data |-> 1, running |-> TRUE]
                ELSE Zeroed
  /\ children = {} /\ leaders = {} /\ forks = 0
  /\ pc = "idle" /\ op = "none" /\ again = FALSE /\ flagsCopy = FALSE
  /\ ran = FALSE /\ idleLosses = 0 /\ mishaps = {}

-----------------------------------------------------------------------------
(* Scheduler_setCallback and Scheduler_createTimer: new handler data and a *)
(* new timer, not yet armed, whatever the Schedule_t held before.          *)
CreateTimer ==
  /\ created' = created + 1
  /\ timers' = timers \cup {created'}
  /\ handlerData' = handlerData \cup {created'}
  /\ schedule' = [timerid |-> created', data |-> created', running |-> FALSE]

(* Plugin_SetSchedule, Plugin_ScheduleUpdate *)
SetSchedule == scheduled' = TRUE /\ ran' = FALSE /\ CreateTimer

FaultNeverAlreadyEnabled == FALSE

(* The early return of Plugin_Enable. *)
AlreadyEnabled == enabled /\ IsInitialized

(* Plugin_Enable.  No timer of the plugin is armed here. *)
Enable ==
  /\ pc = "idle" /\ created < MaxTimers
  /\ ~AlreadyEnabled
  /\ enabled' = TRUE
  /\ SetSchedule
  /\ mishaps' = With("reenabled", enabled /\ inbg)
  /\ pc' = "start"
  /\ UNCHANGED <<kind, inbg, connected, armed, processes, op, again, flagsCopy,
                 idleLosses>>

(* Scheduler_start: arm the timer ... *)
StartTimer ==
  /\ pc = "start"
  /\ armed' = armed \cup {schedule.timerid}
  /\ pc' = "running"
  /\ UNCHANGED <<flags, connected, schedule, timers, handlerData, created,
                 processes, op, again, flagsCopy, history>>

(* ... and note that it runs, even if it has fired and is gone by now. *)
SetRunning ==
  /\ pc = "running"
  /\ schedule' = [schedule EXCEPT !.running = TRUE]
  /\ pc' = "idle" /\ op' = "none"
  /\ UNCHANGED <<flags, connected, kernel, processes, again, flagsCopy, history>>

-----------------------------------------------------------------------------
(* Plugin_Disable. *)
Disable ==
  /\ pc = "idle" /\ enabled
  /\ pc' = "check" /\ op' = "disable"
  /\ UNCHANGED <<flags, connected, schedule, kernel, processes, again,
                 flagsCopy, history>>

(* API_RELOAD: disable a plugin that is enabled, then Plugin_Reload. *)
Reload ==
  /\ pc = "idle" /\ created < MaxTimers
  /\ again' = enabled
  /\ pc' = IF enabled THEN "check" ELSE "free"
  /\ op' = "reload"
  /\ UNCHANGED <<flags, connected, schedule, kernel, processes, flagsCopy, history>>

(* PluginLoader_RescheduleDisconnectedPlugin: the main loop noticed that   *)
(* the display is gone; Plugin_ResetSchedule of a plugin with a script.    *)
ResetSchedule ==
  /\ pc = "idle" /\ created < MaxTimers
  /\ scheduled
  /\ again' = (IsTicking \/ kind = "oneshot" \/ bgScriptPID > 0)
  /\ idleLosses' = IF enabled THEN idleLosses ELSE idleLosses + 1
  /\ pc' = "check" /\ op' = "reset"
  /\ UNCHANGED <<flags, connected, schedule, kernel, processes, flagsCopy,
                 ran, mishaps>>

(* Plugin_StopSchedule tests for a timer ... *)
CheckTimer ==
  /\ pc = "check"
  /\ pc' = IF IsInitialized THEN "delete" ELSE "kill"
  /\ UNCHANGED <<flags, connected, schedule, kernel, processes, op, again,
                 flagsCopy, history>>

FaultSchedulerDeleteKeepsTimer ==
  /\ handlerData' = handlerData \ {schedule.data}
  /\ schedule' = Zeroed
  /\ UNCHANGED <<timers, armed, created>>

(* Scheduler_delete *)
SchedulerDelete ==
  /\ timers' = timers \ {schedule.timerid}
  /\ armed' = armed \ {schedule.timerid}
  /\ handlerData' = handlerData \ {schedule.data}
  /\ schedule' = Zeroed
  /\ UNCHANGED created

(* ... and deletes it.  If it fired in between and deleted itself, the     *)
(* kernel is asked to delete timer 0, which is some other plugin's.        *)
DeleteTimer ==
  /\ pc = "delete"
  /\ SchedulerDelete
  /\ mishaps' = With("stray delete", ~IsInitialized)
  /\ pc' = "kill"
  /\ UNCHANGED <<flags, connected, processes, op, again, flagsCopy,
                 ran, idleLosses>>

FaultStops == {}

(* Whom kill(-bgScriptPID, SIGTERM) reaches: the child, once it leads a    *)
(* process group of that number.                                           *)
Stops == {bgScriptPID} \cap leaders

(* Plugin_StopBgScript, and what follows Plugin_StopSchedule. *)
KillChild ==
  /\ pc = "kill"
  /\ IF inbg /\ bgScriptPID > 0
       THEN /\ children' = children \ Stops
            /\ leaders' = leaders \ Stops
            /\ inbg' = FALSE /\ bgScriptPID' = -1
            /\ mishaps' = With("overtaken", bgScriptPID \in children \ leaders)
       ELSE UNCHANGED <<children, leaders, inbg, bgScriptPID, mishaps>>
  /\ pc' = IF op = "reset" THEN "reset" ELSE "off"
  /\ UNCHANGED <<kind, enabled, scheduled, connected, schedule, kernel, forks, op,
                 again, flagsCopy, ran, idleLosses>>

(* The end of Plugin_Disable. *)
TurnOff ==
  /\ pc = "off"
  /\ enabled' = FALSE
  /\ pc' = IF op = "reload" THEN "free" ELSE "idle"
  /\ op' = IF op = "reload" THEN op ELSE "none"
  /\ UNCHANGED <<kind, scheduled, inbg, connected, schedule, kernel, processes,
                 again, flagsCopy, history>>

FaultStartsAgain == again

(* The two tests before Plugin_ResetSchedule arms the new timer. *)
StartsAgain == again /\ enabled

(* The end of Plugin_ResetSchedule. *)
SetAgain ==
  /\ pc = "reset"
  /\ SetSchedule
  /\ pc' = IF StartsAgain THEN "start" ELSE "idle"
  /\ op' = "none"
  /\ UNCHANGED <<kind, enabled, inbg, connected, armed, processes, again,
                 flagsCopy, idleLosses, mishaps>>

(* Plugin_Free clears the Plugin_t, timer, socket and all; the disable     *)
(* left start-on-load off in the file that is read back; the plugin is     *)
(* enabled again if it was.  (The file's other settings are as before.)    *)
FreeAndLoad ==
  /\ pc = "free"
  /\ inbg' = FALSE /\ bgScriptPID' = 0 /\ connected' = FALSE
  /\ enabled' = again
  /\ IF again THEN SetSchedule
     ELSE /\ scheduled' = FALSE /\ schedule' = Zeroed
          /\ UNCHANGED <<timers, handlerData, created, ran>>
  /\ pc' = IF again THEN "start" ELSE "idle"
  /\ op' = "none"
  /\ UNCHANGED <<kind, armed, children, leaders, forks, again, flagsCopy,
                 idleLosses, mishaps>>

-----------------------------------------------------------------------------
(* The plugin's page connects, or its socket closes. *)
Connect ==
  /\ pc = "idle" /\ ~connected
  /\ connected' = TRUE
  /\ UNCHANGED <<flags, schedule, kernel, processes, control, history>>

Disconnect ==
  /\ pc = "idle" /\ connected
  /\ connected' = FALSE
  /\ UNCHANGED <<flags, schedule, kernel, processes, control, history>>

(* PLUGIN_FLAG_LOADED is set or cleared: in two steps, the other flags are *)
(* written back as they were loaded.                                       *)
LoadFlags ==
  /\ SplitFlags
  /\ pc = "idle"
  /\ flagsCopy' = inbg /\ pc' = "store"
  /\ UNCHANGED <<flags, connected, schedule, kernel, processes, op, again, history>>

StoreFlags ==
  /\ pc = "store"
  /\ inbg' = flagsCopy /\ pc' = "idle"
  /\ mishaps' = With("flag lost", inbg /\ ~flagsCopy)
  /\ UNCHANGED <<kind, enabled, scheduled, connected, schedule, kernel,
                 processes, op, again, flagsCopy, ran, idleLosses>>

-----------------------------------------------------------------------------
(* The script becomes a process of its own; the timer's work is done. *)
Launch ==
  /\ connected /\ kind = "background"
  /\ inbg' = TRUE
  /\ \/ /\ forks' = forks + 1 /\ bgScriptPID' = forks'
        /\ children' = children \cup {forks'}
        /\ leaders' = IF SlowChild THEN leaders ELSE leaders \cup {forks'}
        /\ ran' = TRUE
        /\ UNCHANGED mishaps
     \/ /\ ForkFails
        /\ bgScriptPID' = -1
        /\ mishaps' = With("fork failed", TRUE)
        /\ UNCHANGED <<forks, children, leaders, ran>>
  /\ SchedulerDelete
  /\ UNCHANGED <<kind, enabled, scheduled>>

(* The script's output is sent to the page; a one-shot script is done. *)
RunScript ==
  /\ connected /\ kind # "background"
  /\ ran' = TRUE
  /\ IF kind = "oneshot" THEN SchedulerDelete ELSE UNCHANGED <<schedule, kernel>>
  /\ UNCHANGED <<flags, processes, mishaps>>

(* popen fails: nothing is sent and the timer stays, a one-shot's too. *)
ScriptFails ==
  /\ ForkFails
  /\ connected /\ kind # "background"
  /\ mishaps' = With("popen failed", TRUE)
  /\ UNCHANGED <<flags, schedule, kernel, processes, ran>>

FaultKeepWaiting ==
  /\ ~connected
  /\ SchedulerDelete
  /\ UNCHANGED <<flags, processes, ran, mishaps>>

(* No page to write to yet: the timer stays. *)
KeepWaiting ==
  /\ ~connected
  /\ UNCHANGED <<flags, schedule, kernel, processes, ran, mishaps>>

(* The timer fires: _handler and _scheduleHandler. *)
Handler ==
  /\ armed # {}
  /\ IF scheduled /\ enabled THEN Launch \/ RunScript \/ ScriptFails \/ KeepWaiting
     ELSE SchedulerDelete /\ UNCHANGED <<flags, processes, ran, mishaps>>
  /\ UNCHANGED <<connected, control, idleLosses>>

ChildSetsGroup ==
  /\ children # leaders
  /\ \E p \in children \ leaders : leaders' = leaders \cup {p}
  /\ UNCHANGED <<flags, bgScriptPID, children, forks, connected, schedule,
                 kernel, control, history>>

ChildExits ==
  \E p \in leaders :
    /\ children' = children \ {p} /\ leaders' = leaders \ {p}
    /\ UNCHANGED <<flags, bgScriptPID, forks, connected, schedule,
                   kernel, control, history>>

MainStep ==
  \/ StartTimer \/ SetRunning \/ CheckTimer \/ DeleteTimer \/ KillChild
  \/ TurnOff \/ SetAgain \/ FreeAndLoad \/ StoreFlags

Next ==
  \/ Enable \/ Disable \/ Reload \/ ResetSchedule \/ LoadFlags
  \/ Connect \/ Disconnect
  \/ MainStep
  \/ Handler \/ ChildSetsGroup \/ ChildExits

Spec == Init /\ [][Next]_vars

(* The main thread finishes what it started and an armed timer fires. *)
Fairness == WF_vars(MainStep) /\ WF_vars(Handler)
FairSpec == Spec /\ Fairness

-----------------------------------------------------------------------------
(* Type invariant. *)
TypeOK ==
  /\ kind \in Kinds
  /\ {enabled, scheduled, inbg, connected, again, flagsCopy,
      ran} \subseteq BOOLEAN
  /\ created \in 0 .. MaxTimers /\ forks \in 0 .. created
  /\ schedule \in [timerid : 0 .. created, data : 0 .. created, running : BOOLEAN]
  /\ timers \subseteq 1 .. created /\ armed \subseteq timers
  /\ handlerData \subseteq 1 .. created
  /\ bgScriptPID \in -1 .. forks
  /\ children \subseteq 1 .. forks /\ leaders \subseteq children
  /\ pc \in {"idle", "start", "running", "check", "delete", "kill", "off",
             "reset", "free", "store"}
  /\ op \in {"none", "disable", "reload", "reset"}
  /\ idleLosses \in 0 .. created /\ mishaps \subseteq Mishaps

(* A timer that can fire is the one in the plugin's Schedule_t, and the    *)
(* data its handler will use has not been freed: neither a disable, a      *)
(* reload nor the handler deleting its own schedule leaves one behind.     *)
(* "delete plugin from scheduler if it is currently scheduled": for a      *)
(* periodic script the kernel is never asked to delete timer 0, which is   *)
(* another plugin's.  (The handler of the other kinds deletes its own      *)
(* schedule, and may do so between the test and the delete.)               *)
TimerSafe ==
  /\ armed \subseteq {schedule.timerid} \cap handlerData
  /\ IsInitialized => schedule.timerid \in timers /\ schedule.data \in handlerData
  /\ kind = "periodic" => "stray delete" \notin mishaps

(* The schedule is well typed, and its timers are sound. *)
TimersSound == TypeOK /\ TimerSafe

(* Between two calls, a disabled plugin has no timer that can fire, though *)
(* a display loss gives it a timer again; and one for which Plugin_Enable  *)
(* would return early has one, as long as no fork failed.                  *)
ArmedAsEnabled ==
  pc = "idle" =>
    /\ ~enabled => armed = {}
    /\ AlreadyEnabled /\ "fork failed" \notin mishaps => armed # {}

(* "stops any child processes of plugin": once a disable has returned no   *)
(* process the plugin started is alive, as long as nobody enabled it while *)
(* its script was in the background, no kill came too early and no flag    *)
(* was lost: the one process alive is the one on record.                   *)
ChildRecorded ==
  mishaps \cap {"reenabled", "overtaken", "flag lost"} = {} =>
    /\ children \subseteq {bgScriptPID}
    /\ children # {} => inbg
    /\ pc = "idle" /\ ~enabled => children = {}

(* Timers leak only when the display is lost while the plugin is disabled, *)
(* one each time.                                                          *)
LeakBounded == Cardinality(timers) <= 1 + idleLosses

(* The script of an enabled plugin runs after it was scheduled, each time, *)
(* unless the plugin is disabled, its page goes away or it cannot be       *)
(* started: a fork or popen fails.                                         *)
EnabledRuns ==
  enabled /\ connected
    ~> \/ ran \/ ~enabled \/ ~connected
       \/ {"fork failed", "popen failed"} \cap mishaps # {}
=============================================================================

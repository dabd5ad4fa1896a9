------------------------ MODULE PluginScheduleProofs ------------------------
(* Theorems about PluginSchedule, for every kind of script and mishap. *)
EXTENDS PluginSchedule, FiniteSetTheorems, TLAPS

Failed == "fork failed" \in mishaps

(* Which operation the main thread is in, and what an operation that will  *)
(* create a timer has checked.                                             *)
OpInv ==
  /\ pc \in {"idle", "start", "running", "store"} => op = "none"
  /\ pc \in {"check", "delete", "kill"} => op # "none"
  /\ pc = "off" => op \in {"disable", "reload"}
  /\ pc = "reset" => op = "reset"
  /\ pc = "free" => op = "reload"
  /\ op \in {"reload", "reset"} => created < MaxTimers

(* The Schedule_t names a timer that exists; where the code relies on its  *)
(* timer being gone, or being there, it is.                                *)
ScheduleInv ==
  /\ schedule.timerid = schedule.data
  /\ IsInitialized => schedule.timerid \in timers \cap handlerData
  /\ armed \subseteq {schedule.timerid}
  /\ pc \in {"kill", "off", "reset"} => ~IsInitialized
  /\ pc = "start" => IsInitialized /\ armed = {}
  /\ pc = "delete" /\ kind = "periodic" => IsInitialized
  /\ kind = "periodic" => "stray delete" \notin mishaps

(* Only the timer of an enabled plugin is armed; it is scheduled then, so  *)
(* that the handler does not delete the timer of a periodic script.        *)
EnabledInv ==
  /\ enabled => scheduled
  /\ armed # {} => enabled
  /\ pc \in {"start", "running", "off"} => enabled
  /\ op = "disable" => enabled
  /\ op = "reload" /\ pc # "free" => enabled
  /\ pc = "free" => ~enabled /\ (again => ~IsInitialized)

(* Why an enabled plugin waits for its timer or has had its run, so that   *)
(* Plugin_ResetSchedule starts the timer again.                            *)
Served == kind = "oneshot" \/ bgScriptPID > 0
ArmedInv ==
  ~Failed /\ enabled =>
    /\ pc \in {"idle", "running", "store"} =>
         IF IsInitialized THEN armed # {} /\ (pc # "running" => IsTicking) ELSE Served
    /\ op = "reset" => again

(* A background script is forked once per timer, and a display loss is     *)
(* seen with a timer that no later one has seen.                           *)
CountInv ==
  /\ armed # {} \/ pc = "start" => forks < created
  /\ scheduled /\ op # "reset" => idleLosses < created

(* The inductive invariant of the timers, and what it needs for the rest. *)
ScheduleIInv == TypeOK /\ OpInv /\ ScheduleInv /\ EnabledInv /\ CountInv

(* With nothing unusual, the timer is not armed, nor about to be, while a  *)
(* process is alive.                                                       *)
Clean == mishaps \cap {"reenabled", "overtaken", "flag lost"} = {}
ChildInv ==
  Clean =>
    /\ children \subseteq {bgScriptPID}
    /\ children # {} => inbg
    /\ children # {} => enabled /\ armed = {} /\ pc \notin {"start", "off", "reset"}

(* The timers that no Schedule_t names. *)
Leaked == timers \ {schedule.timerid}
LeakInv ==
  /\ Cardinality(Leaked) <= idleLosses
  /\ ~enabled /\ (IsInitialized \/ op = "reset") => Cardinality(Leaked) < idleLosses

(* The empty or new schedule is sound. *)
LEMMA IInvInit == Init => ScheduleIInv
<1> SUFFICES ASSUME Init PROVE ScheduleIInv
  OBVIOUS
<1>1. /\ created \in 0 .. 1 /\ created \in 0 .. MaxTimers /\ (enabled <=> created = 1)
      /\ timers = 1 .. created /\ armed = timers /\ handlerData = timers
  BY MaxTimersAssumption DEF Init
<1>2. /\ schedule \in [timerid : 0 .. created, data : 0 .. created, running : BOOLEAN]
      /\ schedule.timerid = created /\ schedule.data = created
  BY <1>1 DEF Init, Zeroed
<1>3. TypeOK
  <2>1. /\ {enabled, scheduled, inbg, connected, again, flagsCopy, ran} \subseteq BOOLEAN
    BY DEF Init
  <2>2. bgScriptPID \in -1 .. forks /\ idleLosses \in 0 .. created
    BY <1>1 DEF Init
  <2>3. QED
    BY <1>1, <1>2, <2>1, <2>2 DEF Init, TypeOK, Mishaps
<1>4. OpInv /\ ScheduleInv /\ EnabledInv /\ CountInv
  <2>1. CASE created = 0
    <3>1. armed = {}
      BY <1>1, <2>1
    <3>2. QED
      BY <1>1, <1>2, <2>1, <3>1
         DEF Init, OpInv, EnabledInv, ScheduleInv, IsInitialized, CountInv
  <2>2. CASE created = 1
    <3>1. armed = {1}
      BY <1>1, <2>2
    <3>2. QED
      BY <1>1, <1>2, <2>2, <3>1
         DEF Init, OpInv, EnabledInv, ScheduleInv, IsInitialized, CountInv
  <2>3. QED
    BY <1>1, <2>1, <2>2
<1>5. QED
  BY <1>3, <1>4 DEF ScheduleIInv

(* The counters are numbers, in their order. *)
LEMMA Numbers ==
  ASSUME TypeOK
  PROVE  /\ created \in Nat /\ forks \in Nat /\ idleLosses \in Nat /\ bgScriptPID \in Int
         /\ created <= MaxTimers /\ forks <= created /\ idleLosses <= created
<1>1. created \in Nat /\ created <= MaxTimers
  BY MaxTimersAssumption DEF TypeOK
<1>2. forks \in Nat /\ forks <= created
  BY <1>1 DEF TypeOK
<1>3. QED
  BY <1>1, <1>2 DEF TypeOK

(* Only a timer in the Schedule_t can be armed. *)
LEMMA ArmedTimer ==
  ASSUME TypeOK, ScheduleInv, armed # {}
  PROVE  IsInitialized /\ armed = {schedule.timerid}
<1>1. armed = {schedule.timerid}
  BY DEF ScheduleInv
<1>2. schedule.timerid \in 1 .. created /\ created \in Nat
  BY <1>1, Numbers DEF TypeOK
<1>3. schedule.timerid # 0
  BY <1>2
<1>4. QED
  BY <1>1, <1>3 DEF ScheduleInv, IsInitialized

(* Scheduler_createTimer: the number of the timer is new. *)
LEMMA CreateEffect ==
  ASSUME TypeOK, created < MaxTimers, CreateTimer
  PROVE  /\ created' = created + 1 /\ created \in Nat /\ created' \in 0 .. MaxTimers
         /\ timers' = timers \cup {created'} /\ created' \notin timers
         /\ timers' \subseteq 1 .. created' /\ handlerData' \subseteq 1 .. created'
         /\ created' \in handlerData' /\ created' # 0
         /\ schedule' \in [timerid : 0 .. created', data : 0 .. created', running : BOOLEAN]
         /\ schedule'.timerid = created' /\ schedule'.data = created'
         /\ timers \subseteq timers' /\ armed \subseteq timers'
<1>1. created' = created + 1 /\ created' \in 0 .. MaxTimers /\ created \in Nat /\ created' \in Nat
  BY MaxTimersAssumption DEF TypeOK, CreateTimer
<1>2. timers \subseteq 1 .. created /\ handlerData \subseteq 1 .. created
  BY DEF TypeOK
<1>3. timers' \subseteq 1 .. created' /\ handlerData' \subseteq 1 .. created' /\ created' \notin timers
  BY <1>1, <1>2 DEF CreateTimer
<1>4. QED
  BY <1>1, <1>3 DEF CreateTimer, TypeOK

(* Scheduler_delete: afterwards no timer of the plugin can fire. *)
LEMMA DeleteEffect ==
  ASSUME TypeOK, ScheduleInv, SchedulerDelete
  PROVE  /\ created' = created
         /\ timers' = timers \ {schedule.timerid}
         /\ timers' \subseteq 1 .. created' /\ handlerData' \subseteq 1 .. created'
         /\ armed' = {}
         /\ schedule' \in [timerid : 0 .. created', data : 0 .. created', running : BOOLEAN]
         /\ schedule'.timerid = 0 /\ schedule'.data = 0
<1>1. created \in Nat
  BY MaxTimersAssumption DEF TypeOK
<1>2. Zeroed \in [timerid : 0 .. created, data : 0 .. created, running : BOOLEAN]
  BY <1>1 DEF Zeroed
<1>3. QED
  BY <1>1, <1>2 DEF TypeOK, ScheduleInv, SchedulerDelete, Zeroed

(* Steps that only move the main thread on. *)
LEMMA ControlSteps ==
  ASSUME ScheduleIInv, Disable \/ Reload \/ CheckTimer \/ LoadFlags \/ StoreFlags
  PROVE  ScheduleIInv'
<1> USE DEF flags, kernel, processes, control, history, Disable, Reload, CheckTimer,
        LoadFlags, StoreFlags
<1>1. mishaps' \subseteq Mishaps
  BY DEF ScheduleIInv, TypeOK, With, Mishaps
<1>2. /\ UNCHANGED <<kind, enabled, scheduled, connected, schedule, timers, armed, handlerData,
                     created, bgScriptPID, children, leaders, forks, ran, idleLosses>>
      /\ "stray delete" \in mishaps' => "stray delete" \in mishaps
  BY DEF With
<1>3. TypeOK'
  BY <1>1, <1>2 DEF ScheduleIInv, TypeOK
<1>4. OpInv'
  BY DEF ScheduleIInv, OpInv
<1>5. ScheduleInv'
  BY <1>2 DEF ScheduleIInv, OpInv, ScheduleInv, IsInitialized
<1>6. EnabledInv'
  <2>1. CASE Reload
    <3>1. enabled \in BOOLEAN /\ again' = enabled /\ op' = "reload"
      BY <2>1 DEF ScheduleIInv, TypeOK
    <3>2. pc' = IF enabled THEN "check" ELSE "free"
      BY <2>1
    <3>3. QED
      BY <1>2, <3>1, <3>2 DEF ScheduleIInv, EnabledInv
  <2>2. CASE Disable \/ CheckTimer
    BY <1>2, <2>2 DEF ScheduleIInv, OpInv, ScheduleInv, EnabledInv, IsInitialized
  <2>3. CASE LoadFlags \/ StoreFlags
    BY <1>2, <2>3 DEF ScheduleIInv, OpInv, ScheduleInv, EnabledInv, IsInitialized
  <2>4. QED
    BY <2>1, <2>2, <2>3
<1>7. CountInv'
  BY <1>2 DEF ScheduleIInv, OpInv, CountInv
<1>8. QED
  BY <1>3, <1>4, <1>5, <1>6, <1>7 DEF ScheduleIInv

(* A display loss is counted at most once per timer. *)
LEMMA ResetScheduleStep ==
  ASSUME ScheduleIInv, ResetSchedule
  PROVE  ScheduleIInv'
<1> USE DEF flags, kernel, processes, history, ResetSchedule
<1>1. idleLosses' \in 0 .. created
  <2>1. idleLosses \in 0 .. created /\ idleLosses < created /\ created \in Nat
    BY MaxTimersAssumption DEF ScheduleIInv, TypeOK, CountInv, OpInv
  <2>2. QED
    BY <2>1
<1>2. again' \in BOOLEAN
  OBVIOUS
<1>3. TypeOK'
  BY <1>1, <1>2 DEF ScheduleIInv, TypeOK
<1>4. OpInv'
  BY DEF ScheduleIInv, OpInv
<1>5. ScheduleInv'
  BY DEF ScheduleIInv, OpInv, ScheduleInv, IsInitialized
<1>6. EnabledInv'
  BY DEF ScheduleIInv, OpInv, ScheduleInv, EnabledInv, IsInitialized
<1>7. CountInv'
  BY DEF ScheduleIInv, OpInv, CountInv
<1>8. QED
  BY <1>3, <1>4, <1>5, <1>6, <1>7 DEF ScheduleIInv

(* Plugin_Enable finds no timer that can fire, so it replaces none. *)
LEMMA EnableStep ==
  ASSUME ScheduleIInv, Enable
  PROVE  ScheduleIInv'
<1> USE DEF processes, Enable, SetSchedule
<1>1. /\ TypeOK /\ OpInv /\ ScheduleInv /\ EnabledInv /\ CountInv
      /\ CreateTimer /\ created < MaxTimers
  BY DEF ScheduleIInv
<1>2. /\ created' = created + 1 /\ created \in Nat /\ created' \in 0 .. MaxTimers
      /\ timers' \subseteq 1 .. created' /\ handlerData' \subseteq 1 .. created'
      /\ created' \in handlerData' /\ created' \in timers' /\ created' # 0
      /\ schedule' \in [timerid : 0 .. created', data : 0 .. created', running : BOOLEAN]
      /\ schedule'.timerid = created' /\ schedule'.data = created' /\ armed \subseteq timers'
  BY <1>1, CreateEffect
<1>3. armed = {}
  BY <1>1, ArmedTimer DEF EnabledInv, AlreadyEnabled
<1>4. TypeOK'
  <2>1. mishaps' \subseteq Mishaps
    BY <1>1 DEF TypeOK, With, Mishaps
  <2>2. forks' \in 0 .. created' /\ idleLosses' \in 0 .. created'
    BY <1>1, <1>2 DEF TypeOK
  <2>3. QED
    BY <1>1, <1>2, <2>1, <2>2 DEF TypeOK
<1>5. OpInv'
  BY <1>1 DEF OpInv
<1>6. ScheduleInv'
  BY <1>1, <1>2, <1>3 DEF OpInv, ScheduleInv, IsInitialized, With
<1>7. EnabledInv'
  BY <1>1, <1>3 DEF OpInv, EnabledInv
<1>8. CountInv'
  <2>1. forks <= created /\ idleLosses <= created /\ forks \in Nat /\ idleLosses \in Nat
    BY <1>1, Numbers
  <2>2. QED
    BY <1>2, <1>3, <2>1 DEF CountInv
<1>9. QED
  BY <1>4, <1>5, <1>6, <1>7, <1>8 DEF ScheduleIInv

(* Scheduler_start arms the timer in the Schedule_t. *)
LEMMA StartTimerStep ==
  ASSUME ScheduleIInv, StartTimer
  PROVE  ScheduleIInv'
<1> USE DEF flags, processes, history, StartTimer
<1>1. armed' = {schedule.timerid} /\ schedule.timerid \in timers /\ armed = {} /\ IsInitialized
  BY DEF ScheduleIInv, ScheduleInv
<1>2. TypeOK'
  BY <1>1 DEF ScheduleIInv, TypeOK
<1>3. OpInv'
  BY DEF ScheduleIInv, OpInv
<1>4. ScheduleInv'
  BY <1>1 DEF ScheduleIInv, ScheduleInv, IsInitialized
<1>5. EnabledInv'
  BY <1>1 DEF ScheduleIInv, OpInv, EnabledInv
<1>6. CountInv'
  BY <1>1 DEF ScheduleIInv, CountInv
<1>7. QED
  BY <1>2, <1>3, <1>4, <1>5, <1>6 DEF ScheduleIInv

(* The second half of Scheduler_start, whether the timer is still there or not. *)
LEMMA SetRunningStep ==
  ASSUME ScheduleIInv, SetRunning
  PROVE  ScheduleIInv'
<1> USE DEF flags, kernel, processes, history, SetRunning
<1>1. /\ schedule'.timerid = schedule.timerid /\ schedule'.data = schedule.data
      /\ schedule' \in [timerid : 0 .. created, data : 0 .. created, running : BOOLEAN]
  BY DEF ScheduleIInv, TypeOK
<1>2. TypeOK'
  BY <1>1 DEF ScheduleIInv, TypeOK
<1>3. OpInv'
  BY DEF ScheduleIInv, OpInv
<1>4. ScheduleInv'
  BY <1>1 DEF ScheduleIInv, ScheduleInv, IsInitialized
<1>5. EnabledInv'
  BY <1>1 DEF ScheduleIInv, OpInv, EnabledInv
<1>6. CountInv'
  BY DEF ScheduleIInv, OpInv, CountInv
<1>7. QED
  BY <1>2, <1>3, <1>4, <1>5, <1>6 DEF ScheduleIInv

(* Plugin_StopSchedule deletes the timer, and timer 0 only if the handler did it. *)
LEMMA DeleteTimerStep ==
  ASSUME ScheduleIInv, DeleteTimer
  PROVE  ScheduleIInv'
<1>1. /\ created' = created
      /\ timers' \subseteq 1 .. created' /\ handlerData' \subseteq 1 .. created' /\ armed' = {}
      /\ schedule' \in [timerid : 0 .. created', data : 0 .. created', running : BOOLEAN]
      /\ schedule'.timerid = 0 /\ schedule'.data = 0
      /\ pc = "delete" /\ pc' = "kill" /\ mishaps' = With("stray delete", ~IsInitialized)
      /\ UNCHANGED <<kind, enabled, scheduled, inbg, connected, bgScriptPID, children, leaders,
                     forks, op, again, flagsCopy, ran, idleLosses>>
  BY DeleteEffect DEF ScheduleIInv, DeleteTimer, flags, processes
<1>2. TypeOK'
  <2>1. mishaps' \subseteq Mishaps
    BY <1>1 DEF ScheduleIInv, TypeOK, With, Mishaps
  <2>2. QED
    BY <1>1, <2>1 DEF ScheduleIInv, TypeOK
<1>3. OpInv'
  BY <1>1 DEF ScheduleIInv, OpInv
<1>4. ScheduleInv'
  BY <1>1 DEF ScheduleIInv, ScheduleInv, IsInitialized, With
<1>5. EnabledInv'
  BY <1>1 DEF ScheduleIInv, OpInv, EnabledInv
<1>6. CountInv'
  BY <1>1 DEF ScheduleIInv, CountInv
<1>7. QED
  BY <1>2, <1>3, <1>4, <1>5, <1>6 DEF ScheduleIInv

(* Plugin_StopBgScript does not touch the timer. *)
LEMMA KillChildStep ==
  ASSUME ScheduleIInv, KillChild
  PROVE  ScheduleIInv'
<1>1. /\ mishaps' \subseteq Mishaps
      /\ "stray delete" \in mishaps' => "stray delete" \in mishaps
      /\ children' \subseteq 1 .. forks /\ leaders' \subseteq children'
      /\ bgScriptPID' \in {bgScriptPID, -1} /\ inbg' \in BOOLEAN
      /\ pc = "kill" /\ pc' = IF op = "reset" THEN "reset" ELSE "off"
      /\ UNCHANGED <<kind, enabled, scheduled, connected, schedule, timers, armed, handlerData,
                     created, forks, op, again, flagsCopy, ran, idleLosses>>
  BY DEF KillChild, kernel, ScheduleIInv, TypeOK, Stops, With, Mishaps
<1>2. TypeOK'
  <2>1. bgScriptPID \in -1 .. forks /\ -1 \in -1 .. forks
    <3>1. forks \in Nat /\ bgScriptPID \in -1 .. forks
      BY Numbers DEF ScheduleIInv, TypeOK
    <3>2. QED
      BY <3>1
  <2>2. bgScriptPID' \in -1 .. forks
    BY <1>1, <2>1
  <2>3. QED
    BY <1>1, <2>2 DEF ScheduleIInv, TypeOK
<1>3. OpInv'
  BY <1>1 DEF ScheduleIInv, TypeOK, OpInv
<1>4. ScheduleInv'
  BY <1>1 DEF ScheduleIInv, ScheduleInv, IsInitialized
<1>5. EnabledInv'
  BY <1>1 DEF ScheduleIInv, TypeOK, OpInv, EnabledInv
<1>6. CountInv'
  BY <1>1 DEF ScheduleIInv, OpInv, CountInv
<1>7. QED
  BY <1>2, <1>3, <1>4, <1>5, <1>6 DEF ScheduleIInv

(* Plugin_Disable clears the flag when the timer is gone. *)
LEMMA TurnOffStep ==
  ASSUME ScheduleIInv, TurnOff
  PROVE  ScheduleIInv'
<1> USE DEF kernel, processes, history, TurnOff
<1>1. armed = {} /\ ~IsInitialized /\ op \in {"disable", "reload"}
  BY ArmedTimer DEF ScheduleIInv, ScheduleInv, OpInv
<1>2. TypeOK'
  BY DEF ScheduleIInv, TypeOK
<1>3. OpInv'
  BY <1>1 DEF ScheduleIInv, OpInv
<1>4. ScheduleInv'
  BY <1>1 DEF ScheduleIInv, ScheduleInv, IsInitialized
<1>5. EnabledInv'
  BY <1>1 DEF OpInv, EnabledInv, IsInitialized
<1>6. CountInv'
  BY <1>1 DEF ScheduleIInv, OpInv, CountInv
<1>7. QED
  BY <1>2, <1>3, <1>4, <1>5, <1>6 DEF ScheduleIInv

(* Plugin_ResetSchedule makes a new timer after it deleted the old one. *)
LEMMA SetAgainStep ==
  ASSUME ScheduleIInv, SetAgain
  PROVE  ScheduleIInv'
<1> USE DEF processes, SetAgain, SetSchedule
<1>1. /\ TypeOK /\ OpInv /\ ScheduleInv /\ EnabledInv /\ CountInv
      /\ CreateTimer /\ created < MaxTimers
  BY DEF ScheduleIInv, OpInv
<1>2. /\ created' = created + 1 /\ created \in Nat /\ created' \in 0 .. MaxTimers
      /\ timers' \subseteq 1 .. created' /\ handlerData' \subseteq 1 .. created'
      /\ created' \in handlerData' /\ created' \in timers' /\ created' # 0
      /\ schedule' \in [timerid : 0 .. created', data : 0 .. created', running : BOOLEAN]
      /\ schedule'.timerid = created' /\ schedule'.data = created' /\ armed \subseteq timers'
  BY <1>1, CreateEffect
<1>3. armed = {}
  BY <1>1, ArmedTimer DEF ScheduleInv
<1>4. TypeOK'
  <2>1. forks' \in 0 .. created' /\ idleLosses' \in 0 .. created'
    BY <1>1, <1>2 DEF TypeOK
  <2>2. QED
    BY <1>1, <1>2, <2>1 DEF TypeOK
<1>5. OpInv'
  BY <1>1 DEF OpInv
<1>6. ScheduleInv'
  BY <1>1, <1>2, <1>3 DEF OpInv, ScheduleInv, IsInitialized
<1>7. EnabledInv'
  <2>1. pc' \in {"start", "idle"} /\ (pc' = "start" => enabled) /\ op' = "none"
    BY DEF StartsAgain
  <2>2. armed' = {} /\ scheduled' = TRUE /\ enabled' = enabled
    BY <1>3
  <2>3. QED
    BY <2>1, <2>2 DEF EnabledInv
<1>8. CountInv'
  <2>1. forks <= created /\ idleLosses <= created /\ forks \in Nat /\ idleLosses \in Nat
    BY <1>1, Numbers
  <2>2. armed' = {} /\ forks' = forks /\ idleLosses' = idleLosses
    BY <1>3
  <2>3. QED
    BY <1>2, <2>1, <2>2 DEF CountInv
<1>9. QED
  BY <1>4, <1>5, <1>6, <1>7, <1>8 DEF ScheduleIInv

(* Plugin_Reload forgets a timer only when it cannot fire. *)
LEMMA FreeAndLoadStep ==
  ASSUME ScheduleIInv, FreeAndLoad
  PROVE  ScheduleIInv'
<1>1. /\ TypeOK /\ OpInv /\ ScheduleInv /\ EnabledInv /\ CountInv
      /\ created < MaxTimers /\ op = "reload" /\ ~enabled /\ armed = {}
  BY DEF ScheduleIInv, OpInv, EnabledInv, FreeAndLoad
<1>2. forks <= created /\ idleLosses <= created /\ forks \in Nat /\ idleLosses \in Nat
      /\ created \in Nat /\ created <= MaxTimers
  BY <1>1, Numbers
<1>3. /\ inbg' = FALSE /\ bgScriptPID' = 0 /\ connected' = FALSE /\ enabled' = again
      /\ op' = "none" /\ armed' = {} /\ forks' = forks /\ idleLosses' = idleLosses
      /\ again \in BOOLEAN
      /\ UNCHANGED <<kind, children, leaders, again, flagsCopy, mishaps>>
  BY <1>1 DEF FreeAndLoad, TypeOK
<1>4. CASE again
  <2>1. CreateTimer /\ scheduled' = TRUE /\ ran' = FALSE /\ pc' = "start"
    BY <1>4 DEF FreeAndLoad, SetSchedule
  <2>2. /\ created' = created + 1 /\ created' \in 0 .. MaxTimers
        /\ timers' \subseteq 1 .. created' /\ handlerData' \subseteq 1 .. created'
        /\ created' \in handlerData' /\ created' \in timers' /\ created' # 0
        /\ schedule' \in [timerid : 0 .. created', data : 0 .. created', running : BOOLEAN]
        /\ schedule'.timerid = created' /\ schedule'.data = created'
    BY <1>1, <2>1, CreateEffect
  <2>3. TypeOK'
    <3>1. forks' \in 0 .. created' /\ idleLosses' \in 0 .. created' /\ 0 \in -1 .. forks'
      BY <1>2, <1>3, <2>2
    <3>2. QED
      BY <1>1, <1>3, <2>1, <2>2, <3>1 DEF TypeOK
  <2>4. OpInv' /\ EnabledInv'
    BY <1>3, <1>4, <2>1 DEF OpInv, EnabledInv
  <2>5. ScheduleInv'
    BY <1>1, <1>3, <2>1, <2>2 DEF ScheduleInv, IsInitialized
  <2>6. CountInv'
    BY <1>2, <1>3, <2>1, <2>2 DEF CountInv
  <2>7. QED
    BY <2>3, <2>4, <2>5, <2>6 DEF ScheduleIInv
<1>5. CASE ~again
  <2>1. /\ scheduled' = FALSE /\ schedule' = Zeroed /\ pc' = "idle"
        /\ UNCHANGED <<timers, handlerData, created, ran>>
    BY <1>5 DEF FreeAndLoad
  <2>2. TypeOK'
    <3>1. schedule' \in [timerid : 0 .. created', data : 0 .. created', running : BOOLEAN]
          /\ 0 \in -1 .. forks'
      BY <1>2, <1>3, <2>1 DEF Zeroed
    <3>2. QED
      BY <1>1, <1>3, <2>1, <3>1 DEF TypeOK
  <2>3. OpInv' /\ EnabledInv'
    BY <1>3, <1>5, <2>1 DEF OpInv, EnabledInv
  <2>4. ScheduleInv'
    BY <1>1, <1>3, <2>1 DEF ScheduleInv, IsInitialized, Zeroed
  <2>5. CountInv'
    BY <1>2, <1>3, <2>1 DEF CountInv
  <2>6. QED
    BY <2>2, <2>3, <2>4, <2>5 DEF ScheduleIInv
<1>6. QED
  BY <1>4, <1>5

(* The timer fires for an enabled plugin only, so that the test of its     *)
(* flags in _scheduleHandler always succeeds.                              *)
LEMMA HandlerEffect ==
  ASSUME ScheduleIInv, Handler
  PROVE  /\ TypeOK /\ OpInv /\ ScheduleInv /\ EnabledInv /\ CountInv
         /\ armed # {} /\ enabled /\ scheduled /\ IsInitialized
         /\ Launch \/ RunScript \/ ScriptFails \/ KeepWaiting
         /\ UNCHANGED <<connected, pc, op, again, flagsCopy, idleLosses>>
<1>1. TypeOK /\ OpInv /\ ScheduleInv /\ EnabledInv /\ CountInv /\ armed # {}
  BY DEF ScheduleIInv, Handler
<1>2. enabled /\ scheduled
  BY <1>1 DEF EnabledInv
<1>3. QED
  BY <1>1, <1>2, ArmedTimer DEF Handler, control

(* The handler forks and deletes its own timer: one fork per timer. *)
LEMMA LaunchStep ==
  ASSUME ScheduleIInv, Handler, Launch
  PROVE  ScheduleIInv'
<1>1. /\ TypeOK /\ OpInv /\ ScheduleInv /\ EnabledInv /\ CountInv /\ armed # {}
      /\ UNCHANGED <<connected, pc, op, again, flagsCopy, idleLosses, kind, enabled, scheduled>>
      /\ SchedulerDelete
      /\ \/ /\ forks' = forks + 1 /\ bgScriptPID' = forks'
            /\ children' = children \cup {forks'} /\ leaders' \subseteq leaders \cup {forks'}
         \/ bgScriptPID' = -1 /\ UNCHANGED <<forks, children, leaders>>
      /\ inbg' \in BOOLEAN /\ ran' \in {TRUE, ran}
      /\ mishaps' \in {mishaps, With("fork failed", TRUE)}
  BY HandlerEffect DEF Launch
<1>2. /\ created' = created
      /\ timers' \subseteq 1 .. created' /\ handlerData' \subseteq 1 .. created' /\ armed' = {}
      /\ schedule' \in [timerid : 0 .. created', data : 0 .. created', running : BOOLEAN]
      /\ schedule'.timerid = 0 /\ schedule'.data = 0
  BY <1>1, DeleteEffect
<1>3. forks < created /\ forks \in Nat /\ created \in Nat
  BY <1>1, Numbers DEF CountInv
<1>4. TypeOK'
  <2>1. mishaps' \subseteq Mishaps /\ {inbg', ran'} \subseteq BOOLEAN
    BY <1>1 DEF TypeOK, With, Mishaps
  <2>2. forks' \in 0 .. created' /\ forks' \in Nat
    <3>1. CASE forks' = forks + 1
      BY <1>2, <1>3, <3>1
    <3>2. CASE forks' = forks
      BY <1>2, <1>3, <3>2
    <3>3. QED
      BY <1>1, <3>1, <3>2
  <2>3. bgScriptPID' \in -1 .. forks'
    <3>1. bgScriptPID' = forks' \/ bgScriptPID' = -1
      BY <1>1
    <3>2. QED
      BY <2>2, <3>1
  <2>4. children' \subseteq 1 .. forks' /\ leaders' \subseteq children'
    <3>1. children \subseteq 1 .. forks /\ leaders \subseteq children
      BY <1>1 DEF TypeOK
    <3>2. 1 .. forks \subseteq 1 .. forks + 1 /\ forks + 1 \in 1 .. forks + 1
      BY <1>3
    <3>3. QED
      BY <1>1, <3>1, <3>2
  <2>5. QED
    BY <1>1, <1>2, <2>1, <2>2, <2>3, <2>4 DEF TypeOK
<1>5. OpInv'
  BY <1>1, <1>2 DEF OpInv
<1>6. ScheduleInv'
  <2>1. "stray delete" \in mishaps' => "stray delete" \in mishaps
    <3>1. mishaps' \subseteq mishaps \cup {"fork failed"}
      BY <1>1 DEF With
    <3>2. QED
      BY <3>1, "stray delete" # "fork failed"
  <2>2. pc # "start" /\ kind = "background"
    BY <1>1 DEF ScheduleInv, Launch
  <2>3. ~IsInitialized'
    BY <1>2 DEF IsInitialized
  <2>4. QED
    BY <1>1, <1>2, <2>1, <2>2, <2>3 DEF ScheduleInv
<1>7. EnabledInv'
  BY <1>1, <1>2 DEF EnabledInv, IsInitialized
<1>8. CountInv'
  <2>1. pc' # "start"
    BY <1>1 DEF ScheduleInv
  <2>2. QED
    BY <1>1, <1>2, <2>1 DEF CountInv
<1>9. QED
  BY <1>4, <1>5, <1>6, <1>7, <1>8 DEF ScheduleIInv

(* The handler of a one-shot script deletes its own timer, that of a periodic one not. *)
LEMMA RunScriptStep ==
  ASSUME ScheduleIInv, Handler, RunScript
  PROVE  ScheduleIInv'
<1>1. /\ TypeOK /\ OpInv /\ ScheduleInv /\ EnabledInv /\ CountInv /\ armed # {}
      /\ UNCHANGED <<connected, pc, op, again, flagsCopy, idleLosses, kind, enabled, scheduled,
                     inbg, bgScriptPID, children, leaders, forks, mishaps>>
      /\ ran' = TRUE
  BY HandlerEffect DEF RunScript, flags, processes
<1>2. CASE kind = "oneshot"
  <2>1. /\ created' = created
        /\ timers' \subseteq 1 .. created' /\ handlerData' \subseteq 1 .. created' /\ armed' = {}
        /\ schedule' \in [timerid : 0 .. created', data : 0 .. created', running : BOOLEAN]
        /\ schedule'.timerid = 0 /\ schedule'.data = 0
    BY <1>1, <1>2, DeleteEffect DEF RunScript
  <2>2. TypeOK'
    BY <1>1, <2>1 DEF TypeOK
  <2>3. OpInv'
    BY <1>1, <2>1 DEF OpInv
  <2>4. ScheduleInv'
    BY <1>1, <1>2, <2>1 DEF ScheduleInv, IsInitialized
  <2>5. EnabledInv'
    BY <1>1, <2>1 DEF EnabledInv, IsInitialized
  <2>6. CountInv'
    <3>1. forks <= created /\ forks \in Nat /\ created \in Nat /\ pc' # "start"
      BY <1>1, Numbers DEF ScheduleInv
    <3>2. QED
      BY <1>1, <2>1, <3>1 DEF CountInv
  <2>7. QED
    BY <2>2, <2>3, <2>4, <2>5, <2>6 DEF ScheduleIInv
<1>3. CASE kind # "oneshot"
  <2>1. UNCHANGED <<schedule, timers, armed, handlerData, created>>
    BY <1>3 DEF RunScript, kernel
  <2>2. TypeOK'
    BY <1>1, <2>1 DEF TypeOK
  <2>3. OpInv' /\ ScheduleInv' /\ EnabledInv' /\ CountInv'
    BY <1>1, <2>1 DEF OpInv, ScheduleInv, EnabledInv, CountInv, IsInitialized
  <2>4. QED
    BY <2>2, <2>3 DEF ScheduleIInv
<1>4. QED
  BY <1>2, <1>3

(* A popen that fails leaves the timer as it is. *)
LEMMA ScriptFailsStep ==
  ASSUME ScheduleIInv, Handler, ScriptFails
  PROVE  ScheduleIInv'
<1>1. /\ UNCHANGED <<kind, enabled, scheduled, inbg, connected, bgScriptPID, children, leaders,
                     forks, schedule, timers, armed, handlerData, created, pc, op, again,
                     flagsCopy, ran, idleLosses>>
      /\ mishaps' = mishaps \cup {"popen failed"}
  BY DEF Handler, ScriptFails, With, flags, kernel, processes, control
<1>2. mishaps' \subseteq Mishaps /\ ("stray delete" \in mishaps' => "stray delete" \in mishaps)
  BY <1>1 DEF ScheduleIInv, TypeOK, Mishaps
<1>3. TypeOK'
  BY <1>1, <1>2 DEF ScheduleIInv, TypeOK
<1>4. QED
  BY <1>1, <1>2, <1>3
     DEF ScheduleIInv, OpInv, ScheduleInv, EnabledInv, CountInv, IsInitialized

(* Steps of the page, and of processes other than the daemon. *)
LEMMA OtherSteps ==
  ASSUME ScheduleIInv,
         \/ UNCHANGED vars \/ Connect \/ Disconnect \/ ChildSetsGroup \/ ChildExits
         \/ Handler /\ KeepWaiting
  PROVE  ScheduleIInv'
<1>1. UNCHANGED <<kind, enabled, scheduled, inbg, bgScriptPID, forks, schedule, timers, armed,
                  handlerData, created, pc, op, again, flagsCopy, ran, idleLosses, mishaps>>
  BY DEF vars, Connect, Disconnect, ChildSetsGroup, ChildExits, Handler, KeepWaiting,
         flags, kernel, processes, control, history
<1>2. connected' \in BOOLEAN /\ children' \subseteq 1 .. forks /\ leaders' \subseteq children'
  BY DEF ScheduleIInv, TypeOK, vars, Connect, Disconnect, ChildSetsGroup, ChildExits, Handler,
         KeepWaiting, flags, kernel, processes, control, history
<1>3. TypeOK'
  BY <1>1, <1>2 DEF ScheduleIInv, TypeOK
<1>4. QED
  BY <1>1, <1>3
     DEF ScheduleIInv, OpInv, ScheduleInv, EnabledInv, CountInv, IsInitialized

(* Every step preserves the inductive invariant. *)
LEMMA IInvStep == ScheduleIInv /\ [Next]_vars => ScheduleIInv'
<1> SUFFICES ASSUME ScheduleIInv, [Next]_vars PROVE ScheduleIInv'
  OBVIOUS
<1>1. CASE Handler
  BY <1>1, HandlerEffect, LaunchStep, RunScriptStep, ScriptFailsStep, OtherSteps
<1>2. CASE MainStep
  BY <1>2, StartTimerStep, SetRunningStep, ControlSteps, DeleteTimerStep, KillChildStep,
     TurnOffStep, SetAgainStep, FreeAndLoadStep DEF MainStep
<1>3. QED
  BY <1>1, <1>2, EnableStep, ControlSteps, ResetScheduleStep, OtherSteps DEF Next

(* The inductive invariant holds throughout. *)
LEMMA IInvAlways == Spec => []ScheduleIInv
  BY IInvInit, IInvStep, PTL DEF Spec

(* Nothing that happened is forgotten. *)
LEMMA MishapsKept ==
  ASSUME [Next]_vars
  PROVE  mishaps \subseteq mishaps'
<1>1. CASE Handler
  BY <1>1 DEF Handler, Launch, RunScript, ScriptFails, KeepWaiting, With
<1>2. CASE MainStep
  BY <1>2 DEF MainStep, StartTimer, SetRunning, CheckTimer, DeleteTimer, KillChild, TurnOff,
              SetAgain, FreeAndLoad, StoreFlags, history, With
<1>3. CASE UNCHANGED vars
  BY <1>3 DEF vars, history
<1>4. QED
  BY <1>1, <1>2, <1>3 DEF Next, Enable, Disable, Reload, ResetSchedule, LoadFlags, Connect,
     Disconnect, ChildSetsGroup, ChildExits, history, With

(* What the handler leaves behind: as it was, or a deleted timer and an    *)
(* operation to which the run, or the process, is known.                   *)
LEMMA HandlerResult ==
  ASSUME ScheduleIInv, Handler
  PROVE  /\ UNCHANGED <<kind, connected, enabled, pc, op, again, idleLosses>>
         /\ \/ UNCHANGED <<schedule, timers, armed, bgScriptPID, inbg, children>>
            \/ /\ SchedulerDelete /\ armed' = {} /\ ~IsInitialized'
               /\ \/ kind = "oneshot" /\ UNCHANGED <<bgScriptPID, inbg, children>>
                  \/ bgScriptPID' > 0 /\ inbg' /\ children' = children \cup {bgScriptPID'}
                  \/ "fork failed" \in mishaps' /\ children' = children /\ inbg'
<1>1. /\ TypeOK /\ OpInv /\ ScheduleInv /\ EnabledInv /\ CountInv
      /\ armed # {} /\ enabled /\ scheduled /\ IsInitialized
      /\ Launch \/ RunScript \/ ScriptFails \/ KeepWaiting
      /\ UNCHANGED <<connected, pc, op, again, flagsCopy, idleLosses>>
  BY HandlerEffect
<1>2. forks \in Nat
  BY <1>1, Numbers
<1>3. CASE Launch
  <2>1. SchedulerDelete /\ armed' = {} /\ ~IsInitialized'
    BY <1>1, <1>3, DeleteEffect DEF Launch, IsInitialized
  <2>2. UNCHANGED <<kind, enabled>> /\ inbg' = TRUE
    BY <1>3 DEF Launch
  <2>3. \/ forks' = forks + 1 /\ bgScriptPID' = forks' /\ children' = children \cup {forks'}
        \/ "fork failed" \in mishaps' /\ children' = children
    BY <1>3 DEF Launch, With
  <2>4. \/ bgScriptPID' > 0 /\ children' = children \cup {bgScriptPID'}
        \/ "fork failed" \in mishaps' /\ children' = children
    <3>1. forks' = forks + 1 => forks' > 0
      BY <1>2
    <3>2. QED
      BY <2>3, <3>1
  <2>5. QED
    BY <1>1, <1>3, <2>1, <2>2, <2>4 DEF Launch
<1>4. CASE RunScript
  <2>1. UNCHANGED <<kind, enabled, inbg, bgScriptPID, children>>
    BY <1>4 DEF RunScript, flags, processes
  <2>2. CASE kind = "oneshot"
    <3>1. SchedulerDelete /\ armed' = {} /\ ~IsInitialized'
      BY <1>1, <1>4, <2>2, DeleteEffect DEF RunScript, IsInitialized
    <3>2. QED
      BY <1>1, <2>1, <2>2, <3>1
  <2>3. CASE kind # "oneshot"
    BY <1>1, <1>4, <2>1, <2>3 DEF RunScript, kernel
  <2>4. QED
    BY <2>2, <2>3
<1>5. CASE ScriptFails \/ KeepWaiting
  BY <1>1, <1>5 DEF ScriptFails, KeepWaiting, flags, kernel, processes
<1>6. QED
  BY <1>1, <1>3, <1>4, <1>5

(* An enabled plugin waits for its timer, or has had its run: so a         *)
(* display loss starts the timer again.                                    *)
LEMMA ArmedStep ==
  ASSUME ScheduleIInv, ArmedInv, [Next]_vars
  PROVE  ArmedInv'
<1> SUFFICES ASSUME ~Failed', enabled'
             PROVE  /\ pc' \in {"idle", "running", "store"} =>
                         IF IsInitialized'
                           THEN armed' # {} /\ (pc' # "running" => IsTicking')
                           ELSE Served'
                    /\ op' = "reset" => again'
  BY DEF ArmedInv
<1>1. ~Failed
  BY MishapsKept DEF Failed
<1>2. /\ enabled /\ pc \in {"idle", "running", "store"} =>
           IF IsInitialized THEN armed # {} /\ (pc # "running" => IsTicking) ELSE Served
      /\ enabled /\ op = "reset" => again
  BY <1>1 DEF ArmedInv
<1>3. OpInv /\ ScheduleInv /\ EnabledInv
  BY DEF ScheduleIInv
<1>4. CASE Enable
  BY <1>3, <1>4 DEF Enable, OpInv
<1>5. CASE Disable \/ Reload
  BY <1>5 DEF Disable, Reload, flags
<1>6. CASE ResetSchedule
  <2>1. enabled /\ pc = "idle" /\ again' = (IsTicking \/ kind = "oneshot" \/ bgScriptPID > 0)
        /\ pc' = "check"
    BY <1>6 DEF ResetSchedule, flags
  <2>2. QED
    BY <1>2, <2>1 DEF Served
<1>7. CASE StartTimer
  BY <1>3, <1>7 DEF StartTimer, OpInv, ScheduleInv, IsInitialized
<1>8. CASE SetRunning
  <2>1. /\ enabled /\ pc = "running" /\ op' = "none" /\ pc' = "idle"
        /\ schedule' = [schedule EXCEPT !.running = TRUE]
        /\ UNCHANGED <<armed, kind, bgScriptPID>>
    BY <1>8 DEF SetRunning, flags, kernel, processes
  <2>2. schedule \in [timerid : 0 .. created, data : 0 .. created, running : BOOLEAN]
    BY DEF ScheduleIInv, TypeOK
  <2>3. IsTicking' /\ (IsInitialized' <=> IsInitialized)
    BY <2>1, <2>2 DEF IsTicking, IsInitialized
  <2>4. QED
    BY <1>2, <2>1, <2>3 DEF Served
<1>9. CASE CheckTimer \/ DeleteTimer
  <2>1. pc' \in {"delete", "kill"} /\ UNCHANGED <<enabled, op, again>>
    BY <1>9 DEF CheckTimer, DeleteTimer, flags
  <2>2. QED
    BY <1>2, <2>1
<1>10. CASE KillChild
  <2>1. pc' \in {"reset", "off"} /\ UNCHANGED <<enabled, op, again>>
    BY <1>10 DEF KillChild
  <2>2. QED
    BY <1>2, <2>1
<1>11. CASE TurnOff
  BY <1>11 DEF TurnOff
<1>12. CASE SetAgain
  BY <1>2, <1>3, <1>12 DEF SetAgain, StartsAgain, OpInv
<1>13. CASE FreeAndLoad
  BY <1>13 DEF FreeAndLoad
<1>14. CASE LoadFlags \/ StoreFlags \/ Connect \/ Disconnect \/ ChildSetsGroup \/ ChildExits
            \/ UNCHANGED vars
  <2>1. /\ UNCHANGED <<kind, enabled, schedule, armed, bgScriptPID, op, again>>
        /\ \/ pc' = pc
           \/ pc \in {"idle", "store"} /\ pc' \in {"idle", "store"}
    BY <1>14 DEF LoadFlags, StoreFlags, Connect, Disconnect, ChildSetsGroup, ChildExits, vars,
                 flags, kernel, processes, control
  <2>2. QED
    BY <1>2, <2>1 DEF IsInitialized, IsTicking, Served
<1>15. CASE Handler
  <2>1. /\ UNCHANGED <<kind, enabled, pc, op, again>>
        /\ \/ UNCHANGED <<schedule, armed, bgScriptPID>>
           \/ ~IsInitialized' /\ (kind = "oneshot" \/ bgScriptPID' > 0)
    BY <1>15, HandlerResult DEF Failed
  <2>2. QED
    BY <1>2, <2>1 DEF IsInitialized, IsTicking, Served
<1>16. QED
  BY <1>4, <1>5, <1>6, <1>7, <1>8, <1>9, <1>10, <1>11, <1>12, <1>13, <1>14, <1>15
     DEF Next, MainStep

(* With nothing unusual, the process alive is the one on record. *)
LEMMA ChildStep ==
  ASSUME ScheduleIInv, ChildInv, [Next]_vars
  PROVE  ChildInv'
<1> SUFFICES ASSUME Clean'
             PROVE  /\ children' \subseteq {bgScriptPID'}
                    /\ children' # {} => inbg'
                    /\ children' # {} =>
                         enabled' /\ armed' = {} /\ pc' \notin {"start", "off", "reset"}
  BY DEF ChildInv
<1>1. Clean
  BY MishapsKept DEF Clean
<1>2. /\ children \subseteq {bgScriptPID}
      /\ children # {} =>
           inbg /\ enabled /\ armed = {} /\ pc \notin {"start", "off", "reset"}
  BY <1>1 DEF ChildInv
<1>3. OpInv /\ ScheduleInv /\ EnabledInv /\ TypeOK
  BY DEF ScheduleIInv
<1>4. CASE Enable
  <2>1. "reenabled" \notin With("reenabled", enabled /\ inbg)
    BY <1>4 DEF Enable, Clean
  <2>2. children = {}
    BY <1>2, <2>1 DEF With
  <2>3. QED
    BY <1>4, <2>2 DEF Enable, processes
<1>5. CASE StartTimer \/ SetAgain \/ TurnOff \/ FreeAndLoad
  <2>1. children = {}
    BY <1>2, <1>3, <1>5 DEF StartTimer, SetAgain, TurnOff, FreeAndLoad, EnabledInv
  <2>2. QED
    BY <1>5, <2>1 DEF StartTimer, SetAgain, TurnOff, FreeAndLoad, processes
<1>6. CASE KillChild
  <2>1. children # {} => bgScriptPID > 0 /\ children = {bgScriptPID} /\ inbg
    <3>1. children \subseteq 1 .. forks /\ forks \in Nat
      BY <1>3, Numbers DEF TypeOK
    <3>2. children # {} => bgScriptPID \in children /\ inbg
      BY <1>2
    <3>3. bgScriptPID \in children => bgScriptPID > 0
      BY <3>1
    <3>4. QED
      BY <1>2, <3>2, <3>3
  <2>2. CASE inbg /\ bgScriptPID > 0
    <3>1. children' = children \ Stops /\ mishaps' = With("overtaken", bgScriptPID \in children \ leaders)
      BY <1>6, <2>2 DEF KillChild
    <3>2. bgScriptPID \notin children \ leaders
      BY <3>1 DEF Clean, With
    <3>3. children' = {}
      BY <1>2, <3>1, <3>2 DEF Stops
    <3>4. QED
      BY <3>3
  <2>3. CASE ~(inbg /\ bgScriptPID > 0)
    BY <1>6, <2>1, <2>3 DEF KillChild
  <2>4. QED
    BY <2>2, <2>3
<1>7. CASE StoreFlags
  <2>1. /\ pc' = "idle" /\ inbg' = flagsCopy
        /\ UNCHANGED <<enabled, armed, bgScriptPID, children>>
        /\ mishaps' = With("flag lost", inbg /\ ~flagsCopy)
    BY <1>7 DEF StoreFlags, kernel, processes
  <2>2. ~(inbg /\ ~flagsCopy)
    BY <2>1 DEF Clean, With
  <2>3. QED
    BY <1>2, <2>1, <2>2
<1>8. CASE DeleteTimer
  <2>1. /\ pc' = "kill" /\ UNCHANGED <<enabled, bgScriptPID, children, inbg>>
        /\ SchedulerDelete
    BY <1>8 DEF DeleteTimer, flags, processes
  <2>2. armed' = {}
    BY <1>3, <2>1, DeleteEffect
  <2>3. QED
    BY <1>2, <2>1, <2>2
<1>9. CASE \/ Disable \/ Reload \/ ResetSchedule \/ SetRunning \/ CheckTimer \/ LoadFlags
           \/ Connect \/ Disconnect \/ ChildSetsGroup \/ ChildExits \/ UNCHANGED vars
  <2>1. /\ UNCHANGED <<enabled, armed, bgScriptPID, inbg>> /\ children' \subseteq children
        /\ pc' = pc \/ pc' \in {"idle", "check", "delete", "kill", "free", "store"}
    BY <1>9 DEF Disable, Reload, ResetSchedule, SetRunning, CheckTimer, LoadFlags, Connect,
                Disconnect, ChildSetsGroup, ChildExits, vars, flags, kernel, processes, control
  <2>2. QED
    BY <1>2, <2>1
<1>10. CASE Handler
  <2>1. armed # {} /\ IsInitialized /\ enabled
    BY <1>10, HandlerEffect
  <2>2. children = {} /\ pc \notin {"start", "off", "reset"}
    BY <1>2, <1>3, <2>1 DEF ScheduleInv
  <2>3. UNCHANGED <<enabled, pc>>
    BY <1>10, HandlerResult
  <2>4. \/ children' = {}
        \/ children' = {bgScriptPID'} /\ inbg' /\ armed' = {}
    BY <1>10, <2>2, HandlerResult
  <2>5. QED
    BY <2>1, <2>2, <2>3, <2>4
<1>11. QED
  BY <1>4, <1>5, <1>6, <1>7, <1>8, <1>9, <1>10 DEF Next, MainStep

(* The timers no Schedule_t names can be counted, and are all but one.     *)
LEMMA LeakCount ==
  ASSUME TypeOK
  PROVE  /\ Cardinality(timers) \in Nat /\ Cardinality(Leaked) \in Nat
         /\ Cardinality(timers) <= Cardinality(Leaked) + 1
         /\ 0 \notin timers
         /\ schedule.timerid = 0 => Leaked = timers
<1>1. created \in Nat /\ timers \subseteq 1 .. created
  BY Numbers DEF TypeOK
<1>2. IsFiniteSet(timers)
  <2>1. IsFiniteSet(1 .. created)
    BY <1>1, FS_Interval
  <2>2. QED
    BY <1>1, <2>1, FS_Subset
<1>3. Cardinality(timers) \in Nat
  BY <1>2, FS_CardinalityType
<1>4. /\ IsFiniteSet(Leaked)
      /\ Cardinality(Leaked) = IF schedule.timerid \in timers THEN Cardinality(timers) - 1
                               ELSE Cardinality(timers)
  BY <1>2, FS_RemoveElement DEF Leaked
<1>5. Cardinality(Leaked) \in Nat
  BY <1>4, FS_CardinalityType
<1>6. 0 \notin timers
  BY <1>1
<1>7. schedule.timerid = 0 => Leaked = timers
  BY <1>6 DEF Leaked
<1>8. QED
  BY <1>3, <1>4, <1>5, <1>6, <1>7

(* A new timer is the plugin's; the one it had, if any, is leaked.         *)
LEMMA CreateLeaks ==
  ASSUME TypeOK, created < MaxTimers, CreateTimer
  PROVE  Leaked' = timers /\ IsInitialized'
  BY CreateEffect DEF Leaked, IsInitialized

(* Deleting the plugin's timer leaks none. *)
LEMMA DeleteLeaks ==
  ASSUME TypeOK, ScheduleInv, SchedulerDelete
  PROVE  Leaked' = Leaked /\ ~IsInitialized'
<1>1. timers' = timers \ {schedule.timerid} /\ schedule'.timerid = 0 /\ schedule'.data = 0
  BY DeleteEffect
<1>2. 0 \notin timers
  BY LeakCount
<1>3. QED
  BY <1>1, <1>2 DEF Leaked, IsInitialized

(* Only Plugin_Enable and Plugin_ResetSchedule of an idle, disabled plugin   *)
(* and Plugin_Reload leak a timer, one that a display loss made.               *)
LEMMA LeakStep ==
  ASSUME ScheduleIInv, LeakInv, [Next]_vars
  PROVE  LeakInv'
<1>1. OpInv /\ ScheduleInv /\ EnabledInv /\ TypeOK
  BY DEF ScheduleIInv
<1>2. /\ Cardinality(timers) \in Nat /\ Cardinality(Leaked) \in Nat /\ idleLosses \in Nat
      /\ Cardinality(timers) <= Cardinality(Leaked) + 1
      /\ 0 \notin timers /\ (~IsInitialized => Leaked = timers)
  BY <1>1, LeakCount, Numbers DEF ScheduleInv, IsInitialized
<1>3. /\ Cardinality(Leaked) <= idleLosses
      /\ ~enabled /\ (IsInitialized \/ op = "reset") => Cardinality(Leaked) < idleLosses
  BY DEF LeakInv
<1>4. CASE Enable
  <2>1. /\ CreateTimer /\ created < MaxTimers /\ enabled' /\ idleLosses' = idleLosses
        /\ ~(enabled /\ IsInitialized)
    BY <1>4 DEF Enable, SetSchedule, AlreadyEnabled
  <2>2. Leaked' = timers
    BY <1>1, <2>1, CreateLeaks
  <2>3. Cardinality(timers) <= idleLosses
    <3>1. CASE IsInitialized
      BY <1>2, <1>3, <2>1, <3>1
    <3>2. CASE ~IsInitialized
      BY <1>2, <1>3, <3>2
    <3>3. QED
      BY <3>1, <3>2
  <2>4. QED
    BY <2>1, <2>2, <2>3 DEF LeakInv
<1>5. CASE SetAgain
  <2>1. /\ CreateTimer /\ created < MaxTimers /\ ~IsInitialized /\ op = "reset"
        /\ UNCHANGED <<enabled, idleLosses>>
    BY <1>1, <1>5 DEF SetAgain, SetSchedule, OpInv, ScheduleInv
  <2>2. Leaked' = Leaked
    BY <1>1, <1>2, <2>1, CreateLeaks
  <2>3. QED
    BY <1>3, <2>1, <2>2 DEF LeakInv
<1>6. CASE FreeAndLoad
  <2>1. /\ ~enabled /\ created < MaxTimers /\ op' = "none" /\ enabled' = again
        /\ idleLosses' = idleLosses /\ (again => ~IsInitialized)
    BY <1>1, <1>6 DEF FreeAndLoad, OpInv, EnabledInv
  <2>2. CASE again
    <3>1. CreateTimer
      BY <1>6, <2>2 DEF FreeAndLoad, SetSchedule
    <3>2. Leaked' = Leaked
      BY <1>1, <1>2, <2>1, <2>2, <3>1, CreateLeaks
    <3>3. QED
      BY <1>3, <2>1, <2>2, <3>2 DEF LeakInv
  <2>3. CASE ~again
    <3>1. schedule' = Zeroed /\ timers' = timers
      BY <1>6, <2>3 DEF FreeAndLoad
    <3>2. Leaked' = timers /\ ~IsInitialized'
      BY <1>2, <3>1 DEF Leaked, Zeroed, IsInitialized
    <3>3. Cardinality(timers) <= idleLosses
      <4>1. CASE IsInitialized
        BY <1>2, <1>3, <2>1, <4>1
      <4>2. CASE ~IsInitialized
        BY <1>2, <1>3, <4>2
      <4>3. QED
        BY <4>1, <4>2
    <3>4. QED
      BY <2>1, <3>2, <3>3 DEF LeakInv
  <2>4. QED
    BY <2>2, <2>3
<1>7. CASE DeleteTimer
  <2>1. SchedulerDelete /\ UNCHANGED <<enabled, op, idleLosses>>
    BY <1>7 DEF DeleteTimer, flags
  <2>2. Leaked' = Leaked /\ ~IsInitialized'
    BY <1>1, <2>1, DeleteLeaks
  <2>3. QED
    BY <1>3, <2>1, <2>2 DEF LeakInv
<1>8. CASE Handler
  <2>1. UNCHANGED <<enabled, op, idleLosses>>
    BY <1>8, HandlerResult
  <2>2. CASE UNCHANGED <<schedule, timers>>
    BY <1>3, <2>1, <2>2 DEF LeakInv, Leaked, IsInitialized
  <2>3. CASE SchedulerDelete
    <3>1. Leaked' = Leaked /\ ~IsInitialized'
      BY <1>1, <2>3, DeleteLeaks
    <3>2. QED
      BY <1>3, <2>1, <3>1 DEF LeakInv
  <2>4. QED
    BY <1>8, <2>2, <2>3, HandlerResult
<1>9. CASE ResetSchedule
  <2>1. /\ UNCHANGED <<enabled, schedule, timers>> /\ enabled \in BOOLEAN
        /\ idleLosses' = IF enabled THEN idleLosses ELSE idleLosses + 1
    BY <1>1, <1>9 DEF ResetSchedule, flags, kernel, TypeOK
  <2>2. Leaked' = Leaked
    BY <2>1 DEF Leaked
  <2>3. CASE enabled
    BY <1>3, <2>1, <2>2, <2>3 DEF LeakInv
  <2>4. CASE ~enabled
    <3>1. idleLosses' = idleLosses + 1
      BY <2>1, <2>4
    <3>2. Cardinality(Leaked) < idleLosses + 1 /\ Cardinality(Leaked) <= idleLosses + 1
      BY <1>2, <1>3
    <3>3. QED
      BY <2>2, <3>1, <3>2 DEF LeakInv
  <2>5. QED
    BY <2>3, <2>4
<1>10. CASE TurnOff
  <2>1. UNCHANGED <<schedule, timers, idleLosses>> /\ op' # "reset" /\ ~IsInitialized
    BY <1>1, <1>10 DEF TurnOff, kernel, history, ScheduleInv, OpInv
  <2>2. QED
    BY <1>3, <2>1 DEF LeakInv, Leaked, IsInitialized
<1>11. CASE Reload \/ Disable
  <2>1. UNCHANGED <<enabled, schedule, timers, idleLosses>> /\ op' # "reset"
    BY <1>11 DEF Reload, Disable, flags, kernel, history
  <2>2. QED
    BY <1>3, <2>1 DEF LeakInv, Leaked, IsInitialized
<1>12. CASE StartTimer \/ SetRunning
  <2>1. /\ UNCHANGED <<enabled, timers, idleLosses>> /\ enabled
        /\ schedule'.timerid = schedule.timerid
    BY <1>1, <1>12 DEF StartTimer, SetRunning, flags, kernel, history, EnabledInv, TypeOK
  <2>2. QED
    BY <1>3, <2>1 DEF LeakInv, Leaked
<1>13. CASE \/ CheckTimer \/ KillChild \/ LoadFlags \/ StoreFlags \/ Connect \/ Disconnect
            \/ ChildSetsGroup \/ ChildExits \/ UNCHANGED vars
  <2>1. UNCHANGED <<enabled, schedule, timers, idleLosses, op>>
    BY <1>13 DEF CheckTimer, KillChild, LoadFlags, StoreFlags, Connect, Disconnect,
                 ChildSetsGroup, ChildExits, vars, flags, kernel, processes, control, history
  <2>2. QED
    BY <1>3, <2>1 DEF LeakInv, Leaked, IsInitialized
<1>14. QED
  BY <1>4, <1>5, <1>6, <1>7, <1>8, <1>9, <1>10, <1>11, <1>12, <1>13 DEF Next, MainStep

(* A freshly loaded plugin: no process, and no timer leaked. *)
LEMMA OthersInit == Init => ArmedInv /\ ChildInv /\ LeakInv
<1> SUFFICES ASSUME Init PROVE ArmedInv /\ ChildInv /\ LeakInv
  OBVIOUS
<1>1. ScheduleIInv
  BY IInvInit
<1>2. ArmedInv /\ ChildInv
  <2>1. /\ pc = "idle" /\ op = "none" /\ children = {}
    BY DEF Init
  <2>2. enabled => armed # {} /\ IsInitialized /\ IsTicking
    BY DEF Init, IsInitialized, IsTicking
  <2>3. QED
    BY <2>1, <2>2 DEF ArmedInv, ChildInv
<1>3. LeakInv
  <2>1. timers \subseteq {schedule.timerid}
    BY DEF Init, Zeroed
  <2>2. Cardinality(Leaked) = 0
    BY <2>1, FS_EmptySet DEF Leaked
  <2>3. idleLosses = 0 /\ op = "none" /\ (enabled \/ ~IsInitialized)
    BY DEF Init, IsInitialized, Zeroed
  <2>4. QED
    BY <2>2, <2>3 DEF LeakInv
<1>4. QED
  BY <1>2, <1>3

(* The three further invariants hold throughout. *)
LEMMA OthersAlways == Spec => [](ScheduleIInv /\ ArmedInv /\ ChildInv /\ LeakInv)
<1>1. ScheduleIInv /\ ArmedInv /\ ChildInv /\ LeakInv /\ [Next]_vars
        => (ScheduleIInv /\ ArmedInv /\ ChildInv /\ LeakInv)'
  BY IInvStep, ArmedStep, ChildStep, LeakStep
<1>2. QED
  BY <1>1, IInvInit, OthersInit, PTL DEF Spec

-----------------------------------------------------------------------------
(* The timer that can fire is the one in the Schedule_t, its data has not  *)
(* been freed, and the timer of a periodic script is the only one that is  *)
(* ever deleted for it: TimersSound, of Scheduler_delete and its callers.  *)
THEOREM TimersSoundAlways == Spec => []TimersSound
<1>1. ScheduleIInv => TimersSound
  <2> SUFFICES ASSUME ScheduleIInv PROVE TypeOK /\ TimerSafe
    BY DEF TimersSound
  <2>1. TypeOK /\ ScheduleInv
    BY DEF ScheduleIInv
  <2>2. armed # {} => armed = {schedule.timerid} /\ schedule.timerid \in handlerData
    BY <2>1, ArmedTimer DEF ScheduleInv
  <2>3. QED
    BY <2>1, <2>2 DEF TimerSafe, ScheduleInv
<1>2. QED
  BY <1>1, IInvAlways, PTL

(* Between two calls a plugin that is off has no timer that can fire, and  *)
(* one that Plugin_Enable would leave alone has one: ArmedAsEnabled.       *)
THEOREM ArmedAsEnabledAlways == Spec => []ArmedAsEnabled
<1>1. ScheduleIInv /\ ArmedInv => ArmedAsEnabled
  BY DEF ScheduleIInv, EnabledInv, ArmedInv, ArmedAsEnabled, AlreadyEnabled, Failed
<1>2. QED
  BY <1>1, OthersAlways, PTL

(* Unless one of three mishaps happened, the process of a background       *)
(* script that is alive is the one Plugin_StopBgScript will stop.          *)
THEOREM ChildRecordedAlways == Spec => []ChildRecorded
<1>1. ChildInv => ChildRecorded
  BY DEF ChildInv, ChildRecorded, Clean
<1>2. QED
  BY <1>1, OthersAlways, PTL

(* A timer leaks only when the display is lost while the plugin is off.    *)
THEOREM LeakBoundedAlways == Spec => []LeakBounded
<1>1. ScheduleIInv /\ LeakInv => LeakBounded
  <2> SUFFICES ASSUME ScheduleIInv, LeakInv PROVE LeakBounded
    OBVIOUS
  <2>1. /\ Cardinality(timers) \in Nat /\ Cardinality(Leaked) \in Nat /\ idleLosses \in Nat
        /\ Cardinality(timers) <= Cardinality(Leaked) + 1
    BY LeakCount, Numbers DEF ScheduleIInv
  <2>2. Cardinality(Leaked) <= idleLosses
    BY DEF LeakInv
  <2>3. QED
    BY <2>1, <2>2 DEF LeakBounded
<1>2. QED
  BY <1>1, OthersAlways, PTL
=============================================================================

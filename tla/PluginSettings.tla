--------------------------- MODULE PluginSettings ---------------------------
(***************************************************************************)
(* The settings of one plugin: its file plugin.conf, how a changed setting *)
(* is written back (configReader.c), what is read from it at start-up and  *)
(* on reload (pluginConf.c, plugin.c), and the API calls that write it.    *)
(* The daemon may be killed between any two steps.                         *)
(*                                                                         *)
(* A line is a setting and its value; comments and blank lines, which are  *)
(* copied, and layout, which is not, are left out.  An unfinished          *)
(* plugin.new.conf is never read, so it is written in one step.            *)
(*                                                                         *)
(* What is read goes into the plugin's hash table (HashTable) under two    *)
(* keys: as it was written, for the API, and as it applies (a path is made *)
(* absolute), for the daemon; the third key of a script, its escaped path, *)
(* is left out.                                                            *)
(***************************************************************************)
EXTENDS HashTable, FiniteSetsExt

CONSTANTS Settings,       \* names of settings
          StartOnLoad,    \* "start-on-load"
          Content,        \* settings that name a file to show or run
          LongerNames,    \* <<x, y>>: the name x is the name y and more
          Values,         \* values that are not empty
          True, False,    \* "true", "false"
          Truths,         \* "true" and what begins it, down to "t"
          Empty,          \* no value
          Missing,        \* there is no such file
          TableSize,      \* PLUGIN_CONF_HASH_SIZE
          MaxLines,       \* bound: lines of the file at first
          MaxCalls,       \* bound: API calls
          MaxCrashes      \* bound: restarts

ASSUME SettingsAssumption ==
  /\ StartOnLoad \in Settings /\ Content \subseteq Settings \ {StartOnLoad}
  /\ LongerNames \subseteq Settings \X Settings
ASSUME ValuesAssumption ==
  /\ False \in Values \ Truths /\ True \in Truths /\ Truths \subseteq Values
  /\ Empty \notin Values
ASSUME TableAssumption ==
  /\ Keys = Settings \X {"original", "applied"}
  /\ NoEntry \notin [key : Keys, value : Values]
  /\ TableSize \in Nat /\ GrowSize(TableSize) > TableSize
  /\ \A k \in Keys, size \in 1 .. 3 * TableSize, last \in 0 .. 3 * TableSize :
       Hash(k, size, last) \in 0 .. size - 1
ASSUME BoundsAssumption == {MaxLines, MaxCalls, MaxCrashes} \subseteq Nat

Line == [setting : Settings, value : Values]
Files == Seq(Line)
ASSUME MissingAssumption == Missing \notin Files

VARIABLES conf,           \* the lines of plugin.conf, or Missing
          newConf,        \* plugin.new.conf likewise
          table,          \* plugin->config.table
          enabled,        \* PLUGIN_FLAG_RENDER
          up,             \* the daemon has started
          op, todo,       \* the API call under way, the steps left of it
          allowed,        \* history: what the file may say, as told by the calls
          wanted,         \* history: is the plugin to start with the daemon?
          mishaps,        \* history: which of Mishaps happened
          calls, crashes  \* counters for the bounds

files == <<conf, newConf>>
memory == <<table, enabled, up>>
counters == <<calls, crashes>>
settingsVars == <<files, memory, op, todo, allowed, wanted, mishaps, counters>>

(* "lost": killed when plugin.conf was unlinked and not replaced yet.      *)
(* "ambiguous": a setting was written whose name begins the name on        *)
(*   another line, or that has more than one line.                         *)
(* "half_reloaded": killed when a reload had written start-on-load=false   *)
(*   and not yet written true again.                                       *)
(* "no_content": a call left nothing to show or run in the file.           *)
Mishaps == {"lost", "ambiguous", "half_reloaded", "no_content"}
With(mishap, happens) == mishaps \cup IF happens THEN {mishap} ELSE {}

(* What a file says, read line by line. *)
Said(lines) ==
  FoldLeft(LAMBDA said, line : [said EXCEPT ![line.setting] = line.value],
           [s \in Settings |-> Empty], lines)

(* pluginStoreSettingWithType, for each line. *)
StoreSetting(to, line) ==
  Add(Add(to, Entry(<<line.setting, "original">>, line.value)),
      Entry(<<line.setting, "applied">>, line.value))
Read(lines) ==
  LET read[i \in 0 .. Len(lines)] ==
        IF i = 0 THEN NewTable(TableSize) ELSE StoreSetting(read[i - 1], lines[i]) IN
    read[Len(lines)]

(* start-on-load=true anywhere sets the flag, and so does the beginning of *)
(* "true"; "false" does not clear it.                                      *)
Starts(lines) ==
  \E i \in DOMAIN lines :
    lines[i].setting = StartOnLoad /\ lines[i].value \in Truths

(* Plugin_Exists *)
HasContent(lines) == \E i \in DOMAIN lines : lines[i].setting \in Content

(* Plugin_loadConfig and Plugin_Exists succeed. *)
Loads == IF conf = Missing THEN FALSE ELSE HasContent(conf)

SettingsInit ==
  /\ conf \in BoundedSeq(Line, MaxLines) /\ HasContent(conf)
  /\ newConf = Missing
  /\ table = Read(conf) /\ enabled = Starts(conf) /\ up = TRUE
  /\ op = "none" /\ todo = <<>>
  /\ allowed = {Said(conf)} /\ wanted = Starts(conf)
  /\ mishaps = {} /\ calls = 0 /\ crashes = 0

-----------------------------------------------------------------------------
(* Definitions named Fault... are faulty variants of the definition that   *)
(* follows them, each with one plausible mistake; no behaviour uses them.  *)

FaultLineMatches(line, s) == line.setting = s \/ <<s, line.setting>> \in LongerNames

(* strncmp(property, setting, strlen(setting)) *)
LineMatches(line, s) == line.setting = s \/ <<line.setting, s>> \in LongerNames
Hits(lines, s) == {i \in DOMAIN lines : LineMatches(lines[i], s)}

(* ConfigReader_writeConfig changes the first line that matches, drops it  *)
(* if the value is empty, or appends a line.                               *)
Written(lines, s, v) ==
  LET hit == Min(Hits(lines, s)) IN
    CASE Hits(lines, s) = {} /\ v = Empty -> lines
      [] Hits(lines, s) = {} /\ v # Empty ->
           Append(lines, [setting |-> s, value |-> v])
      [] Hits(lines, s) # {} /\ v = Empty -> RemoveAt(lines, hit)
      [] OTHER -> [lines EXCEPT ![hit].value = v]

Ambiguous(lines, s) ==
  \/ \E i \in DOMAIN lines : <<lines[i].setting, s>> \in LongerNames
  \/ \E i, j \in DOMAIN lines : i # j /\ lines[i].setting = s /\ lines[j].setting = s

Step(do, s, v) == [do |-> do, setting |-> s, value |-> v]

FaultSave(s, v) ==
  <<Step("unlink", s, v), Step("write", s, v), Step("rename", s, v)>>

(* The steps of PluginConf_setValue, *)
Save(s, v) ==
  <<Step("write", s, v), Step("unlink", s, v), Step("rename", s, v)>>

(* of actionPluginDisable, actionPluginEnable *)
Also(do) == <<Step(do, StartOnLoad, Empty)>>
TurnOff == Save(StartOnLoad, False) \o Also("turn_off")
TurnOn == Also("turn_on") \o Save(StartOnLoad, True)

FaultReloadTrustsFile == IF enabled THEN TurnOff \o Also("load") ELSE Also("load")

(* and of API_RELOAD, which takes an enabled plugin out and back in. *)
ReloadSteps == IF enabled THEN TurnOff \o Also("load") \o TurnOn ELSE Also("load")

(* The API calls enable, disable, reload and setopt. *)
ApiCall(name, steps, wants) ==
  /\ up /\ todo = <<>> /\ calls < MaxCalls
  /\ op' = name /\ todo' = steps /\ wanted' = wants
  /\ calls' = calls + 1
  /\ UNCHANGED <<files, memory, allowed, mishaps, crashes>>

Enable == ApiCall("enable", TurnOn, TRUE)
Disable == ApiCall("disable", TurnOff, FALSE)
ReloadPlugin == ApiCall("reload", ReloadSteps, enabled \/ wanted)
SetConfig(s, v) ==
  ApiCall("setopt", Save(s, v), IF s = StartOnLoad THEN v \in Truths ELSE wanted)

(* The next step of the call. *)
Do(do) == up /\ todo # <<>> /\ todo[1].do = do /\ todo' = Tail(todo)

WriteNew ==
  LET s == todo[1].setting
      v == todo[1].value IN
    /\ Do("write") /\ conf # Missing
    /\ newConf' = Written(conf, s, v)
    /\ allowed' = allowed \cup {[said EXCEPT ![s] = v] : said \in allowed}
    /\ mishaps' = With("ambiguous", Ambiguous(conf, s))
    /\ UNCHANGED <<conf, memory, op, wanted, counters>>

UnlinkOld ==
  /\ Do("unlink")
  /\ conf' = Missing
  /\ UNCHANGED <<newConf, memory, op, allowed, wanted, mishaps, counters>>

RenameNew ==
  /\ Do("rename") /\ newConf # Missing
  /\ conf' = newConf /\ newConf' = Missing
  /\ allowed' = {said \in allowed : said[todo[1].setting] = todo[1].value}
  /\ mishaps' = With("no_content", ~HasContent(newConf))
  /\ UNCHANGED <<memory, op, wanted, counters>>

(* Plugin_Disable, Plugin_Enable *)
SetEnabled(do, value) ==
  /\ Do(do)
  /\ enabled' = value
  /\ UNCHANGED <<files, table, up, op, allowed, wanted, mishaps, counters>>

(* Plugin_Reload *)
LoadConfig ==
  /\ Do("load") /\ Loads
  /\ table' = Read(conf) /\ enabled' = Starts(conf)
  /\ UNCHANGED <<files, up, op, allowed, wanted, mishaps, counters>>

(* Plugin_Reload of a plugin without content: its error path frees the     *)
(* path twice, and the C library stops the process.                        *)
LoadFails ==
  /\ up /\ todo # <<>> /\ todo[1].do = "load" /\ ~Loads
  /\ up' = FALSE /\ todo' = <<>>
  /\ UNCHANGED <<files, table, enabled, op, allowed, wanted, mishaps, counters>>

-----------------------------------------------------------------------------
HalfReloaded ==
  /\ op = "reload" /\ todo # <<>> /\ todo[Len(todo)].do = "rename"
  /\ Len(todo) < Len(Save(StartOnLoad, False) \o Also("load") \o TurnOn)

(* The daemon is killed. *)
Crash ==
  /\ up /\ crashes < MaxCrashes
  /\ crashes' = crashes + 1
  /\ up' = FALSE /\ todo' = <<>>
  /\ wanted' = IF /\ conf # Missing /\ ~HalfReloaded
                  /\ \E i \in DOMAIN todo : todo[i].setting = StartOnLoad
                 THEN Starts(conf)      \* it may or may not have been done
                 ELSE wanted
  /\ mishaps' = mishaps
       \cup {m \in {"lost"} : todo # <<>> /\ todo[1].do = "rename"}
       \cup {m \in {"half_reloaded"} : HalfReloaded}
  /\ UNCHANGED <<files, table, enabled, op, allowed, calls>>

(* Plugin_Init, called by main; without a plugin.conf that it can load, or *)
(* with one that has no content, main stops.                               *)
Boot ==
  /\ ~up /\ Loads
  /\ up' = TRUE /\ op' = "none" /\ todo' = <<>>
  /\ table' = Read(conf) /\ enabled' = Starts(conf)
  /\ allowed' = {Said(conf)}
  /\ UNCHANGED <<files, wanted, mishaps, counters>>

SettingsNext ==
  \/ Enable \/ Disable \/ ReloadPlugin
  \/ \E s \in Settings, v \in Values \cup {Empty} : SetConfig(s, v)
  \/ WriteNew \/ UnlinkOld \/ RenameNew
  \/ SetEnabled("turn_off", FALSE) \/ SetEnabled("turn_on", TRUE)
  \/ LoadConfig \/ LoadFails
  \/ Crash \/ Boot

SettingsSpec == SettingsInit /\ [][SettingsNext]_settingsVars

-----------------------------------------------------------------------------
Tables == [Settings -> Values \cup {Empty}]
Idle == todo = <<>>
Unless(exceptions) == mishaps \cap exceptions = {}

(* The types of the variables, but for the table (RereadByReload); a line  *)
(* that is written always has a value, and the new file is there when it   *)
(* is about to be renamed.                                                 *)
SettingsTypeOK ==
  /\ conf \in Files \cup {Missing} /\ newConf \in Files \cup {Missing}
  /\ enabled \in BOOLEAN /\ up \in BOOLEAN
  /\ op \in {"none", "enable", "disable", "reload", "setopt"}
  /\ \A i \in DOMAIN todo :
       todo[i] \in [do : {"write", "unlink", "rename", "turn_off", "turn_on", "load"},
                    setting : Settings, value : Values \cup {Empty}]
  /\ todo # <<>> => (todo[1].do = "rename" => newConf \in Files)
  /\ allowed \subseteq Tables /\ wanted \in BOOLEAN
  /\ mishaps \subseteq Mishaps
  /\ calls \in 0..MaxCalls /\ crashes \in 0..MaxCrashes

(* setopt, enable and disable change the one setting they were given, and  *)
(* a crash at any step leaves every setting as it was or as it was asked   *)
(* for, in plugin.conf or else in plugin.new.conf.                         *)
SettingsKept ==
  Unless({"ambiguous"}) =>
    LET kept == IF conf = Missing THEN newConf ELSE conf IN
      IF kept = Missing THEN FALSE ELSE Said(kept) \in allowed

(* Both files are well formed, and no setting is lost.                     *)
FilesSound == SettingsTypeOK /\ SettingsKept

(* Whatever was called, and wherever the daemon was killed, the daemon can *)
(* load the plugin's file again, and so start.                             *)
BootsAgain == (Idle \/ ~up) /\ Unless({"lost", "no_content"}) => Loads

(* A plugin starts with the daemon if the last call that says so enabled   *)
(* it, and does not if it was disabled; a reload in between is no order    *)
(* to leave it off.                                                        *)
BootFollowsCommand ==
  [][~up /\ up' /\ Unless({"ambiguous", "lost", "half_reloaded"})
       => enabled' = wanted]_settingsVars

(* The table is well formed.  After a start or a reload, what the daemon   *)
(* finds in it, however it collided and grew, is what the file says, and   *)
(* each key is listed once; apart from start-on-load, which reload itself  *)
(* writes after it read the file.                                          *)
TableSound ==
  /\ table.count <= table.size /\ DOMAIN table.entries = 0 .. table.size - 1
  /\ \A i \in DOMAIN ListedEntries(table) :
       ListedEntries(table)[i] \in [key : Keys, value : Values]
Knows(entries, key, value) ==
  /\ {entries[i] : i \in {i \in DOMAIN entries : entries[i].key = key}} =
       IF value = Empty THEN {} ELSE {Entry(key, value)}
  /\ \A i, j \in DOMAIN entries :
       entries[i].key = key /\ entries[j].key = key => i = j
  /\ FindEntry(table, key) = IF value = Empty THEN NoEntry ELSE Entry(key, value)
RereadByReload ==
  /\ TableSound
  /\ Idle /\ up /\ op \in {"none", "reload"} =>
       LET entries == ListedEntries(table)
           said == Said(conf) IN
         \A s \in IF op = "reload" THEN Settings \ {StartOnLoad} ELSE Settings :
           \A form \in {"original", "applied"} : Knows(entries, <<s, form>>, said[s])
=============================================================================

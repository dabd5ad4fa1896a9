--------------------------- MODULE PluginRegistry ---------------------------
(***************************************************************************)
(* Which plugins the daemon knows: the binary tree of plugins (btree.c,    *)
(* pluginList.c) and the table of websocket protocols (pluginSocket.c),    *)
(* filled at start-up, one plugin per directory, and changed by the API    *)
(* calls rmplug, reload, reboot and install.  Everything runs on the main  *)
(* thread, one call at a time; what makes it hard is the sequence of calls.*)
(*                                                                         *)
(* A node of the tree is named by its path from the root.  Pointers to a   *)
(* Plugin_t or a name that was freed stay where they are.  What happens    *)
(* once one of them is followed is not defined, and the model stops there. *)
(***************************************************************************)
EXTENDS Integers, Sequences, SequencesExt, FiniteSets

CONSTANTS Plugins,       \* names, as numbers in the order of strcmp
          Extends,       \* <<x, y>>: the name x is the name y and more
          FreedName,     \* the name of a protocol whose string was freed
          MaxReloads     \* bound: reload calls between two boots

ASSUME PluginsAssumption == Plugins \subseteq Int /\ FreedName \notin Plugins
ASSUME ExtendsAssumption ==
  Extends \subseteq {e \in Plugins \X Plugins : e[2] < e[1]}
ASSUME MaxReloadsAssumption == MaxReloads \in Nat

VARIABLES tree,          \* tree[p]: the plugin of the node at path p
          freed,         \* plugins whose Plugin_t was freed
          protocols,     \* _protocols: a name and the plugin it serves
          loaded,        \* plugins loaded at start-up
          running,       \* start-up is over
          removed,       \* history: plugins rmplug was called for
          splits,        \* history: of these, those whose node had two children
          misnamed,      \* history: a reload renamed another's protocol
          undefined,     \* a pointer to something freed or NULL was followed
          reloads        \* counter for the bound

vars == <<tree, freed, protocols, loaded, running, removed, splits, misnamed,
          undefined, reloads>>

Nodes == DOMAIN tree
Listed == {tree[p] : p \in Nodes}
\* No two nodes have the same plugin.
Distinct == \A p, q \in Nodes : tree[p] = tree[q] => p = q

(* Where to look for x at a node of y # x: nodeCompare. *)
Side(x, y) == IF x < y THEN "left" ELSE "right"

(* A search for x comes past p: it follows the comparisons from the root   *)
(* and ends where it finds x.                                              *)
Passes(x, p) ==
  \A i \in 1 .. Len(p) :
    LET q == SubSeq(p, 1, i - 1) IN
      /\ q \in Nodes /\ tree[q] # x
      /\ p[i] = Side(x, tree[q])

Route(x) == {p \in Nodes : Passes(x, p)}
Find(x) == {p \in Route(x) : tree[p] = x}

(* The free place a new node goes to. *)
Place(x) ==
  CHOOSE p \in {<<>>} \cup {Append(q, d) : q \in Nodes, d \in {"left", "right"}} :
    p \notin Nodes /\ Passes(x, p)

(* A comparison on the way to x reads a plugin that was freed. *)
Dangling(paths) == \E p \in paths : tree[p] \in freed

Below(p) == {q \in Nodes : IsPrefix(p, q)}
Child(p, d) == {Append(p, d)} \cap Nodes

(* Definitions named Fault... are faulty variants of the definition that   *)
(* follows them, each with one plausible mistake; no behaviour uses them.  *)

(* The tree once the node at p is destroyed and its child d is in its place. *)
Lifted(p, d) ==
  LET from == Append(p, d)
      rest(q) == SubSeq(q, Len(from) + 1, Len(q))
      moved == {p \o rest(q) : q \in Below(from)} IN
    [q \in (Nodes \ Below(p)) \cup moved |->
       IF q \in moved THEN tree[from \o SubSeq(q, Len(p) + 1, Len(q))] ELSE tree[q]]

(* The leftmost nodes of the right subtree, down to the successor. *)
LeftSpine(p) ==
  {q \in Below(Append(p, "right")) :
     \A i \in Len(p) + 2 .. Len(q) : q[i] = "left"}
Successor(p) == CHOOSE q \in LeftSpine(p) : Child(q, "left") = {}

-----------------------------------------------------------------------------
Init ==
  /\ tree = << >> /\ freed = {} /\ protocols = <<>>
  /\ loaded = {} /\ running = FALSE
  /\ removed = {} /\ splits = {} /\ misnamed = FALSE
  /\ undefined = FALSE /\ reloads = 0

(* One entry stands for the plugin's two: the other, for external programs,*)
(* is named by a number nobody looks up.                                   *)
AddProtocol(x) == Append(protocols, [name |-> x, user |-> x])

(* Start-up finds the plugins' directories in any order. *)
LoadPlugin(x) ==
  /\ ~running /\ x \notin loaded
  /\ LET p == Place(x) IN
       tree' = [q \in Nodes \cup {p} |-> IF q = p THEN x ELSE tree[q]]
  /\ protocols' = AddProtocol(x)
  /\ loaded' = loaded \cup {x}
  /\ UNCHANGED <<freed, running, removed, splits, misnamed, undefined, reloads>>

Start ==
  /\ ~running
  /\ running' = TRUE
  /\ UNCHANGED <<tree, freed, protocols, loaded, removed, splits, misnamed,
                 undefined, reloads>>

(* An API call names a plugin; nothing happens when the tree has none such. *)
Call(x) == running /\ ~undefined /\ x \in loaded

(* The step follows a pointer to what was freed. *)
Undefined ==
  /\ undefined' = TRUE
  /\ UNCHANGED <<tree, freed, protocols, loaded, running, removed, splits,
                 misnamed, reloads>>

FaultSplicedLeafStays(p) ==
  IF Child(p, "left") # {} THEN Lifted(p, "left")
  ELSE IF Child(p, "right") # {} THEN Lifted(p, "right")
  ELSE tree

(* A node with fewer than two children is destroyed.  Otherwise it takes   *)
(* over its successor's plugin, and the call that was to remove the        *)
(* successor looks for the plugin just removed.  It finds that only where  *)
(* an earlier call left the same plugin in both nodes.                     *)
Spliced(p) ==
  IF Child(p, "left") = {} THEN Lifted(p, "right")
  ELSE IF Child(p, "right") = {} THEN Lifted(p, "left")
  ELSE LET s == Successor(p) IN
         IF tree[s] = tree[p] THEN Lifted(s, "right")
         ELSE [tree EXCEPT ![p] = tree[s]]

Split(p) == Child(p, "left") # {} /\ Child(p, "right") # {}

(* The plugin freed along with the node. *)
Destroyed(p) ==
  IF Split(p) /\ tree[Successor(p)] # tree[p] THEN {} ELSE {tree[p]}

(* A protocol keeps its entry; its name was part of the plugin. *)
Forgets(x, q) == IF q.name = x THEN [q EXCEPT !.name = FreedName] ELSE q

(* API_RM_PLUG: PluginList_Delete. *)
RemovePlugin(x) ==
  /\ Call(x) /\ Find(x) # {}
  /\ \E p \in Find(x) :
       IF Dangling(Route(x) \cup IF Split(p) THEN LeftSpine(p) ELSE {})
       THEN Undefined
       ELSE /\ tree' = Spliced(p)
            /\ freed' = freed \cup Destroyed(p)
            /\ protocols' = [i \in DOMAIN protocols |->
                 IF Destroyed(p) = {} THEN protocols[i]
                 ELSE Forgets(x, protocols[i])]
            /\ splits' = splits \cup IF Split(p) THEN {x} ELSE {}
            /\ removed' = removed \cup {x}
            /\ UNCHANGED <<loaded, running, misnamed, undefined, reloads>>

(* strncmp(name, target, strlen(target)): a shorter name matches too. *)
Matches(i, x) == protocols[i].name = x \/ <<x, protocols[i].name>> \in Extends

(* PluginSocket_getProtocol: the first entry that matches.  A name that was *)
(* freed may match or not.  0 stands for NULL.                              *)
GetProtocol(x) ==
  LET May(i) == protocols[i].name = FreedName \/ Matches(i, x)
      Blocked(i) == \E j \in 1 .. i - 1 : Matches(j, x) IN
  {i \in DOMAIN protocols : May(i) /\ ~Blocked(i)} \cup
    IF \E i \in DOMAIN protocols : Matches(i, x) THEN {} ELSE {0}

FaultRenamed(q, x) == [q EXCEPT !.name = FreedName]

(* The protocol points to the new copy of the plugin's name. *)
Renamed(q, x) == [q EXCEPT !.name = x]

(* API_RELOAD: Plugin_Reload frees the plugin's strings and gives the      *)
(* protocol it found a new copy of the name.                               *)
Reload(x) ==
  /\ Call(x) /\ Find(x) # {} /\ reloads < MaxReloads
  /\ IF Dangling(Route(x)) THEN Undefined
     ELSE \E found \in GetProtocol(x) :
       IF found = 0 THEN Undefined
       ELSE /\ protocols' = [i \in DOMAIN protocols |->
                 IF i = found THEN Renamed(protocols[i], x)
                 ELSE Forgets(x, protocols[i])]
            /\ misnamed' = (misnamed \/ protocols[found].name # x)
            /\ reloads' = reloads + 1
            /\ UNCHANGED <<tree, freed, loaded, running, removed, splits,
                           undefined>>

(* PluginList_ForEach: the API call list, the display connecting or going, *)
(* the shutdown.                                                           *)
ForEach ==
  /\ running /\ ~undefined /\ Dangling(Nodes)
  /\ Undefined

(* Reboot, by the API call or by install: API_ShutdownPlugins goes through  *)
(* the tree, PluginList_Free frees the plugin of every node, the protocols *)
(* are freed, and start-up reads the directories again, those of removed   *)
(* plugins too.                                                            *)
Reboot ==
  /\ running /\ ~undefined
  /\ IF Dangling(Nodes) \/ ~Distinct THEN Undefined
     ELSE /\ tree' = << >> /\ freed' = {} /\ protocols' = <<>>
          /\ loaded' = {} /\ running' = FALSE
          /\ removed' = {} /\ splits' = {} /\ misnamed' = FALSE
          /\ reloads' = 0 /\ UNCHANGED undefined

Next ==
  \/ \E x \in Plugins : LoadPlugin(x) \/ RemovePlugin(x) \/ Reload(x)
  \/ Start \/ ForEach \/ Reboot

Spec == Init /\ [][Next]_vars

-----------------------------------------------------------------------------
(* Type invariant. *)
TypeOK ==
  /\ tree \in [Nodes -> Plugins]
  /\ \A p \in Nodes : p = <<>> \/ SubSeq(p, 1, Len(p) - 1) \in Nodes
  /\ protocols \in Seq([name : Plugins \cup {FreedName}, user : Plugins])
  /\ loaded \subseteq Plugins /\ Listed \subseteq loaded
  /\ freed \subseteq removed /\ splits \subseteq removed /\ removed \subseteq loaded
  /\ {running, misnamed, undefined} \subseteq BOOLEAN
  /\ reloads \in 0 .. MaxReloads

(* A plugin that was loaded and not removed is found by its name, whatever *)
(* was removed around it: no splice loses a subtree or leaves a plugin     *)
(* where the comparisons do not lead.                                      *)
StaysFound == \A x \in loaded \ removed : Find(x) # {}

(* As long as no node with two children was removed, a removed plugin is   *)
(* out of the tree and freed, and every other one is in it once, so that   *)
(* PluginList_ForEach acts on each plugin once.                            *)
ListedOnce ==
  splits = {} =>
    /\ Listed = loaded \ removed /\ freed = removed
    /\ Distinct

(* The tree keeps its order whatever is removed, and its content until a   *)
(* node with two children is.                                              *)
TreeIntact == TypeOK /\ StaysFound /\ ListedOnce

(* A pointer into a freed plugin or to NULL is followed only after a node  *)
(* with two children was removed, or a reload renamed a protocol that was  *)
(* not the plugin's own.                                                   *)
DefinedUnlessMishap == undefined => splits # {} \/ misnamed

(* "rmplug: Completely unloads a plugin from the PluginDaemon.  After this *)
(* is called, the PluginDaemon will be completely unaware of this plugins  *)
(* existence": a removed plugin is no longer in the tree.                  *)
RemovedIsUnlisted == removed \cap Listed = {}

(* "Returns a protocol instance via the protocols name": until a reload    *)
(* renames the protocol of another plugin, a page that asks for a plugin   *)
(* by name is served by that plugin.                                       *)
ServesOwn ==
  ~misnamed =>
    \A x \in loaded \ removed :
      /\ \E i \in DOMAIN protocols : protocols[i].name = x
      /\ \A i \in DOMAIN protocols : protocols[i].name = x => protocols[i].user = x
=============================================================================

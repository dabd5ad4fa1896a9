# SmartReflectServer in TLA+

TLA+ models of the smart mirror daemon, TLC runs that check them on small
instances, and TLAPS proofs that nearly all of their safety properties hold for
every instance. Paths are relative to the repository; `PROJECT.json` lists the
runs, the lines of code each definition stands for, the mutants that show each
property can fail, the findings, the hazards and the theorems.

Check a model with `tlc -workers 2 -config WQ_ring.cfg MCWriteQueue`, the proofs
about it with `tlapm WriteQueueProofs.tla`, and so on: the theorems about a
module `M` are in `MProofs`.

## 1. The system

The daemon (`PluginDaemon/source`) serves a web page, the *display*, in which
*plugins* appear. A plugin is a directory with a `plugin.conf` and a page, a
script, or both. Three kinds of websocket client talk to the daemon:

- the **display page** (`web/com/display.js`), which is told to load and unload
  plugins;
- a **plugin page** for each plugin, a `PluginClient` object inside the display
  window (`web/com/plugin-client.js`), and external programs on the plugin's
  second protocol;
- **API clients**: the web GUI, `mmcom`, anything that speaks the API protocol.

`main.c` creates them all and runs one loop, `daemonProcess`: poll pending API
answers, see whether the display came or went, load or reschedule plugins, call
`lws_service`. All callbacks run inside `lws_service`, on the main thread. There
is one more actor: POSIX timers, whose **signal handlers** interrupt the main
thread wherever it is and run a plugin's script.

### Components

For each: the state it keeps, what changes it, what is hard, what makes it correct.

**Buffered socket writes** (`protocolWrite.c`, `pluginSocket.c`). A ring of
`NUM_BUFFERED_WRITES` = 256 messages per websocket protocol, with the cursors
`lastBuffered` and `lastWritten`, shared by all sockets that speak the protocol.
Operations: put a message in the next slot, whatever is there; walk the ring in
the WRITEABLE callback; clear a socket's slots when it closes. Hard: the ring is
full; sockets share one cursor; slots name a file descriptor, which is reused.
Correct: each buffer is sent once or freed once, reaches the connection it was
meant for, and leaves the ring; only a ring that is full loses messages. Harder:
the timer's handler puts messages into a plugin's ring on top of whatever the
main thread is doing there. Correct then: an interrupted walk is harmless, and
what an interrupted add or clear breaks stays with the messages concerned.

**Pending API actions** (`api/apiPending.c`, `api/api.c`). A ring of requests
(`getcss`, `jsPluginCmd`, `mirrorsize`) that wait for a page, and the last
message of each page. Operations: take a slot, poll once per turn, answer. Hard:
answers are matched to requests by order only, and slots are reused unseen.
Correct: each request has one answer, its own.

**Plugin scheduling** (`plugins/pluginSchedule.c`, `scheduler.c`, `scripts.c`,
the scheduling half of `plugins/plugin.c`, `plugins/pluginLoader.c`). The
plugin's flags, its `Schedule_t` with a timer and handler data, the pid of a
background script. Operations: enable, disable, reload, reset when the display
goes, and the timer's handler. Hard: the handler runs between any two steps of
the main thread, and deletes its own schedule; flags are read, changed and
written back; the child makes its process group itself, later. Correct: no timer
outlives its data, no process outlives its plugin, an enabled script runs.

**Display session and shutdown** (`display.c`, `main.c`, `API_ShutdownPlugins`,
`web/com/display.js`). The current display socket, whether it said "ready", the
count of plugins loaded in it, what the main loop saw last turn. Operations: the
display callback, the turn, `enable`, `disable`, `stop`, the page's reports.
Hard: pages come, go and overlap; the loop compares snapshots; shutdown waits
for reports. Correct: the daemon sees the display, each enabled plugin gets into
it, `stop` ends.

**Plugin frontend sockets** (the callbacks of `plugins/plugin.c`,
`web/com/plugin-client.js`). `socketInstance`, the external socket, "loaded",
the stored CSS. Operations: connect, load, confirm, close, `setcss`, `savecss`,
reload. Hard: clients overlap; a callback acts on the current socket, not on its
own; CSS meets a page in any phase of its load. Correct: no freed socket is
used, the page shows what is stored, an enabled plugin is shown.

**Plugin tree and protocol table** (`btree.c`, `plugins/pluginList.c`,
`pluginSocket.c`, `plugins/pluginLoader.c`). Which plugins there are, and the
name and plugin of each protocol. Operations: load, `rmplug`, `reload`,
traversal. Hard: removal in any order; the table keeps pointers to what was
freed; names are compared by prefix. Correct: no plugin is lost or listed twice,
and each protocol serves its own plugin.

**Plugin configuration** (`configReader.c`, `plugins/pluginConf.c`).
`plugin.conf`, `plugin.new.conf`, and what is in memory. Operations: read, and
write by copy, unlink, rename. Hard: a crash at any step; duplicate lines; names
that begin other names. Correct: no setting is lost, the daemon starts again and
starts the plugins it should.

**API sessions** (`DaemonCom/mmcom.c`, the callback, dispatch and parsing of
`api/api.c`, `api/apiResponse.c`, `socketResponse.c`, `web/api/mirrorAPI.js`).
The connections of API clients, one buffer in which the parts of long messages
are put together, the responses that wait to be written; in the client, the
identifier of its command and a clock. Operations: connect, send, receive a part,
parse and act, respond now or when a page answers, stop or reboot, time out,
close. Hard: all clients share the buffer, and a close frees it; descriptors are
reused and the ring is not cleared; pending answers outlive their clients.
Correct: a command is executed as sent and once, its sender gets its answer, and
gives up in time. Each call that changes some other state (enable, setcss, ...)
is an action of the module whose state it changes.

**Hash table** (`hashtable.c`). Holds a plugin's settings and its CSS. Places
are found by probing, six at most; a key without a place makes the table grow
and all be placed anew. Correct: what was added last under a key is found.

Formatting, the web GUI, sample plugins, vendored libraries: not modelled.

### How they interact

    browser --display.js--> display.c --> main loop --> pluginLoader --> plugin.c
       |                       |             |                             |  ^
       +--plugin-client.js-----|-------------|----- callbacks -------------+  | SIGALRM
                               |             +--> apiPending <-- last message |
    API client --> api.c ------+--> plugin.c, pluginConf, pluginList     pluginSchedule
    all of them write with PluginSocket_writeToSocket --> protocolWrite (the ring)

`Outbox` is the interface between the ring and everybody else: the other modules
assume of a message sent only what `Outbox` promises (it arrives once, or is
lost), and say themselves when they model the loss.

## 2. The modules

Names of variables and actions are the code's where TLA+ allows. One action is
one callback or API call, the trailing calls it makes included; an operation is
cut into steps only where another actor can come between. Definitions named
`Fault...` are wrong variants that no behaviour uses; they are the mutants.

| module | code | state | actions |
|---|---|---|---|
| `Outbox` | what callers of `PluginSocket_writeToSocket` rely on | pending, sent | Accept, Send, Discard |
| `WriteQueue` | `protocolWrite.c`, `pluginSocket.c` | the ring, cursors, sockets; sent, overwritten, cleared are history | Established, AddWriteToQueue, ProcessQueue, SkipSlot, WriteSlot, Increment, Closed (with ClearSlots) |
| `InterruptedQueue` | `protocolWrite.c` load by load and store by store, the handler of `pluginSchedule.c` | a plugin's ring, the main thread's instruction and registers, freed memory | one per instruction of add, walk and clear; Established; Timer |
| `PendingActions` | `apiPending.c`, part of `api.c` | ring of requests, last message per page, messages on their way | Request, Update, Receive, Answer, Notify, Connect, Disconnect, Disable |
| `PluginSchedule` | `pluginSchedule.c`, `scheduler.c`, `scripts.c`, part of `plugin.c` | flags, Schedule_t, timers of the kernel, processes, the main thread's place | Enable, Disable, Reload, ResetSchedule and the steps they end in; LoadFlags, StoreFlags; Handler; the child; the page |
| `DisplaySession` | `display.c`, `main.c`, part of `api.c`, `display.js` | current page, flags, count, the loop's snapshots, messages each way | Check, EndService, ShutdownUnload, Drain; Established, Receive, Closed; EnablePlugin, DisablePlugin, Stop; PageActs, Leave |
| `PluginRegistry` | `btree.c`, `pluginList.c`, part of `pluginSocket.c` | the tree by paths, freed plugins, protocol names | LoadPlugin, Start, RemovePlugin, Reload, ForEach, Reboot |
| `HashTable` | `hashtable.c` | (operators on tables) | GetEntry, FindEntry, Add, Resize, Copied, ListedEntries |
| `PluginSettings` | `configReader.c`, `pluginConf.c` | lines of both files, what is in memory, in hash tables, the steps left of a call | Enable, Disable, ReloadPlugin, SetConfig; WriteNew, UnlinkOld, RenameNew, SetEnabled, LoadConfig, LoadFails; Crash, Boot |
| `ApiSession` | `mmcom.c`, `api.c`, `socketResponse.c`, `apiResponse.c` | each client's phase, times and inbox; connections, descriptors, the shared buffer, the responses that wait for each descriptor, the pending requests | Start, Connect, Writeable, ClientReceive, Timeout, ClientClosed, Tick; Receive (with DoAction), Closed, Deliver, PageAnswers, AnswersFreedSocket, Exit, Boot |
| `PluginPage` | callbacks of `plugin.c`, `plugin-client.js` | the sockets the daemon holds, queues, each client's phase and style, stored and saved CSS | Established, ReceiveLoaded, Closed, ExternEstablished, ExternReceive, ExternClosed; the API calls; Receives, DoneLoad, Drop; the window |

The modules share no variables, so no module instantiates two of them: what one
takes from another is an input (a display that comes and goes in
`PluginSchedule`, a connection that breaks in `PendingActions`), free to happen
at any time. `ApiSession` sees the ring as a sequence that does not overflow, and
a pending request as one that is answered at some time or never: what the two
rings do is `WriteQueue`'s and `PendingActions`' subject. `PluginSettings`
extends `HashTable`, so that what it reads is what was put through the table.
`WriteQueueProofs`, `InterruptedQueueProofs`, `PendingActionsProofs`,
`PluginScheduleProofs`, `DisplaySessionProofs`, `ApiSessionProofs` and
`PluginPageProofs` extend the module they are about with its theorems;
`RegistryAndSettingsProofs` extends `PluginRegistry` and `PluginSettings`, what the
daemon finds when it starts, and so has names of its own for the second's `Next`
(`SettingsNext`) and the like.
`InterruptedQueue` is `WriteQueue` at a finer grain, for one connection at a time.
`WriteQueue` instantiates `Outbox` with a refinement mapping.

### Mishaps and circumstances

Much in this code holds until something particular happens. The models do not
leave these things out. They let them happen, note in a history variable (mostly
`mishaps`) that they did, and the property says precisely what depends on it.
Each name stands for a defect or limit of the code:

- `PluginSchedule`. *reenabled*: enable of a plugin whose script is in the
  background starts it again, since its timer is gone and the early return of
  `Plugin_Enable` (`plugin.c:646`) looks for a timer. *overtaken*: the kill came
  before the child's `setpgid`. *flag lost*: the handler set a flag between the
  main thread's read and write-back. *fork failed*, of a background script, which
  takes the timer with it; *popen failed*, of the others, which leaves the timer
  to fire again. *stray delete*: the handler
  deleted the schedule between the test and the delete of `Plugin_StopSchedule`,
  so `timer_delete` got a zeroed id, which is another plugin's timer.
- `DisplaySession`. *overlap*: the closing of one of two open pages clears the
  other (`display.c:230`). *quick reload*: a page goes and the next is ready
  within one `lws_service`, so the loop sees no change. *enable twice*: the page
  reports two loads for one plugin, and the count never returns to zero. *race*:
  a call meets a page whose plugins are not loaded yet, and the count may go
  below zero.
- `PluginRegistry`. A node with two children was removed: `_btree_remove` then
  looks for the wrong key, and one plugin is in two nodes. A reload renamed a
  protocol that was another plugin's, whose name is a prefix.
- `PluginSettings`. *lost*: killed between unlink and rename. *ambiguous*: a
  setting was written that is a prefix of another or has two lines. *half
  reloaded*: killed after reload wrote start-on-load=false. *no content*: a call
  removed the last content setting; reload then frees the path twice, and at the
  next start `main` stops, for every plugin, at the one it cannot load.
- `PluginPage`. *overlap*, *externals*: two clients, two external programs were
  connected at a time. *reload*: with something connected. *overflow*: of the
  ring. *dropped*: a connection failed, and the client does not connect again.
  *half enabled*: reload of a disabled plugin whose file says start-on-load=true
  sets its flag and does nothing else.
- `ApiSession`. *crossed*: a part of a client's message arrived, or its
  connection closed, while another's was half received. *Twins*: two runs of
  `mmcom` started in the same second have one identifier, since it comes from a
  generator seeded with `time(NULL)`.
- `InterruptedQueue`. *torn*: the handler struck within an add or a clear, or put
  a message over one that a walk had in hand; the set holds the messages of both
  sides. What a handler inside an add or a clear can do, each reached in the model: a
  buffer is freed twice; a freed one is sent; between `lastBuffered++` and the modulo at
  the last slot, the handler's message goes to `writes[256]`, which is the memory
  of the cursors; a message is sent with another's length, or with length zero, or
  to the page's next connection, or never.

Where use of freed memory or of NULL is certain, the model stops (`crashed`,
`crash`, `undefined`); what comes after is not defined by the code. `ApiSession`,
where the freed socket of a client that left may still be read, takes every
outcome: another client's descriptor, no effect, the end of the daemon.

## 3. What the runs show

`CHECK_DEADLOCK FALSE` is set where the system may stop: the daemon was stopped
or crashed, or every socket is gone and the bounded inputs are used up. Each
module's type invariant is a property of its own in `wq_ring`; elsewhere it is
the first conjunct of the named property that stands first in the run.

**`wq_ring`** (`WriteQueue`): two sockets, a ring of two slots, three messages,
two connections per descriptor, for each of the API, the display and a plugin.
Each accepted buffer is in one slot, sent once or freed once (`Accounted`). It
reaches the descriptor it was written for and, on the display's and a plugin's
protocol, the very connection, unless two pages were open together
(`SentToAddressee`): descriptors are reused, but the CLOSED callback clears the
slots. (The API's does not, so an API client can be sent what was left for the
client that had its descriptor before.) Only the N-th message accepted after it
pushes one out (`OverwriteDistance`). For pages that come one after the other,
and as long as no write was left partial, messages go out in order until the ring
first overflows (`InOrder`), and that needs a full ring (`FirstLossWhenFull`);
after it, the walk starts past the older messages. The ring implements `Outbox` (`ImplementsOutbox`), and a
message for a socket that stays open leaves it (`EventuallyLeaves`): a walk puts
the one cursor past the messages of other sockets, but a walk that starts where
it would end goes all round, and finds them. Two slots and three messages are the
smallest instance with a wrap and an overwrite; two sockets and two connections
the smallest with a shared cursor and a reused descriptor. The theorems remove
these bounds for all but liveness.

**`pa_general`** (`PendingActions`): a plugin and the display, two slots, three
requests, one notice, one lost connection or message freed by `Plugin_Disable`
(`plugin.c:663`, on disable and reload). Each request waits, was answered once
or was dropped (`Kept`); only the N-th request after it drops it
(`DropDistance`); a plugin's message answers at most one request, and a request
that had its page to itself gets its own answer (`RepliesMatched`); and what
nothing confused is answered (`EveryRequestAnswered`):
the poll, which stops at `lastAction`, passes no slot for good. Three requests
over two slots reuse a slot; one notice and one break suffice to shift answers.
A freed message may be the answer to a request: that request keeps its slot, and
a later message may be taken for its answer, which `RepliesMatched` allows only
when the page had something else under way.
That the page must be the request's own is no caution of the model: two requests
for one plugin are answered in order of slots, so one gets the other's data
(`apiPending.c:122`), although identifiers exist to tell them apart
(`api.c:564-566`).

**`ps_general`** (`PluginSchedule`): periodic, one-shot and background scripts,
the handler between any two steps, flags in two steps, a slow child, a failing
fork and a failing `popen`, three timers. An armed timer is the plugin's own with live data, and a
periodic script's plugin never deletes another's (`TimersSound`). Between calls, a
disabled plugin has no armed timer, and an enabled one has its timer unless its
script took over or a fork failed (`ArmedAsEnabled`). A running process is the
one the plugin knows, but for three mishaps (`ChildRecorded`). Timers leak only
by a display that is lost while the plugin is disabled, one each
(`LeakBounded`). An enabled script runs unless it could not be
started (`EnabledRuns`). Three timers allow a
leaked one, a deleted one and the current one. The first of the three mishaps
takes two calls only: a second enable of a plugin whose script is in the
background (`plugin.c:646` sees no timer) starts another process, and disable,
said to stop the plugin's script (`api.c:54-56`), leaves the first running.

**`ds_general`** (`DisplaySession`): one plugin, two pages, one page that leaves,
one call, all circumstances. While pages do not overlap, the daemon sees the
display, and CLOSED never finds NULL (`DisplaySeen`); undisturbed, the count
is the page's, but for reports under way (`CountAgrees`), and stop ends
(`UndisturbedStopEnds`); enabled plugins get into every page the loop can see
(`PagesGetPlugins`). Two pages can overlap, or follow each other; one call and
one leave produce each circumstance.

**`ds_pageleft`**: *violated*. A page with plugins closes; the daemon is stopped;
it waits for ever, since the count is not reset.

**`rg_general`** (`PluginRegistry`): five plugins, loaded in all orders, removed
and reloaded in all orders, with reboots, one name a prefix of another. A plugin
not removed is found, and until a node with two children is removed each is
listed once (`TreeIntact`). Until then or a wrong rename, nothing freed is
followed or freed again (`DefinedUnlessMishap`), and each protocol serves its own
plugin (`ServesOwn`). Five nodes give every shape of removal: leaf, one child on
either side, two children with the successor next or further down, with or
without a child of its own. A reboot starts from nothing, so one round of calls
is as good as many.

**`rg_rmplug`**: *violated*. Three plugins; remove the root, then its successor:
the latter is freed and still listed.

**`st_general`** (`PluginSettings` with `HashTable`): three settings, one a prefix
of another, two values, two lines at the start, three calls, two crashes; a table
of five places and a hash with which keys collide until it has grown. Every
setting is, in one of the two files, as it was or as asked for (`FilesSound`). The
daemon can start again (`BootsAgain`) with each plugin as last commanded
(`BootFollowsCommand`), but for the named mishaps. After a start or a reload, what
is found in the table is what the file says, each key once, apart from
start-on-load, which reload writes after it read (`RereadByReload`). Two crashes
allow one in a call that works on what another crash left; three calls allow an
interrupted one between two others; six keys over five places do not fit without
growing, so a table that loses or doubles an entry when it grows is caught. The
theorems remove the bounds on files, settings, calls and crashes, and this choice
of a hash, and they hold for any number of shortened values that read as true
(`Truths`), of which the run has none.

**`as_general`** (`ApiSession`): two runs of `mmcom`, started in the same second or
not, two descriptors, messages of one or two parts, commands that are answered at
once, later or never, that stop the daemon or restart it (install, which is a
reboot with one response more). A command of which nothing crossed another's is
executed as it was sent, once, for its sender, whatever was half received before
(`CommandsWhole`). The answer a client ends with is that to its own command
(`AnswerIsToOwnCommand`): responses left in the ring go to whoever has the
descriptor next, and only the identifier keeps them apart. A pending request
waits with a freed socket only if the client that sent it got no answer to it
(`FreedSocketOnlyIfLeft`; that is mostly its own socket, but a message whose parts
were mixed up waits with the socket of whoever sent the last one). Leaving without
an answer is enough to use a freed socket, as `mmcom` waits a second and a page is
given all the time. A client ends in time (`ClientEnds`), and one whose command is
answered at once, and neither crossed nor met by a shutdown, does not hang
(`PatientIsAnswered`). Two clients over two descriptors reuse one and share the
buffer; two parts suffice to interleave; one second tells who started when and
who waited too long.

**`iq_general`** (`InterruptedQueue`): a plugin with a timer and a page that is sent
"clear" before each "write"; a ring of three, two messages from the main thread,
two runs of the handler, two connections. The handler strikes before any
instruction. The heap and the ring suffer only if it struck inside an add or a
clear, or put its message over the one that a walk had in hand (`RingSound`): a
walk, the function the main thread is mostly in, bears all else, and a full ring
by itself does no harm. Even after cursors went astray, a message of neither
side of such a meeting is written at most to its own connection and with its own
length, and is written or in the ring until N more came (`BystandersUnharmed`).
No message stays in the ring for good (`EventuallyLeaves`). Three slots let two
messages of the handler pass the walk's slot or not; two runs let the second find
what the first broke; a second connection sees what a clear left.

**`pg_general`** (`PluginPage`): three clients, two external programs, a ring of
two, four calls from outside. The plugin holds no freed socket, and NULL is followed only
after two clients or programs overlapped or a reload (`SocketsSound`). A page
that has confirmed and received shows the stored CSS (`ShowsStoredStyle`).
savecss writes every attribute that any page shows and forgets none saved
before, until a reload dropped the CSS table (`SavedStaysSaved`). An enabled plugin gets shown while the window is open,
unless a mishap befell it (`EnabledIsShown`). Three clients are two that overlap
and one that comes after. The same properties hold with two attributes and a
ring of three (2.4 million states, kept out of the runs for its time).

**`pg_reload`**: *violated*. Reload of a connected plugin: the old page's close
finds `socketInstance` NULL and takes the daemon down, or makes it forget the
new page.

Behaviour met while modelling that no run singles out: `setopt
start-on-load=false` on an enabled plugin is undone by its next reload; `getopt
start-on-load` after a reload answers what was in the file in the middle of it;
a blank `setcss` value clears the page's style but not the store, so the old
value returns with the next page; `savecss` after a reload empties
`position.txt`, as the CSS table is not made again; `rmplug` lasts until the next
reboot, which reads the directories again; an unknown command makes the daemon read `allActions[-1]`; the
response to `stop` may never be written, since the loop ends first; `mmcom` exits
with 0 and prints nothing whether it was answered, timed out or was refused.

## 4. Fairness

- `WriteQueue`: weak fairness of a walk under way (nothing else runs on the
  thread until it ends), strong fairness of each socket's WRITEABLE callback. The
  loop never stops calling `lws_service`, and the API's callback re-arms itself;
  the callback is not enabled while libwebsockets flushes a partial write, hence
  strong.
- `PendingActions`: weak fairness of `APIPending_update` (each turn) and, per
  page, of the message's arrival and the page's answer. None for connecting:
  `EveryRequestAnswered` makes no demand once a connection was lost or a message
  freed.
- `PluginSchedule`: weak fairness of the main thread's next step and of the
  handler of an armed timer. Nobody must call anything.
- `DisplaySession`: weak fairness of the main thread and the pages' scripts;
  strong fairness of each socket's callbacks, as they are enabled only in
  `lws_service`, where each turn returns.
- `ApiSession`: weak fairness of each side's callbacks and of `mmcom`'s test of the
  clock: both programs loop around `lws_service`, and the API's callback asks for
  WRITEABLE again each time. Neither the clock nor a page is assumed to move;
  `ClientEnds` starts when the time is up.
- `InterruptedQueue`: weak fairness of the function the main thread is in, strong
  fairness of WRITEABLE, which comes again and again while the page is connected.
  Nothing is assumed of the timer.
- `PluginPage`: weak fairness, while the daemon lives, of each callback with
  something to handle, of the window's load and unload, of the client's timers.

No user, API client, external program or crash is ever assumed to act.

## 5. What is proved

`WriteQueueProofs` proves, for every ring size `N`, set of sockets, protocol and
bound (`N \in Nat \ {0}` and the two "not a member" assumptions are all that is
assumed):

- `TypeCorrect`: `Spec => []TypeOK`, inductive as it stands; the cursors' step stays inside
  the ring by `SuccessorInSlots`.
- `AccountedAlways`: `Spec => []Accounted`. `Accounted` is inductive on top of
  `TypeOK`, but only all four parts together (no duplicate, no invention, one fate,
  all accepted): that an overwritten or cleared message has no second fate rests
  on it being in one slot, and a new identifier is fresh because none was
  invented. One lemma for each operation that moves a message: `AddAccounted`,
  `WriteSlotAccounted`, `ClearAccounted`.
- `OverwriteDistanceHolds`: `Spec => OverwriteDistance`, an action property. It
  needs the age of every message: a buffered message accepted since the cursors
  were reset sits as many slots before `lastBuffered` as messages came after it
  (`AgeInv`, modulo `N`). The walk and the clear keep it, since a clear that
  resets the cursors starts a new epoch.
- `SentToAddresseeAlways`: `Spec => []SentToAddressee`. The invariant is that,
  unless pages overlapped, at most one page is open and it is the current one
  (`OnePage`), and what is queued is for its present connection (`QueuedForOpen`).
- `InOrderAlways`, `FirstLossWhenFullHolds`: `Spec => []InOrder` and
  `Spec => FirstLossWhenFull`. While pages come one after the other, without a
  partial write or an overflow, the messages in the ring are the newest without a
  gap, the oldest of them is the next that a walk looks at, and what was sent was
  older (`CalmInv`, on top of `AgeInv` and of where a walk is, `WalkerInv`).
- `RingImplementsOutbox`: `Spec => Outbox!Spec` under the mapping. Each step maps
  to one: `AddIsAccept`, `WriteIsSend`, `ClearIsDiscard`; everything else
  stutters. It uses `AccountedAlways`, and `ConnBound`, that connections are
  numbered from what was opened.

`PendingActionsProofs` proves, for every ring size and set of plugins
(`N \in Nat \ {0}`, the bounds are naturals, and the three markers `NoAction`,
`NoReply` and `Notice` are told apart from requests):

- `KeptAlways`: `Spec => []Kept`, the types and `Accounted`. `Accounted` counts the
  slots of a request, and is not inductive: `KeptInv` says instead, from the slots,
  that a request that waits was accepted, is unanswered, not dropped and in no other
  slot (`SlotInv`), and, from the requests, what became of each (`FateInv`).
  `RequestKeeps` is the step that may drop a request, `UpdateKeeps` the one that
  answers; `OthersKeep` and `ConnectionsType` are the steps of pages,
  connections and a disable.
- `DropDistanceHolds`: `Spec => DropDistance`, an action property. A request that
  waits sits as many slots behind `lastAction` as requests came after it (`AgeInv`
  on top of `KeptInv`); the slot that `APIPending_getFreeSlot` takes has age `N - 1`.
- `RepliesMatchedAlways`: `Spec => []RepliesMatched`. Whatever is under way between
  a page and the daemon, there or back, is about a request for that page, and each
  request is under way once (`WayInv`); the reply a request was given is about its
  page and under way no more (`UsedInv`); and as long as a page had one request at
  a time and no slot was reused, what is under way is the one that waits (`OwnInv`).

`InterruptedQueueProofs` proves, for every ring size, number of messages, of runs of
the handler and of connections, with "clear" before each "write" or not:

- `RingSoundAlways`: `Spec => []RingSound`. What the next instruction relies on: its
  slot is in the ring, and what it found there is there or in its register
  (`PcInv`); messages are numbered as they are made (`NumberInv`); while nothing was
  torn, no message is in two slots, and none that was freed is in the ring, except
  in the one slot whose message the main thread has freed and not yet replaced
  (`HeapInv`). One lemma per group of instructions, and one for the handler, which
  makes one or two adds of its own at any of them.
- `BystandersUnharmedAlways`: `Spec => []BystandersUnharmed`. For the messages that
  are not in `torn`: each is as old as its slot says (`AgeInv`), whole and for the
  present connection (`SlotInv`), sent with its length to its connection (`SentInv`);
  an add that was not interrupted has its message in its cell (`AddInv`); and what
  lasts was sent, is in the ring, or has N messages after it (`HoldInv`).

`PluginScheduleProofs` proves, for every set of kinds of script, with and without
split flags, slow children and failing forks and popens, and for every number of timers:

- `TimersSoundAlways`: `Spec => []TimersSound`, from `ScheduleIInv`: which operation
  the main thread is in and what it has tested (`OpInv`); the schedule names a timer
  that exists with live data, and only that one is armed (`ScheduleInv`); only an
  enabled plugin's is (`EnabledInv`); a background script is forked once per timer, and a timer sees
  the loss of one display (`CountInv`).
- `ArmedAsEnabledAlways`: `Spec => []ArmedAsEnabled`, adding why an enabled plugin
  without a timer needs none (`ArmedInv`: it had its one run, or its script took
  over).
- `ChildRecordedAlways`: `Spec => []ChildRecorded`, adding, while none of the three
  mishaps happened, that while a process is alive the timer is neither armed nor
  about to be (`ChildInv`).
- `LeakBoundedAlways`: `Spec => []LeakBounded`: the timers that no schedule names
  are no more than the displays lost while the plugin was disabled, and fewer as
  long as it has one to lose (`LeakInv`).

`PluginPageProofs` proves, for every number of clients, programs, attributes (finitely many),
values and slots:

- `SocketsSoundAlways`: `Spec => []SocketsSound`: unless clients overlapped or a
  reload came, whoever is connected is the one the plugin knows (`KnownInv`).
- `SavedStaysSavedHolds`: `Spec => SavedStaysSaved`, an action property, from
  `StoreInv` (the table of CSS, where there is one, has all that the file has) and
  `ShownInv` (it has all that any page shows, or that any message on its way to a
  page is going to set).
- `ShowsStoredStyleAlways`: `Spec => []ShowsStoredStyle`: a load was confirmed by
  one who is connected (`LoadedInv`), and the last message on its way about an
  attribute, or what it shows if there is none, is what the plugin stores
  (`StyleInv`, `EndsWith`). The
  daemon sends all attributes one after the other, in an order that the code leaves
  to the hash table: lemmas on `SetToSeq` and on what is appended to a queue.

`ApiSessionProofs` proves, for any number of clients, descriptors, parts and
seconds:

- `CommandsWholeAlways`: `Spec => []CommandsWhole`: a message that met no other is
  alone in the shared buffer, with as many parts as were read (`BufferInv`), and is
  executed once (`OnceInv`, `WholeInv`).
- `AnswerIsToOwnCommandAlways`: `Spec => []AnswerIsToOwnCommand`: whatever is in the
  ring or an inbox is a response there may be (`RingInv`, `Given`: to a command that
  was executed, with its client's identifier, and final only if it does not wait),
  and so is the answer a client took (`AnswerInv`).
- `FreedSocketOnlyIfLeftAlways`: `Spec => []FreedSocketOnlyIfLeft`: a request waits
  once (`WaitInv`), and while it does its sender has no final answer. The first
  form of this property spoke of the owner of the socket; it held in the run, with
  two clients, and the proof failed at the step where three meet.

`DisplaySessionProofs` proves, for any number of pages and (finitely many) plugins:

- `DisplaySeenAlways`: `Spec => []DisplaySeen`: while pages come one after the other,
  the page there is is the daemon's (`OneInv`), and the two flags of `daemonProcess`
  are one (`LoopInv`).
- `CountAgreesAlways`: `Spec => []CountAgrees`: while nothing unusual happened, every
  command on its way to the page changes something when it arrives, and together
  they lead to what the daemon intends (`QueueInv`, `Leads`), so that each makes the
  page report once (`CountInv`). `CountIn` of a sequence
  is a cardinality, with lemmas for appending and taking.

`RegistryAndSettingsProofs` proves of `PluginRegistry`, for every set of plugins, ordered by name, and every
relation "is a prefix of" in which a prefix comes first:

- `TreeIntactAlways`: `Spec => []TreeIntact`. Until a node with two children is
  removed, the paths of the tree are finite and prefix-closed (`Shaped`), what is
  below a child compares to that side (`Ordered`), and each plugin is listed once
  (`ListInv`). A removal moves a whole subtree up: `LiftedMeans` and `Origin` say of
  each node left where it was. That a search comes to an end, at the place of a key
  or at its successor (`PlaceIs`, `SuccessorIs`), is argued by a least element of a
  finite set of paths (`LeastSet`), not by induction.
- `DefinedUnlessMishapAlways`, `ServesOwnAlways`: nothing freed is in the tree, and
  a protocol's plugin is the one its name was given to, until a mishap
  (`ProtocolInv`, `NoneDangles`).

And of `PluginSettings`, for any settings, values and names that begin others, files
of any length, and any number of calls and crashes:

- `FilesSoundAlways`: `SettingsSpec => []FilesSound`. What a file says is a fold over
  its lines; `SaidMeans` gives it a closed form, the value in the last line about
  each setting, and so `SaidWritten`, that writing a setting changes what the file
  says of it and no more, if no name is ambiguous. `FilesSound` is not inductive: a
  crash leaves whatever the steps that were done made of the files. `PlanInv` says
  of the steps left of a call that they write, unlink and rename in this order and
  in a row, and are about one setting; `FileInv` that `plugin.conf` is missing only
  between the last two, or after a crash there, and that the new file says then what
  it should.
- `BootsAgainAlways`: `SettingsSpec => []BootsAgain`, from `FileInv`: what is there has
  content until a call removes the last.
- `BootFollowsCommandHolds`: `SettingsSpec => BootFollowsCommand`, an action property.
  What the steps left will make of start-on-load is what is wanted, or, if they do
  not touch it, what the file says already (`StartInv`, `Brings`); a reload has two
  sets of such steps, of which the last decides (`PlannedAfter`, `PlannedBefore`).
- `AddFinds`: `HashTable_add` makes the new value found under its key and no other
  key's found differently, however the keys collide and however often the table
  grows. In a table that is `Well`, each entry is at the first of its key's places
  that is free or its own; a place that was passed over for another key is taken,
  and stays so since nothing is taken out, so that an entry put in its place hides
  none (`PutWell`). Copying to a larger table, place by place, keeps that
  (`CopiedIs`, `ResizeIs`, `WithRoomIs`).
- `RereadByReloadAlways`: `SettingsSpec => []RereadByReload`. After a file was read the
  table tells of each setting its last line (`ReadIs`, from `AddFinds` and
  `SaidMeans`), and each entry is listed once (`ListedIs`, `KnowsWhen`). Reload goes
  on to write start-on-load after it read: the invariant (`TableInv`) says that the
  table tells of the other settings what `plugin.conf` says, or `plugin.new.conf`
  while that is about to replace it (`OthersWritten`).

The last two have hypotheses, which the run's instance satisfies (TLC was also given
every well-formed table of 5 to 12 places): the hash is in the table (`HashInTable`; `hash1`
takes it modulo the size); growing ends (`GrowthEnds`: after `MaxGrowths` times all
entries have a place; the code goes on until they have); and, for
`RereadByReloadAlways`, no setting's name begins with "start-on-load"
(`NoLonger`), or reload would overwrite that one.

The definitions these theorems are about recur over the lines of a file, the places
of a table or the times it grew. Where that is a function on an interval, `UpTo` and
`StepByStep` stand in for induction: what holds at 0 and is kept by each step holds
up to n, and a sequence of steps has a result; both are proved by a least
counterexample.

TLC finds all of these inductive invariants true on the runs' instances (for
`Shaped`, with a bound in place of the `Nat` it quantifies over). Apart from bounds
being naturals and rings having a slot, the theorems assume of the constants that
the markers (`NoClient`, `NoPage`, `None`, ...) are told apart from the values they
stand beside, and that plugins and attributes are finitely many.

## 6. What is only model-checked

- Liveness: `EventuallyLeaves`, `EveryRequestAnswered`, `EnabledRuns`,
  `UndisturbedStopEnds`, `PagesGetPlugins`, `ClientEnds`, `PatientIsAnswered`,
  `EnabledIsShown`, and the violated ones. Fairness is about ENABLED, which is out
  of this prover's reach.
- That growing a hash table ends (`GrowthEnds`), for the run's hash. It is a fact
  about the hash, and `AddFinds` and `RereadByReloadAlways` assume it.

Every safety property that a passing run checks, invariant or action property, is a
theorem. No module a theorem is about declares RECURSIVE operators.

## 7. Not modelled, and why

- `InterruptedQueue`: the heap's own functions under the signal (`malloc` is not
  reentrant; what an interrupted one does is the C library's), partial writes and
  several sockets (they are `WriteQueue`'s), an optimizing compiler (the build
  sets none).
- `ApiSession`: lines, quotes and the look-up of names (a message is one command or
  none), arguments of `mmcom`, several commands of one browser client, clients
  that stay connected after their answer. `mirrorAPI.js` counts identifiers of its
  own.
- API calls sent by a plugin's page through its own protocol: for the pending
  ring they are messages nobody asked for (`PendingActions`, `Notify`), for the
  write ring messages (`WriteQueue`). Several windows for one plugin: `PluginPage`
  has one, with several clients; `DisplaySession` has several.
- `PluginPage` takes the table of CSS attributes for a map; `HashTable` is checked,
  and `AddFinds` proved, under the settings.
- `Protocol_removeProtocol` and `PluginSocket_RemoveProtocol` (never called);
  growing the arrays of protocols and rings while the daemon starts.
- Lengths of texts: messages are values without length. A page of 4096 bytes or
  more leaves the read buffer of `_pluginLoadHTML` (`plugin.c:718`) without the
  zero that `strcat` looks for.
- Failed allocations, but for a failed `fork` and `popen`; a failed allocation in
  `Script_ExecGetSTDIO` has the effect of the latter.
- A pending request about a plugin that `rmplug` removed: the slot keeps the freed
  `Plugin_t` (`apiPending.c:122`), and what the poll reads there is not defined by
  the code. `PendingActions` has no `rmplug`.
- `plugin.c:121-123`: the WRITEABLE callback of a page whose plugin was reloaded
  under it does not ask for the next one. For `WriteQueue` callbacks come again
  and again while the socket is open.
- `PluginSettings`, `Starts`: `pluginConf.c:281-283` compares as many characters
  as the line has. A shortened value, such as `tr`, is modelled (`Truths`, for
  which the proofs take any set); a shortened name (from `st` on) and a line
  without a value, which set the flag too, are not: the daemon never writes them,
  and no property is about a file with two spellings of one setting.
- Layout of configuration lines (comments, blanks), JSON escaping, directory
  listing, the generated index page: wording and pure I/O.
- The web GUI, sample plugins, vendored libraries, build files.

## 8. Plan

Done: the ring with its proofs, and the ring under the timer's handler; pending
actions; scheduling; the display; the registry; the settings and the hash table;
the plugin's page; API sessions. What is left to model is in section 7.

Done too: the theorems of section 5, which state every safety property of the
passing runs. What is left to prove is liveness, with a prover that has ENABLED.

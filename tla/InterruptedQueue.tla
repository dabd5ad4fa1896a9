-------------------------- MODULE InterruptedQueue --------------------------
(***************************************************************************)
(* The ring of a plugin with a timer (protocolWrite.c), between the        *)
(* instructions of the functions that use it.                              *)
(*                                                                         *)
(* The main thread adds messages to the ring, walks it and, when the page  *)
(* is gone, clears it (plugin.c).  The timer's signal handler runs the     *)
(* plugin's script and adds what it printed (pluginSchedule.c) to the same *)
(* ring, on top of whichever instruction the main thread was at: neither   *)
(* side blocks the signal or locks the ring.  The handler itself is not    *)
(* interrupted.  The program is compiled without optimization: each        *)
(* variable is loaded and stored where the code says so.                   *)
(*                                                                         *)
(* Where WriteQueue has one action per function call this module has one   *)
(* per load or store that another can see.  It leaves out what that module *)
(* has: partial writes and several connections at a time.  A connection    *)
(* gets the descriptor of the last one.  The heap's own functions are      *)
(* taken to bear the interruption.                                         *)
(***************************************************************************)
EXTENDS Integers, Sequences, FiniteSets

CONSTANTS N,              \* NUM_BUFFERED_WRITES
          ClearFirst,     \* does the plugin's page get "clear" before "write"?
          MaxAdds,        \* bound: messages of the main thread
          MaxRuns,        \* bound: runs of the schedule handler
          MaxConns        \* bound: connections of the plugin's page

ASSUME NAssumption == N \in Nat \ {0}
ASSUME ClearFirstAssumption == ClearFirst \in BOOLEAN
ASSUME BoundsAssumption == {MaxAdds, MaxRuns, MaxConns} \subseteq Nat

Slots == 0 .. N - 1
NULL == 0                 \* messages are numbered from 1, as they are made
Messages == 1 .. MaxAdds + 2 * MaxRuns
Slot == [msg : {NULL} \cup Messages, len : {NULL} \cup Messages]

(* Where the main thread is: in libwebsockets or elsewhere ("idle"), or    *)
(* before an instruction of one of the three functions.                    *)
AddSteps == {"slot", "occupied", "old", "freeOld", "message", "length",
             "count", "counted", "wrap", "wrapped"}
WalkSteps == {"look", "take", "write", "again", "free", "null", "next"}
AtHand == WalkSteps \ {"look", "next"}
ClearSteps == {"test", "clearLoad", "clearFree", "clearNull", "clearLength",
               "clearNext", "reset", "disconnect"}

VARIABLES writes,         \* the slots; len says whose length it is
          lastBuffered, lastWritten,
          pc, at,         \* the main thread's instruction, and its slot
          reg, len,       \* values it loaded
          mine,           \* the message it adds
          socketInstance, \* is it set?
          conn,           \* connections so far
          crash,          \* what the heap or the ring suffered
          freed,          \* history: messages whose memory was freed
          to,             \* history: the connection each message was made for
          sent,           \* history: what was handed to lws_write
          torn,           \* history: messages of an interrupted add or clear,
                          \* those of the handler that interrupted it, or
                          \* that put them where a walk had a message at hand
          adds, runs      \* counters for the bounds

ring == <<writes, lastBuffered, lastWritten>>
main == <<pc, at, reg, len, mine>>
page == <<socketInstance, conn>>
memory == <<crash, freed>>
history == <<to, sent, torn, adds, runs>>
vars == <<ring, main, page, memory, history>>

Init ==
  /\ writes = [i \in Slots |-> [msg |-> NULL, len |-> NULL]]
  /\ lastBuffered = 0 /\ lastWritten = 0
  /\ pc = "idle" /\ at = 0 /\ reg = NULL /\ len = NULL /\ mine = NULL
  /\ socketInstance = FALSE /\ conn = 0
  /\ crash = "no" /\ freed = {}
  /\ to = <<>> /\ sent = {} /\ torn = {}
  /\ adds = 0 /\ runs = 0

(* An instruction of the main thread, and the next one. *)
Step(here, next) == crash = "no" /\ pc = here /\ pc' = next

(* free(m) *)
Free(m) ==
  /\ crash' = IF m \in freed THEN "double free" ELSE crash
  /\ freed' = freed \cup {m}

-----------------------------------------------------------------------------
(* Plugin_SendMsg on the main thread, and Protocol_addWriteToQueue. *)

SendMsg ==
  /\ Step("idle", "slot") /\ socketInstance /\ adds < MaxAdds
  /\ mine' = Len(to) + 1 /\ to' = Append(to, conn) /\ adds' = adds + 1
  /\ UNCHANGED <<ring, at, reg, len, page, memory, sent, torn, runs>>

(* curWrite = &curBuffer->writes[curBuffer->lastBuffered] *)
AddSlot ==
  /\ Step("slot", "occupied")
  /\ at' = lastBuffered
  /\ UNCHANGED <<ring, reg, len, mine, page, memory, history>>

(* if (curWrite->msg) *)
AddOccupied ==
  /\ Step("occupied", IF writes[at].msg # NULL THEN "old" ELSE "message")
  /\ UNCHANGED <<ring, at, reg, len, mine, page, memory, history>>

AddOld ==
  /\ Step("old", "freeOld")
  /\ reg' = writes[at].msg
  /\ UNCHANGED <<ring, at, len, mine, page, memory, history>>

AddFreeOld ==
  /\ Step("freeOld", "message")
  /\ Free(reg)
  /\ UNCHANGED <<ring, at, reg, len, mine, page, history>>

AddMessage ==
  /\ Step("message", "length")
  /\ writes' = [writes EXCEPT ![at].msg = mine]
  /\ UNCHANGED <<lastBuffered, lastWritten, at, reg, len, mine, page, memory, history>>

AddLength ==
  /\ Step("length", "count")
  /\ writes' = [writes EXCEPT ![at].len = mine]
  /\ UNCHANGED <<lastBuffered, lastWritten, at, reg, len, mine, page, memory, history>>

(* curBuffer->lastBuffered++; curBuffer->lastBuffered %= ... *)
AddCount ==
  /\ Step("count", "counted")
  /\ at' = lastBuffered
  /\ UNCHANGED <<ring, reg, len, mine, page, memory, history>>

AddCounted ==
  /\ Step("counted", "wrap")
  /\ lastBuffered' = at + 1
  /\ UNCHANGED <<writes, lastWritten, at, reg, len, mine, page, memory, history>>

AddWrap ==
  /\ Step("wrap", "wrapped")
  /\ at' = lastBuffered
  /\ UNCHANGED <<ring, reg, len, mine, page, memory, history>>

(* Definitions named Fault... are faulty variants of the definition that   *)
(* follows them, each with one plausible mistake; no behaviour uses them.  *)
FaultWrapped(i) == i % (N - 1)
(* i %= NUM_BUFFERED_WRITES *)
Wrapped(i) == i % N

AddWrapped ==
  /\ Step("wrapped", "idle")
  /\ lastBuffered' = Wrapped(at)
  /\ UNCHANGED <<writes, lastWritten, at, reg, len, mine, page, memory, history>>

Add ==
  \/ SendMsg \/ AddSlot \/ AddOccupied \/ AddOld \/ AddFreeOld \/ AddMessage
  \/ AddLength \/ AddCount \/ AddCounted \/ AddWrap \/ AddWrapped

-----------------------------------------------------------------------------
(* SERVER_WRITEABLE: Protocol_processQueue; only it uses lastWritten. *)

FaultFirst == IF lastWritten = lastBuffered THEN "idle" ELSE "look"
(* do: the slot of lastWritten is looked at before the cursors are compared. *)
First == "look"

Writeable ==
  /\ Step("idle", First) /\ socketInstance
  /\ UNCHANGED <<ring, at, reg, len, mine, page, memory, history>>

WalkLook ==
  /\ Step("look", IF writes[lastWritten].msg # NULL THEN "take" ELSE "next")
  /\ UNCHANGED <<ring, at, reg, len, mine, page, memory, history>>

WalkTake ==
  /\ Step("take", "write")
  /\ reg' = writes[lastWritten].msg /\ len' = writes[lastWritten].len
  /\ UNCHANGED <<ring, at, mine, page, memory, history>>

WalkWrite ==
  /\ Step("write", "again")
  /\ crash' = IF reg \in freed THEN "use after free" ELSE crash
  /\ sent' = sent \cup {[msg |-> reg, len |-> len, conn |-> conn]}
  /\ UNCHANGED <<ring, at, reg, len, mine, page, freed, to, torn, adds, runs>>

(* free(curWrite->msg) *)
WalkAgain ==
  /\ Step("again", "free")
  /\ reg' = writes[lastWritten].msg
  /\ UNCHANGED <<ring, at, len, mine, page, memory, history>>

WalkFree ==
  /\ Step("free", "null")
  /\ Free(reg)
  /\ UNCHANGED <<ring, at, reg, len, mine, page, history>>

FaultSent(slot) == slot
(* curWrite->msg = NULL *)
Sent(slot) == [slot EXCEPT !.msg = NULL]

WalkNull ==
  /\ Step("null", "next")
  /\ writes' = [writes EXCEPT ![lastWritten] = Sent(@)]
  /\ UNCHANGED <<lastBuffered, lastWritten, at, reg, len, mine, page, memory, history>>

(* lastWritten++, and the end of the loop: while (lastWritten != lastBuffered) *)
WalkNext ==
  LET i == (lastWritten + 1) % N IN
    /\ Step("next", IF i = lastBuffered THEN "idle" ELSE "look")
    /\ lastWritten' = i
    /\ UNCHANGED <<writes, lastBuffered, at, reg, len, mine, page, memory, history>>

Walk ==
  \/ Writeable \/ WalkLook \/ WalkTake \/ WalkWrite \/ WalkAgain \/ WalkFree
  \/ WalkNull \/ WalkNext

-----------------------------------------------------------------------------
(* The page's connection: ESTABLISHED, and CLOSED with _clearQueue. *)

Established ==
  /\ Step("idle", "idle") /\ ~socketInstance /\ conn < MaxConns
  /\ socketInstance' = TRUE /\ conn' = conn + 1
  /\ UNCHANGED <<ring, at, reg, len, mine, memory, history>>

Closed ==
  /\ Step("idle", "test") /\ socketInstance
  /\ at' = 0
  /\ UNCHANGED <<ring, reg, len, mine, page, memory, history>>

ClearTest ==
  /\ Step("test", IF writes[at].msg # NULL THEN "clearLoad" ELSE "clearNull")
  /\ UNCHANGED <<ring, at, reg, len, mine, page, memory, history>>

ClearLoad ==
  /\ Step("clearLoad", "clearFree")
  /\ reg' = writes[at].msg
  /\ UNCHANGED <<ring, at, len, mine, page, memory, history>>

ClearFree ==
  /\ Step("clearFree", "clearNull")
  /\ Free(reg)
  /\ UNCHANGED <<ring, at, reg, len, mine, page, history>>

(* buffers->msg = NULL *)
ClearNull ==
  /\ Step("clearNull", "clearLength")
  /\ writes' = [writes EXCEPT ![at].msg = NULL]
  /\ UNCHANGED <<lastBuffered, lastWritten, at, reg, len, mine, page, memory, history>>

ClearLength ==
  /\ Step("clearLength", "clearNext")
  /\ writes' = [writes EXCEPT ![at].len = NULL]
  /\ UNCHANGED <<lastBuffered, lastWritten, at, reg, len, mine, page, memory, history>>

ClearNext ==
  /\ Step("clearNext", IF at + 1 \in Slots THEN "test" ELSE "reset")
  /\ at' = IF at + 1 \in Slots THEN at + 1 ELSE 0
  /\ UNCHANGED <<ring, reg, len, mine, page, memory, history>>

ClearReset ==
  /\ Step("reset", "disconnect")
  /\ lastWritten' = 0 /\ lastBuffered' = 0
  /\ UNCHANGED <<writes, at, reg, len, mine, page, memory, history>>

(* plugin->socketInstance = NULL *)
Disconnect ==
  /\ Step("disconnect", "idle")
  /\ socketInstance' = FALSE
  /\ UNCHANGED <<ring, at, reg, len, mine, conn, memory, history>>

Connection ==
  \/ Established \/ Closed \/ ClearTest \/ ClearLoad \/ ClearFree \/ ClearNull
  \/ ClearLength \/ ClearNext \/ ClearReset \/ Disconnect

-----------------------------------------------------------------------------
(* The signal handler. *)

(* Protocol_addWriteToQueue in one piece, on the ring r.  Between the two  *)
(* stores that count a message lastBuffered may be N: there the slot is    *)
(* the memory of lastBuffered and lastWritten themselves.                  *)
Added(r, m) ==
  IF r.last = N THEN [r EXCEPT !.crash = "out of bounds"]
  ELSE LET old == r.writes[r.last].msg IN
    [writes |-> [r.writes EXCEPT ![r.last] = [msg |-> m, len |-> m]],
     last |-> Wrapped(r.last + 1),
     freed |-> IF old = NULL THEN r.freed ELSE r.freed \cup {old},
     crash |-> IF old \in r.freed THEN "double free" ELSE r.crash]

(* _scheduleHandler: the messages that one run of the script makes. *)
Timer ==
  LET first == Len(to) + 1
      before == [writes |-> writes, last |-> lastBuffered,
                 freed |-> freed, crash |-> crash]
      one == Added(before, first)
      after == IF ClearFirst /\ one.crash = "no" THEN Added(one, first + 1) ELSE one
      made == first .. first + IF ClearFirst THEN 1 ELSE 0
      met == pc \in AtHand /\ after.writes[lastWritten] # writes[lastWritten] IN
    /\ crash = "no" /\ socketInstance /\ runs < MaxRuns
    /\ writes' = after.writes /\ lastBuffered' = after.last
    /\ freed' = after.freed /\ crash' = after.crash
    /\ to' = to \o [i \in 1 .. Cardinality(made) |-> conn]
    /\ torn' = torn \cup (IF pc \in AddSteps THEN made \cup {mine} ELSE {})
                    \cup (IF pc \in ClearSteps \/ met THEN made ELSE {})
    /\ runs' = runs + 1
    /\ UNCHANGED <<lastWritten, main, page, sent, adds>>

Main == Add \/ Walk \/ Connection
Next == Main \/ Timer

Spec == Init /\ [][Next]_vars

(* The main thread runs: a function that it entered ends, and WRITEABLE    *)
(* is reported again and again, since each report asks for the next.       *)
(* Nothing is assumed of the timer, the page or new messages.              *)
InFunction == pc # "idle" /\ Main
Fairness == WF_vars(InFunction) /\ SF_vars(Writeable)
FairSpec == Spec /\ Fairness

-----------------------------------------------------------------------------
(* Type invariant. *)
TypeOK ==
  /\ writes \in [Slots -> Slot]
  /\ lastBuffered \in 0 .. N /\ lastWritten \in Slots
  /\ pc \in {"idle"} \cup AddSteps \cup WalkSteps \cup ClearSteps
  /\ at \in 0 .. N
  /\ {reg, len, mine} \subseteq {NULL} \cup Messages
  /\ socketInstance \in BOOLEAN /\ conn \in 0 .. MaxConns
  /\ crash \in {"no", "double free", "use after free", "out of bounds"}
  /\ freed \subseteq Messages /\ torn \subseteq Messages
  /\ to \in Seq(1 .. MaxConns) /\ Len(to) <= Cardinality(Messages)
  /\ sent \subseteq [msg : Messages, len : {NULL} \cup Messages, conn : 1 .. MaxConns]
  /\ adds \in 0 .. MaxAdds /\ runs \in 0 .. MaxRuns

(* The timer may strike while the ring is walked, at any instruction, or   *)
(* between two functions, and the ring may be full: the heap and the ring  *)
(* suffer only if it struck in the middle of an add or a clear, or put a   *)
(* message where the walk had one at hand.                                 *)
SafeUnlessTorn == crash # "no" => torn # {}

(* The ring is well typed, cursors included, and sound. *)
RingSound == TypeOK /\ SafeUnlessTorn

(* Also when it struck there, and the cursors went astray: a message that  *)
(* was not being added, nor made by the handler then, is written at most   *)
(* to its own connection and with its own length; and as long as this      *)
(* connection lasts it is written, or in the ring, unless the ring went    *)
(* round and N more messages were accepted.                                *)
Pending(m) == \E i \in Slots : writes[i].msg = m
Lasts(m) == to[m] = conn /\ socketInstance /\ pc \notin ClearSteps
BystandersUnharmed ==
  crash = "no" =>
    \A m \in DOMAIN to :
      m \notin torn /\ ~(pc \in AddSteps /\ mine = m) =>
        /\ \A s \in sent : s.msg = m => s.len = m /\ s.conn = to[m]
        /\ \/ ~Lasts(m)
           \/ \E s \in sent : s.msg = m
           \/ \E i \in Slots : writes[i] = [msg |-> m, len |-> m]
           \/ Len(to) - m >= N

(* No message stays in the ring: wherever an interruption left the cursors *)
(* and the slots, walk after walk meets them all.                          *)
EventuallyLeaves ==
  \A m \in Messages : Pending(m) ~> ~Pending(m) \/ ~socketInstance \/ crash # "no"
=============================================================================

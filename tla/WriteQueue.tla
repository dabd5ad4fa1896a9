----------------------------- MODULE WriteQueue -----------------------------
(***************************************************************************)
(* The buffered socket writes of one websocket protocol (protocolWrite.c). *)
(* All sockets that speak the protocol share one ring of N slots.  A       *)
(* message is put in the slot of lastBuffered whatever that slot holds;    *)
(* the SERVER_WRITEABLE callback of a socket walks the ring from           *)
(* lastWritten to lastBuffered and hands that socket's messages to         *)
(* libwebsockets.                                                          *)
(*                                                                         *)
(* Who walks, writes and clears depends on the callback of the protocol.   *)
(* API protocols treat every socket alike and never clear.  The display    *)
(* and a plugin each keep one current socket (displaySocketInstance,       *)
(* plugin->socketInstance): it alone is walked, and when any socket of the *)
(* protocol closes it is the current one whose slots are freed.            *)
(*                                                                         *)
(* Everything here runs on the main thread, one callback or API call at a  *)
(* time: that is the ring of the API protocols, of the display, and of a   *)
(* plugin without a timer.  What a schedule handler that interrupts these  *)
(* functions does to a plugin's ring is not part of this module.           *)
(***************************************************************************)
EXTENDS Integers, Sequences

CONSTANTS Sockets,        \* descriptors of the sockets of this protocol
          N,              \* NUM_BUFFERED_WRITES
          NoMsg,          \* the content of an empty slot
          NoSocket,       \* no callback is walking the ring
          Protocols,      \* whose callback: "api", "display", "plugin"
          MaxAdds,        \* bound: messages accepted
          MaxConns        \* bound: connections made on one descriptor

ASSUME NAssumption == N \in Nat \ {0}
ASSUME SocketsAssumption == NoSocket \notin Sockets
ASSUME ProtocolsAssumption == Protocols \subseteq {"api", "display", "plugin"}
ASSUME BoundsAssumption == MaxAdds \in Nat /\ MaxConns \in Nat

Slots == 0 .. N - 1
Message == [fd : Sockets, conn : Nat, id : Nat]
ASSUME NoMsgAssumption == NoMsg \notin Message

VARIABLES writes,         \* the slots of the ring
          lastBuffered,   \* slot the next accepted message goes to
          lastWritten,    \* slot the next walk starts from
          walker,         \* socket whose callback is walking the ring
          pc,             \* where the walk is: at a slot, or past it
          partial,        \* lws_partial_buffered(walker)
          delayed,        \* history: some write was left partial
          protocol,       \* the protocol whose ring this is
          conn,           \* conn[s]: connections made on descriptor s so far
          open,           \* sockets that are connected
          current,        \* the socket instance of the display or plugin
          overlapped,     \* history: two sockets were open at once
          added,          \* history: messages accepted
          sent,           \* history: what was handed to libwebsockets
          overwritten,    \* history: messages freed to make room
          cleared,        \* history: messages freed by a clear
          base            \* history: value of added when the cursors were reset

ring == <<writes, lastBuffered, lastWritten>>
walk == <<walker, pc, partial, delayed>>
link == <<protocol, conn, open, current, overlapped>>
history == <<added, sent, overwritten, cleared, base>>
vars == <<ring, walk, link, history>>

(* Definitions named Fault... are faulty variants of the definition that   *)
(* follows them, each with one plausible mistake; no behaviour uses them.  *)
FaultSuccessorNoWrap(i) == i + 1
FaultSuccessorShort(i) == IF i >= N - 2 THEN 0 ELSE i + 1

(* i++ ; i %= NUM_BUFFERED_WRITES *)
Successor(i) == IF i = N - 1 THEN 0 ELSE i + 1

FaultPendingAnySocket(s) == {i \in Slots : writes[i] # NoMsg}
Pending(s) == {i \in Slots : writes[i] # NoMsg /\ writes[i].fd = s}

Init ==
  /\ writes = [i \in Slots |-> NoMsg]
  /\ lastBuffered = 0 /\ lastWritten = 0
  /\ walker = NoSocket /\ pc = "slot" /\ partial = FALSE /\ delayed = FALSE
  /\ protocol \in Protocols
  /\ conn = [s \in Sockets |-> 0] /\ open = {}
  /\ current = NoSocket /\ overlapped = FALSE
  /\ added = 0 /\ sent = [s \in Sockets |-> <<>>]
  /\ overwritten = {} /\ cleared = {} /\ base = 0

(* ESTABLISHED makes a display's new page current, a plugin's page only    *)
(* when it has none.                                                       *)
CurrentAfter(s) ==
  CASE protocol = "api" -> NoSocket
    [] protocol = "display" -> s
    [] protocol = "plugin" -> IF current = NoSocket THEN s ELSE current

(* A client connects; the kernel may give it a descriptor used before. *)
Established(s) ==
  /\ walker = NoSocket
  /\ s \notin open /\ conn[s] < MaxConns
  /\ conn' = [conn EXCEPT ![s] = @ + 1]
  /\ overlapped' = (overlapped \/ open # {})
  /\ open' = open \cup {s}
  /\ current' = CurrentAfter(s)
  /\ UNCHANGED <<protocol, ring, walk, history>>

(* Messages go to the display's current page; to a plugin's current page   *)
(* or, in answer to an API call made through the plugin protocol, to the   *)
(* page that made it; to any API client.                                   *)
MayWriteTo(s) == s \in open /\ (protocol = "display" => s = current)

(* A WRITEABLE callback walks the ring for its own socket (API) or for the *)
(* current one; a plugin without one falls back on its own.                *)
MayWalk(s) ==
  /\ s \in open
  /\ \/ protocol = "api" \/ s = current
     \/ protocol = "plugin" /\ current = NoSocket

(* PluginSocket_writeToSocket, from a callback or an API call. *)
AddWriteToQueue(s) ==
  /\ walker = NoSocket
  /\ MayWriteTo(s) /\ added < MaxAdds
  /\ writes' = [writes EXCEPT ![lastBuffered] =
                  [fd |-> s, conn |-> conn[s], id |-> added]]
  /\ overwritten' = overwritten \cup
       {w.id : w \in {writes[lastBuffered]} \ {NoMsg}}
  /\ lastBuffered' = Successor(lastBuffered)
  /\ added' = added + 1
  /\ UNCHANGED <<lastWritten, walk, link, sent, cleared, base>>

FaultProcessUnlessEqual(s) ==
  /\ walker = NoSocket /\ MayWalk(s)
  /\ lastWritten # lastBuffered
  /\ walker' = s /\ pc' = "slot" /\ partial' = FALSE
  /\ UNCHANGED <<delayed, ring, link, history>>

(* The SERVER_WRITEABLE callback of s starts its walk.  libwebsockets      *)
(* calls it only once what it had buffered for s is flushed.               *)
ProcessQueue(s) ==
  /\ walker = NoSocket /\ MayWalk(s)
  /\ walker' = s /\ pc' = "slot" /\ partial' = FALSE
  /\ UNCHANGED <<delayed, ring, link, history>>

(* The slot at lastWritten holds nothing to write for this socket now. *)
SkipSlot ==
  /\ walker # NoSocket /\ pc = "slot"
  /\ lastWritten \notin Pending(walker) \/ partial
  /\ pc' = "increment"
  /\ UNCHANGED <<ring, walker, partial, delayed, link, history>>

FaultWriteKeepsSlot ==
  /\ walker # NoSocket /\ pc = "slot"
  /\ lastWritten \in Pending(walker) /\ ~partial
  /\ sent' = [sent EXCEPT ![walker] = Append(@,
                [msg |-> writes[lastWritten], to |-> conn[walker]])]
  /\ partial' \in BOOLEAN /\ delayed' = (delayed \/ partial')
  /\ pc' = "increment"
  /\ UNCHANGED <<ring, walker, link, added, overwritten, cleared, base>>

(* The slot holds a message for this socket: lws_write and free it. *)
WriteSlot ==
  /\ walker # NoSocket /\ pc = "slot"
  /\ lastWritten \in Pending(walker) /\ ~partial
  /\ sent' = [sent EXCEPT ![walker] = Append(@,
                [msg |-> writes[lastWritten], to |-> conn[walker]])]
  /\ writes' = [writes EXCEPT ![lastWritten] = NoMsg]
  /\ partial' \in BOOLEAN /\ delayed' = (delayed \/ partial')
  /\ pc' = "increment"
  /\ UNCHANGED <<lastBuffered, lastWritten, walker, link,
                 added, overwritten, cleared, base>>

(* lastWritten++ and the loop test. *)
Increment ==
  /\ walker # NoSocket /\ pc = "increment"
  /\ lastWritten' = Successor(lastWritten)
  /\ walker' = IF lastWritten' = lastBuffered THEN NoSocket ELSE walker
  /\ pc' = "slot"
  /\ UNCHANGED <<writes, lastBuffered, partial, delayed, link, history>>

FaultClearKeepsWritten(s) ==
  /\ writes' = [i \in Slots |-> IF i \in Pending(s) THEN NoMsg ELSE writes[i]]
  /\ cleared' = cleared \cup {writes[i].id : i \in Pending(s)}
  /\ lastBuffered' = 0
  /\ base' = added
  /\ UNCHANGED <<lastWritten, added, sent, overwritten>>

(* _clearQueue: free the slots of one socket and reset both cursors, *)
(* whatever the other sockets still have in the ring.                *)
ClearSlots(s) ==
  /\ writes' = [i \in Slots |-> IF i \in Pending(s) THEN NoMsg ELSE writes[i]]
  /\ cleared' = cleared \cup {writes[i].id : i \in Pending(s)}
  /\ lastWritten' = 0 /\ lastBuffered' = 0
  /\ base' = added
  /\ UNCHANGED <<added, sent, overwritten>>

FaultClosedNoClear(s) ==
  /\ walker = NoSocket /\ s \in open
  /\ open' = open \ {s}
  /\ current' = NoSocket
  /\ UNCHANGED <<ring, history, walk, protocol, conn, overlapped>>

(* A socket closes.  A page that closes when there is no current one takes *)
(* the daemon with it (lws_get_protocol(NULL)): no step models that.       *)
Closed(s) ==
  /\ walker = NoSocket /\ s \in open
  /\ open' = open \ {s}
  /\ current' = NoSocket
  /\ IF protocol = "api" THEN UNCHANGED <<ring, history>>
     ELSE current # NoSocket /\ ClearSlots(current)
  /\ UNCHANGED <<walk, protocol, conn, overlapped>>

Walk == SkipSlot \/ WriteSlot \/ Increment

Next ==
  \/ \E s \in Sockets : \/ Established(s)
                        \/ AddWriteToQueue(s)
                        \/ ProcessQueue(s)
                        \/ Closed(s)
  \/ Walk

Spec == Init /\ [][Next]_vars

(* The main loop never stops calling lws_service, and the WRITEABLE        *)
(* callback of an API client re-arms lws_callback_on_writable: a walk      *)
(* proceeds, and every open socket gets its callback again and again.      *)
Fairness == WF_vars(Walk) /\ \A s \in Sockets : SF_vars(ProcessQueue(s))
FairSpec == Spec /\ Fairness

-----------------------------------------------------------------------------
(* Type invariant. *)
TypeOK ==
  /\ writes \in [Slots -> Message \cup {NoMsg}]
  /\ lastBuffered \in Slots /\ lastWritten \in Slots
  /\ walker \in Sockets \cup {NoSocket}
  /\ pc \in {"slot", "increment"} /\ {partial, delayed} \subseteq BOOLEAN
  /\ protocol \in {"api", "display", "plugin"}
  /\ conn \in [Sockets -> Nat] /\ open \subseteq Sockets
  /\ current \in Sockets \cup {NoSocket} /\ overlapped \in BOOLEAN
  /\ added \in Nat /\ base \in Nat
  /\ sent \in [Sockets -> Seq([msg : Message, to : Nat])]
  /\ overwritten \subseteq Nat /\ cleared \subseteq Nat

InSlot(id) == \E i \in Slots : writes[i] # NoMsg /\ writes[i].id = id
WasSent(id) == \E s \in Sockets : \E i \in DOMAIN sent[s] : sent[s][i].msg.id = id

(* No message is in two slots, or handed to libwebsockets twice. *)
NoDuplicate ==
  /\ \A i, j \in Slots :
       writes[i] # NoMsg /\ writes[j] # NoMsg /\ writes[i].id = writes[j].id => i = j
  /\ \A s, t \in Sockets : \A i \in DOMAIN sent[s], j \in DOMAIN sent[t] :
       sent[s][i].msg.id = sent[t][j].msg.id => s = t /\ i = j

(* Nothing is in the ring, sent or lost that was not accepted. *)
NoInvention ==
  /\ \A i \in Slots : writes[i] # NoMsg => writes[i].id < added
  /\ \A s \in Sockets : \A i \in DOMAIN sent[s] : sent[s][i].msg.id < added
  /\ \A id \in overwritten \cup cleared : id < added

(* A message that was sent, overwritten or cleared is out of the ring, and *)
(* only one of these happened to it.                                       *)
OneFate ==
  /\ overwritten \cap cleared = {}
  /\ \A i \in Slots : writes[i] # NoMsg =>
       writes[i].id \notin overwritten \cup cleared /\ ~WasSent(writes[i].id)
  /\ \A s \in Sockets : \A i \in DOMAIN sent[s] :
       sent[s][i].msg.id \notin overwritten \cup cleared

(* Every buffer handed to the queue is accounted for: it is still in       *)
(* exactly one slot, or was sent exactly once, or was freed exactly once.  *)
(* Nothing leaks, and nothing is freed or written a second time.           *)
Accounted ==
  /\ NoDuplicate
  /\ NoInvention
  /\ OneFate
  /\ \A id \in 0 .. added - 1 :
       InSlot(id) \/ WasSent(id) \/ id \in overwritten \/ id \in cleared

(* A message reaches the descriptor it was written for and, when a display *)
(* or plugin never had two pages open at once, the connection it was       *)
(* written for: a page that is given the descriptor of the page before it  *)
(* sees none of its messages.  (With two pages, the slots freed on a close *)
(* may be those of the other page.)                                        *)
SentToAddressee ==
  \A s \in Sockets : \A i \in DOMAIN sent[s] :
    /\ sent[s][i].msg.fd = s
    /\ protocol # "api" /\ ~overlapped => sent[s][i].msg.conn = sent[s][i].to

(* "WRITING OVER BUFFERED MSG": a message accepted since the cursors were  *)
(* last reset is pushed out by the N-th message accepted after it and by   *)
(* no other, however many of its neighbours in the ring are already sent.  *)
OverwriteDistance ==
  [][\A i \in Slots :
       (writes[i] # NoMsg /\ writes'[i] \notin {NoMsg, writes[i]})
         => writes[i].id < base \/ writes'[i].id = writes[i].id + N]_vars

(* No two sockets shared the ring - API clients may, and what a closed one *)
(* left stays in it - and no write was left partial.                       *)
Undisturbed == protocol # "api" /\ ~overlapped /\ ~delayed

(* Undisturbed, a socket gets its messages in the order they were written, *)
(* until the ring overflows, over all the connections it makes.            *)
InOrder ==
  Undisturbed /\ overwritten = {} =>
    \A s \in Sockets : \A i, j \in DOMAIN sent[s] :
      i < j => sent[s][i].msg.id < sent[s][j].msg.id

(* Undisturbed, a socket loses its first message only when all N slots     *)
(* hold unsent messages.  (After that overflow the next walk sends the     *)
(* newest message alone, leaves the older ones behind, and a later one may *)
(* be lost from a ring that is not full.)                                  *)
FirstLossWhenFull ==
  [][Undisturbed /\ overwritten = {} /\ overwritten' # {}
       => \A i \in Slots : writes[i] # NoMsg]_vars

Queued(id) ==
  \E i \in Slots : /\ writes[i] # NoMsg /\ writes[i].id = id
                   /\ writes[i].fd \in open

(* No message for an open socket is stranded in the ring: it is sent or    *)
(* freed in the end, though walks that start elsewhere, or find the socket *)
(* still busy with a partial write, pass it by.  (Two open pages of a      *)
(* display or plugin have one current socket, and the other's messages     *)
(* are not walked.)                                                        *)
EventuallyLeaves ==
  \A id \in 0 .. MaxAdds - 1 :
    Queued(id) ~> ~Queued(id) \/ (protocol # "api" /\ overlapped)

(* The ring implements the outbox its callers rely on. *)
Promise == INSTANCE Outbox WITH
  Message <- [fd : Sockets, conn : 0 .. MaxConns, id : 0 .. MaxAdds - 1],
  pending <- {writes[i] : i \in {j \in Slots : writes[j] # NoMsg}},
  sent <- [s \in Sockets |-> [i \in DOMAIN sent[s] |-> sent[s][i].msg.id]]
ImplementsOutbox == Promise!Spec
=============================================================================

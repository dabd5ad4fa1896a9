--------------------------- MODULE PendingActions ---------------------------
(***************************************************************************)
(* API calls that wait for the browser (apiPending.c).  getcss and         *)
(* jsPluginCmd ask a plugin's page, mirrorsize asks the display page.  The *)
(* daemon sends the query, puts the request in a ring of N slots, and once *)
(* per turn of its main loop gives whatever message the page sent last to  *)
(* a waiting request.  A page also sends messages nobody asked for.        *)
(***************************************************************************)
EXTENDS Integers, Sequences, FiniteSets

CONSTANTS Plugins,         \* plugins, each with a page of its own
          Display,         \* the display page
          N,               \* MAX_PENDING_ACTIONS
          NoAction,        \* API_NO_ACTION: a free slot
          NoReply,         \* no complete message received
          Notice,          \* a message that answers no query
          MaxRequests,     \* bound: requests accepted
          MaxNotices,      \* bound: notices sent by pages after connecting
          MaxBreaks        \* bound: connections lost and messages freed

ASSUME NAssumption == N \in Nat \ {0}
ASSUME PagesAssumption == Display \notin Plugins
ASSUME BoundsAssumption ==
  {MaxRequests, MaxNotices, MaxBreaks} \subseteq Nat

Pages == Plugins \cup {Display}
Slots == 0 .. N - 1
Requests == 0 .. MaxRequests - 1        \* numbered as they are accepted
Reply == Requests \cup {Notice}         \* the reply to a query, or a notice

ASSUME NoneAssumption ==
  {NoAction, Notice} \cap Requests = {} /\ NoReply \notin Reply

VARIABLES pendingActions,  \* the ring: the request that waits in each slot
          lastAction,      \* slot given out last
          updateAction,    \* slot the next update starts from
          response,        \* clientResponse of a plugin, displayResponse
          connected,       \* pages the daemon can send to
          toPage,          \* queries on their way to a page
          toDaemon,        \* messages on their way to the daemon
          accepted,        \* requests accepted so far
          target,          \* history: the page each request is about
          answer,          \* history: the final answer each request got
          dropped,         \* history: requests whose slot was reused
          crossed,         \* history: pages with two requests open at once, or
                           \* a notice received while one was open
          notices, breaks  \* counters for the bounds

ring == <<pendingActions, lastAction, updateAction>>
net == <<connected, toPage, toDaemon>>
requests == <<accepted, target, answer, dropped, crossed>>
counters == <<notices, breaks>>
vars == <<ring, response, net, requests, counters>>

(* Definitions named Fault... are faulty variants of the definition that   *)
(* follows them, each with one plausible mistake; no behaviour uses them.  *)
FaultSameSlot(i) == i

(* APIPending_getFreeSlot *)
GetFreeSlot(i) == (i + 1) % N

(* No page is connected. *)
Init ==
  /\ pendingActions = [i \in Slots |-> NoAction]
  /\ lastAction = 0 /\ updateAction = 0
  /\ response = [e \in Pages |-> NoReply]
  /\ connected = {}
  /\ toPage = [e \in Pages |-> <<>>] /\ toDaemon = [e \in Pages |-> <<>>]
  /\ accepted = 0 /\ target = <<>> /\ dropped = {} /\ crossed = {}
  /\ answer = [r \in Requests |-> NoReply]
  /\ notices = 0 /\ breaks = 0

Waits(i) == pendingActions[i] # NoAction
Outstanding(e) == {i \in Slots : Waits(i) /\ target[pendingActions[i] + 1] = e}

(* Requests are told apart by order alone: what confuses it happens to e. *)
CrossedAfter(e, confusing) ==
  IF confusing /\ Outstanding(e) # {} THEN crossed \cup {e} ELSE crossed

(* APIPending_addAction takes the next slot, whoever waits in it. *)
AddAction(r) ==
  LET slot == GetFreeSlot(lastAction) IN
    /\ lastAction' = slot
    /\ dropped' = dropped \cup ({pendingActions[slot]} \ {NoAction})
    /\ pendingActions' = [pendingActions EXCEPT ![slot] = r]

(* doAction for getcss, jsPluginCmd (a plugin) and mirrorsize (Display):   *)
(* send the query, let the request wait in a slot, and discard the last    *)
(* message of the page.  Without a connection the call fails at once and   *)
(* changes nothing.                                                        *)
Request(e) ==
  /\ e \in connected /\ accepted < MaxRequests
  /\ toPage' = [toPage EXCEPT ![e] = Append(@, accepted)]
  /\ AddAction(accepted)
  /\ response' = [response EXCEPT ![e] = NoReply]
  /\ accepted' = accepted + 1
  /\ target' = Append(target, e)
  /\ crossed' = CrossedAfter(e, TRUE)
  /\ UNCHANGED <<updateAction, connected, toDaemon, answer, counters>>

(* How far the loop of APIPending_update goes before it meets slot i. *)
Steps(i) == (i - updateAction) % N

FaultVisitedUnlessEqual == {i \in Slots : Steps(i) < Steps(lastAction)}

(* It stops when it is back at lastAction, which it looks at only when it *)
(* also started there.                                                    *)
Visited ==
  {i \in Slots : updateAction = lastAction \/ Steps(i) < Steps(lastAction)}

FaultWaitingAnyPage(e) == {i \in Visited : Waits(i)}

Waiting(e) == Visited \cap Outstanding(e)

(* A plugin's message is freed once used: the first slot visited gets it.  *)
(* The display's message stays: every slot that waits for the display      *)
(* gets it.                                                                *)
Served(e) ==
  IF response[e] = NoReply THEN {}
  ELSE IF e = Display THEN Waiting(e)
  ELSE {i \in Waiting(e) : \A j \in Waiting(e) : Steps(i) <= Steps(j)}

ServedSlots == UNION {Served(e) : e \in Pages}

(* Plugin_ClientFreeResponse after a plugin's message was used. *)
ResponseAfter(e) ==
  IF e \in Plugins /\ Served(e) # {} THEN NoReply ELSE response[e]

FaultSlotKept(i) == pendingActions[i]

(* APIPending_freeSlot after the answer was sent. *)
SlotAfter(i) == IF i \in ServedSlots THEN NoAction ELSE pendingActions[i]

(* Where the loop of APIPending_update leaves updateAction. *)
LoopEnd == lastAction

(* APIPending_update: one turn of the main loop. *)
Update ==
  /\ answer' = [r \in Requests |->
       IF \E i \in ServedSlots : pendingActions[i] = r THEN response[target[r + 1]]
       ELSE answer[r]]
  /\ pendingActions' = [i \in Slots |-> SlotAfter(i)]
  /\ response' = [e \in Pages |-> ResponseAfter(e)]
  /\ updateAction' = LoopEnd
  /\ UNCHANGED <<lastAction, net, accepted, target, dropped, crossed, counters>>

(* The RECEIVE callback keeps the last message of the page, whatever it is.*)
Receive(e) ==
  /\ toDaemon[e] # <<>>
  /\ response' = [response EXCEPT ![e] = Head(toDaemon[e])]
  /\ toDaemon' = [toDaemon EXCEPT ![e] = Tail(@)]
  /\ crossed' = CrossedAfter(e, Head(toDaemon[e]) = Notice)
  /\ UNCHANGED <<ring, connected, toPage, accepted, target, answer, dropped,
                 counters>>

(* The page answers queries in the order they arrive (plugin-client.js,    *)
(* display.js).                                                            *)
Answer(e) ==
  /\ toPage[e] # <<>>
  /\ toDaemon' = [toDaemon EXCEPT ![e] = Append(@, Head(toPage[e]))]
  /\ toPage' = [toPage EXCEPT ![e] = Tail(@)]
  /\ UNCHANGED <<ring, response, connected, requests, counters>>

(* The page reports something else: "CSS Applied", "PluginClient Loaded",  *)
(* "loaded", "unloaded".                                                   *)
Notify(e) ==
  /\ e \in connected /\ notices < MaxNotices
  /\ toDaemon' = [toDaemon EXCEPT ![e] = Append(@, Notice)]
  /\ notices' = notices + 1
  /\ UNCHANGED <<ring, response, connected, toPage, requests, breaks>>

(* A page connects.  A plugin's page greets with its protocol name, which  *)
(* is still on its way; the display counts as connected when its "ready"   *)
(* has been received, and that message stays in displayResponse.           *)
Connect(e) ==
  /\ e \notin connected
  /\ connected' = connected \cup {e}
  /\ IF e = Display
       THEN response' = [response EXCEPT ![e] = Notice] /\ UNCHANGED toDaemon
       ELSE toDaemon' = [toDaemon EXCEPT ![e] = <<Notice>>] /\ UNCHANGED response
  /\ crossed' = CrossedAfter(e, e = Display)
  /\ UNCHANGED <<ring, toPage, accepted, target, answer, dropped, counters>>

(* The CLOSED callback: the last message and what is under way are gone,   *)
(* the pending requests stay.                                              *)
Disconnect(e) ==
  /\ e \in connected /\ breaks < MaxBreaks
  /\ connected' = connected \ {e}
  /\ toPage' = [toPage EXCEPT ![e] = <<>>]
  /\ toDaemon' = [toDaemon EXCEPT ![e] = <<>>]
  /\ response' = [response EXCEPT ![e] = NoReply]
  /\ breaks' = breaks + 1
  /\ UNCHANGED <<ring, requests, notices>>

(* Plugin_Disable, of disable or reload, frees the plugin's last message,  *)
(* the answer to a request or not; without one it changes nothing here.    *)
Disable(e) ==
  /\ e \in Plugins /\ response[e] # NoReply /\ breaks < MaxBreaks
  /\ response' = [response EXCEPT ![e] = NoReply]
  /\ breaks' = breaks + 1
  /\ UNCHANGED <<ring, net, requests, notices>>

Next ==
  \/ Update
  \/ \E e \in Pages : \/ Request(e) \/ Receive(e) \/ Answer(e) \/ Notify(e)
                      \/ Connect(e) \/ Disconnect(e) \/ Disable(e)

Spec == Init /\ [][Next]_vars

(* The main loop runs forever; connected pages answer and their messages   *)
(* arrive.                                                                 *)
Fairness ==
  /\ WF_vars(Update)
  /\ \A e \in Pages : WF_vars(Receive(e)) /\ WF_vars(Answer(e))
FairSpec == Spec /\ Fairness

-----------------------------------------------------------------------------
(* Type invariant. *)
TypeOK ==
  /\ pendingActions \in [Slots -> Requests \cup {NoAction}]
  /\ lastAction \in Slots /\ updateAction \in Slots
  /\ response \in [Pages -> Reply \cup {NoReply}]
  /\ connected \subseteq Pages
  /\ toPage \in [Pages -> Seq(Requests)] /\ toDaemon \in [Pages -> Seq(Reply)]
  /\ accepted \in 0 .. MaxRequests
  /\ target \in Seq(Pages) /\ Len(target) = accepted
  /\ answer \in [Requests -> Reply \cup {NoReply}]
  /\ dropped \subseteq Requests /\ crossed \subseteq Pages

(* A request that was accepted waits in exactly one slot, or has had its   *)
(* one final answer, or lost its slot to a later request: the three never  *)
(* overlap, so no client is answered twice or after its slot was reused.   *)
Accounted ==
  \A r \in Requests :
    LET slots == {i \in Slots : pendingActions[i] = r}
        done == answer[r] # NoReply IN
    IF r >= accepted THEN slots = {} /\ ~done /\ r \notin dropped
    ELSE \/ Cardinality(slots) = 1 /\ ~done /\ r \notin dropped
         \/ slots = {} /\ done /\ r \notin dropped
         \/ slots = {} /\ ~done /\ r \in dropped

(* A request loses its slot without an answer only to the N-th request     *)
(* accepted after it.                                                      *)
DropDistance == [][\A r \in dropped' \ dropped : accepted = r + N]_vars

(* One message of a plugin's page answers at most one request. *)
ReplyUsedOnce ==
  \A r, q \in Requests :
    r # q /\ answer[r] = answer[q] /\ answer[r] \in Requests
      => target[r + 1] = Display /\ target[q + 1] = Display

(* The answer that carries a client's request id is the page's answer to   *)
(* that request, as long as the page never had two requests open at once   *)
(* or sent a notice while one was open, and no slot had to be reused.      *)
AnswerIsOwn ==
  dropped = {} =>
    \A r \in 0 .. accepted - 1 :
      target[r + 1] \notin crossed => answer[r] \in {NoReply, r}

(* Every request is accounted for, in well-typed rings. *)
Kept == TypeOK /\ Accounted

(* A reply answers one request, and its own unless its page had another    *)
(* request or a notice on its way.                                         *)
RepliesMatched == ReplyUsedOnce /\ AnswerIsOwn

Settled(r) ==
  /\ r < accepted
  /\ \/ answer[r] # NoReply \/ r \in dropped
     \/ target[r + 1] \in crossed \/ breaks > 0

(* Every accepted request gets its final answer, unless it loses its slot, *)
(* shares its page with another request, a connection is lost, or the      *)
(* answer is freed by a disable.                                           *)
EveryRequestAnswered == \A r \in Requests : r < accepted ~> Settled(r)
=============================================================================

----------------------------- MODULE ApiSession -----------------------------
(***************************************************************************)
(* Command line clients (mmcom.c) and the daemon that serves them: the     *)
(* API's callback and its dispatch (api.c), the assembly of long messages  *)
(* (socketResponse.c), responses (apiResponse.c), and the answers that     *)
(* come later (apiPending.c).                                              *)
(*                                                                         *)
(* A client sends one command and waits for the answer that carries its    *)
(* identifier.  A message longer than the receive buffer reaches the       *)
(* callback in parts, and all clients share one buffer, inputResponse, in  *)
(* which the parts are put together.  Responses wait in the ring of the    *)
(* API's protocol under the descriptor of the connection; that ring is not *)
(* cleared when a connection closes.  Here it is one queue for each        *)
(* descriptor, none of which overflows (WriteQueue), and a pending action  *)
(* is answered at some time or never (PendingActions).                     *)
(***************************************************************************)
EXTENDS Integers, Sequences, FiniteSets

CONSTANTS Clients,        \* runs of mmcom
          Descriptors,    \* file descriptors the daemon has for connections
          Commands,       \* kinds of command that clients send, of CommandKinds
          MaxParts,       \* parts of the longest message
          TimeoutLen,     \* mmcom -t
          MaxTime,        \* bound: seconds on the clock
          NoClient        \* nobody's, nobody

(* "now": answered by doAction itself; "page": answered by a page, later   *)
(* (mirrorsize, getcss, jscmd).  stop and reboot have no values, and are   *)
(* not long.                                                               *)
CommandKinds == {"now", "page", "stop", "reboot", "install"}
Long == {"now", "page", "install"}

ASSUME ClientsAssumption == NoClient \notin Clients
ASSUME DescriptorsAssumption == Descriptors \subseteq Nat
ASSUME CommandsAssumption == Commands \subseteq CommandKinds
ASSUME BoundsAssumption ==
  {MaxParts, TimeoutLen} \subseteq Nat \ {0} /\ MaxTime \in Nat

Never == -1               \* a time that did not come
Part == [from : Clients, part : 1 .. MaxParts]
Status == {"final", "pending"}       \* API_STATUS_SUCCESS and _FAIL are final

(* A client's identifier is "mmcom" and the first random number of a       *)
(* generator seeded with the second it starts in: here, that second.  A    *)
(* response also says, for the properties, whose request it answers.       *)
Response == [id : 0 .. MaxTime \cup {Never}, status : Status,
             of : Clients \cup {NoClient}]

VARIABLES phase,          \* of each client
          command, size,  \* its command, and the parts the message has
          startTime, sentTime,
          inbox,          \* responses on their way to it
          outcome,        \* how it ended
          accepted,       \* the response it took for its answer
          now,            \* time(NULL)
          running,        \* is the daemon: "up", "stop", "reboot", "down", "dead"
          open,           \* clients the daemon has a connection with
          fd,             \* their descriptors
          read,           \* parts the daemon has received of each message
          inputResponse,  \* parts put together so far
          writes,         \* responses in the ring, for each descriptor
          pendingActions, \* requests that wait for a page
          executed,       \* history: the messages that were parsed
          crossed         \* history: clients whose message met another's

client == <<phase, command, size, startTime, sentTime, outcome, accepted>>
daemon == <<running, open, fd, read, inputResponse, writes, pendingActions>>
history == <<executed, crossed>>
vars == <<client, inbox, now, daemon, history>>

Message(c) == [i \in 1 .. size[c] |-> [from |-> c, part |-> i]]
Up == running \in {"up", "stop", "reboot"}
EmptyRing == [d \in Descriptors |-> <<>>]

Init ==
  /\ phase = [c \in Clients |-> "new"]
  /\ command = [c \in Clients |-> "now"] /\ size = [c \in Clients |-> 1]
  /\ startTime = [c \in Clients |-> Never]
  /\ sentTime = [c \in Clients |-> Never]
  /\ inbox = [c \in Clients |-> <<>>]
  /\ outcome = [c \in Clients |-> "none"]
  /\ accepted = [c \in Clients |-> NoClient]
  /\ now = 0
  /\ running = "up" /\ open = {} /\ fd = [c \in Clients |-> Never]
  /\ read = [c \in Clients |-> 0]
  /\ inputResponse = <<>> /\ writes = EmptyRing /\ pendingActions = {}
  /\ executed = <<>> /\ crossed = {}

-----------------------------------------------------------------------------
(* The client. *)

(* A user runs mmcom; the identifier is made of the time. *)
Start(c, k, n) ==
  /\ phase[c] = "new" /\ (n > 1 => k \in Long)
  /\ phase' = [phase EXCEPT ![c] = "connecting"]
  /\ command' = [command EXCEPT ![c] = k]
  /\ size' = [size EXCEPT ![c] = n]
  /\ startTime' = [startTime EXCEPT ![c] = now]
  /\ UNCHANGED <<sentTime, outcome, accepted, inbox, now, daemon, history>>

(* destroy_flag = 1 *)
Ends(c, how) ==
  /\ phase' = [phase EXCEPT ![c] = "done"]
  /\ outcome' = [outcome EXCEPT ![c] = how]
  /\ UNCHANGED <<command, size, startTime, sentTime>>

(* Both ends are told that the connection is established. *)
Connect(c) ==
  /\ phase[c] = "connecting" /\ Up
  /\ LET free == Descriptors \ {fd[d] : d \in open} IN
       \E lowest \in free :
         (\A d \in free : lowest <= d) /\ fd' = [fd EXCEPT ![c] = lowest]
  /\ open' = open \cup {c}
  /\ phase' = [phase EXCEPT ![c] = "connected"]
  /\ UNCHANGED <<command, size, startTime, sentTime, outcome, accepted, inbox, now,
                 running, read, inputResponse, writes, pendingActions, history>>

ConnectionError(c) ==
  /\ phase[c] = "connecting"
  /\ Ends(c, "error")
  /\ UNCHANGED <<accepted, inbox, now, daemon, history>>

(* CLIENT_WRITEABLE: the command is sent, once. *)
Writeable(c) ==
  /\ phase[c] = "connected" /\ c \in open
  /\ phase' = [phase EXCEPT ![c] = "waiting"]
  /\ sentTime' = [sentTime EXCEPT ![c] = now]
  /\ UNCHANGED <<command, size, startTime, outcome, accepted, inbox, now, daemon, history>>

(* Definitions named Fault... are faulty variants of the definition that   *)
(* follows them, each with one plausible mistake; no behaviour uses them.  *)
FaultRecognizes(c, r) == TRUE
FaultRecognizesSent(c, r) == r.id = sentTime[c]

(* !strcmp(identifier, API_IDENTIFIER) *)
Recognizes(c, r) == r.id = startTime[c]

(* CLIENT_RECEIVE *)
ClientReceive(c) ==
  LET r == Head(inbox[c]) IN
    /\ phase[c] \in {"connected", "waiting"} /\ inbox[c] # <<>>
    /\ inbox' = [inbox EXCEPT ![c] = Tail(@)]
    /\ IF Recognizes(c, r) /\ r.status # "pending"
         THEN Ends(c, "answered") /\ accepted' = [accepted EXCEPT ![c] = r.of]
         ELSE UNCHANGED client
    /\ UNCHANGED <<now, daemon, history>>

FaultExpired(c) ==
  /\ sentTime[c] # Never /\ now - sentTime[c] >= TimeoutLen
  /\ \A p \in pendingActions : p.id # startTime[c]

(* The test after each turn of the main loop. *)
Expired(c) == sentTime[c] # Never /\ now - sentTime[c] >= TimeoutLen

Timeout(c) ==
  /\ phase[c] = "waiting" /\ Expired(c)
  /\ Ends(c, "timeout")
  /\ UNCHANGED <<accepted, inbox, now, daemon, history>>

(* The daemon closed the connection. *)
ClientClosed(c) ==
  /\ phase[c] \in {"connected", "waiting"} /\ c \notin open
  /\ Ends(c, "closed")
  /\ UNCHANGED <<accepted, inbox, now, daemon, history>>

Tick ==
  /\ now < MaxTime
  /\ now' = now + 1
  /\ UNCHANGED <<client, inbox, daemon, history>>

-----------------------------------------------------------------------------
(* The daemon. *)

UnderWay(c) == c \in open /\ read[c] \in 1 .. size[c] - 1

(* A part or the end of c's message meets the messages of others. *)
CrossedAfter(c) ==
  LET others == {d \in Clients \ {c} : UnderWay(d)} IN
    IF others = {} THEN crossed ELSE crossed \cup others \cup {c}

(* SocketResponse_build *)
Built(parts, p) == Append(parts, p)

(* APIResponse_send *)
Sent(c, rs) == [writes EXCEPT ![fd[c]] = @ \o rs]

(* parseInput: the first part has the identifier and the command, what     *)
(* follows it is the value.  A message without a first part is no command: *)
(* its text is taken for an identifier.                                    *)
Author(parts) == IF parts[1].part = 1 THEN parts[1].from ELSE NoClient

(* doAction for what c completed, and its response.  install calls         *)
(* doAction for reboot, whether it got the plugin or not: two responses.   *)
DoAction(c, parts) ==
  LET of == Author(parts)
      r(status) == [id |-> IF of = NoClient THEN Never ELSE startTime[of],
                    status |-> status, of |-> of]
      Respond(status) == writes' = Sent(c, <<r(status)>>)
      RespondTwice == writes' = Sent(c, <<r("final"), r("final")>>)
      Stops(how) == running' = IF "reboot" \in {running, how} THEN "reboot" ELSE "stop" IN
    /\ executed' = Append(executed, [of |-> of, parts |-> parts, to |-> c])
    /\ \/ /\ of = NoClient
          /\ Respond("final")
          /\ UNCHANGED <<running, pendingActions>>
       \/ /\ of # NoClient /\ command[of] = "now"
          /\ Respond("final")
          /\ UNCHANGED <<running, pendingActions>>
       \/ /\ of # NoClient /\ command[of] = "page"     \* no page is connected
          /\ Respond("final")
          /\ UNCHANGED <<running, pendingActions>>
       \/ /\ of # NoClient /\ command[of] = "page"
          /\ Respond("pending")
          /\ pendingActions' = pendingActions \cup
               {[to |-> c, id |-> startTime[of], of |-> of]}
          /\ UNCHANGED running
       \/ /\ of # NoClient /\ command[of] \in {"stop", "reboot"}
          /\ Respond("final")
          /\ Stops(command[of])
          /\ UNCHANGED pendingActions
       \/ /\ of # NoClient /\ command[of] = "install"
          /\ RespondTwice
          /\ Stops("reboot")
          /\ UNCHANGED pendingActions

(* RECEIVE, for the next part of c's message. *)
Receive(c) ==
  LET p == [from |-> c, part |-> read[c] + 1]
      parts == Built(inputResponse, p) IN
    /\ Up /\ c \in open /\ sentTime[c] # Never /\ read[c] < size[c]
    /\ read' = [read EXCEPT ![c] = @ + 1]
    /\ crossed' = CrossedAfter(c)
    /\ IF p.part = size[c]       \* the last part of a final fragment
         THEN inputResponse' = <<>> /\ DoAction(c, parts)
         ELSE /\ inputResponse' = parts
              /\ UNCHANGED <<running, writes, pendingActions, executed>>
    /\ UNCHANGED <<client, inbox, now, open, fd>>

FaultClosed(c) ==
  /\ c \in open /\ phase[c] = "done"
  /\ open' = open \ {c}
  /\ UNCHANGED <<client, inbox, now, running, fd, read, inputResponse, writes,
                 pendingActions, executed, crossed>>

(* CLOSED: mmcom is gone, perhaps before its message was read. *)
Closed(c) ==
  /\ c \in open /\ phase[c] = "done"
  /\ open' = open \ {c}
  /\ inputResponse' = <<>>
  /\ crossed' = CrossedAfter(c)
  /\ UNCHANGED <<client, inbox, now, running, fd, read, writes, pendingActions, executed>>

(* SERVER_WRITEABLE: the ring is walked for c's descriptor. *)
Deliver(c) ==
  /\ Up /\ c \in open /\ writes[fd[c]] # <<>>
  /\ writes' = [writes EXCEPT ![fd[c]] = <<>>]
  /\ inbox' = IF phase[c] = "done" THEN inbox
              ELSE [inbox EXCEPT ![c] = @ \o writes[fd[c]]]
  /\ UNCHANGED <<client, now, running, open, fd, read, inputResponse, pendingActions, history>>

FaultFreed(p) == pendingActions
(* APIPending_freeSlot *)
Freed(p) == pendingActions \ {p}

Final(p) == [id |-> p.id, status |-> "final", of |-> p.of]

(* APIPending_update: the page's message is there. *)
PageAnswers(p) ==
  /\ Up /\ p.to \in open
  /\ writes' = Sent(p.to, <<Final(p)>>)
  /\ pendingActions' = Freed(p)
  /\ UNCHANGED <<client, inbox, now, running, open, fd, read, inputResponse, history>>

(* The same when the socket it is to go to is freed: the protocol and the  *)
(* descriptor found there are those of the old connection, of one that     *)
(* took its memory, or nonsense, which may end the daemon.                 *)
AnswersFreedSocket(p) ==
  /\ Up /\ p.to \notin open
  /\ \/ /\ \/ \E d \in Descriptors : writes' = [writes EXCEPT ![d] = Append(@, Final(p))]
           \/ UNCHANGED writes         \* it is in some other ring
        /\ pendingActions' = Freed(p)
        /\ UNCHANGED <<running, open, inputResponse>>
     \/ /\ running' = "dead" /\ open' = {}
        /\ inputResponse' = <<>> /\ writes' = EmptyRing /\ pendingActions' = {}
  /\ UNCHANGED <<client, inbox, now, fd, read, history>>

(* The main loop is left, API_ShutdownPlugins returns, all is freed.  It   *)
(* may have served the sockets a few times more before that, or not.       *)
Exit ==
  /\ running \in {"stop", "reboot"}
  /\ running' = IF running = "reboot" THEN "booting" ELSE "down"
  /\ open' = {} /\ inputResponse' = <<>> /\ writes' = EmptyRing /\ pendingActions' = {}
  /\ UNCHANGED <<client, inbox, now, fd, read, history>>

(* initializeDaemon, once more *)
Boot ==
  /\ running = "booting"
  /\ running' = "up"
  /\ UNCHANGED <<client, inbox, now, open, fd, read, inputResponse, writes,
                 pendingActions, history>>

Next ==
  \/ \E c \in Clients :
       \/ \E k \in Commands, n \in 1 .. MaxParts : Start(c, k, n)
       \/ Connect(c) \/ ConnectionError(c) \/ Writeable(c) \/ ClientReceive(c)
       \/ Timeout(c) \/ ClientClosed(c)
       \/ Receive(c) \/ Closed(c) \/ Deliver(c)
  \/ \E p \in pendingActions : PageAnswers(p) \/ AnswersFreedSocket(p)
  \/ Tick \/ Exit \/ Boot

Spec == Init /\ [][Next]_vars

(* Both programs loop around lws_service, which reports what there is to   *)
(* report on each socket; the API's callback asks for WRITEABLE again each *)
(* time.  Neither the clock nor a page is assumed to do anything.          *)
Fairness ==
  \A c \in Clients :
    /\ WF_vars(ClientReceive(c)) /\ WF_vars(Timeout(c)) /\ WF_vars(ClientClosed(c))
    /\ WF_vars(Receive(c)) /\ WF_vars(Deliver(c))
FairSpec == Spec /\ Fairness

-----------------------------------------------------------------------------
(* Type invariant. *)
TypeOK ==
  /\ phase \in [Clients -> {"new", "connecting", "connected", "waiting", "done"}]
  /\ command \in [Clients -> CommandKinds] /\ size \in [Clients -> 1 .. MaxParts]
  /\ startTime \in [Clients -> 0 .. MaxTime \cup {Never}]
  /\ sentTime \in [Clients -> 0 .. MaxTime \cup {Never}]
  /\ inbox \in [Clients -> Seq(Response)]
  /\ outcome \in [Clients -> {"none", "answered", "timeout", "closed", "error"}]
  /\ accepted \in [Clients -> Clients \cup {NoClient}]
  /\ now \in 0 .. MaxTime
  /\ running \in {"up", "stop", "reboot", "booting", "down", "dead"}
  /\ open \subseteq Clients /\ fd \in [Clients -> Descriptors \cup {Never}]
  /\ \A c, d \in open : fd[c] = fd[d] => c = d
  /\ read \in [Clients -> 0 .. MaxParts] /\ \A c \in Clients : read[c] <= size[c]
  /\ inputResponse \in Seq(Part)
  /\ writes \in [Descriptors -> Seq(Response)]
  /\ pendingActions \subseteq
       [to : Clients, id : 0 .. MaxTime, of : Clients]
  /\ crossed \subseteq Clients

Executions(c) == {i \in DOMAIN executed : executed[i].of = c}

(* SocketResponse_build has one buffer for all API clients.  A command of  *)
(* which no part arrived, and during which nothing closed, while another   *)
(* open client's was under way is executed as it was sent, once, for the   *)
(* client that sent it; whatever was half received from clients that left  *)
(* before, or was mixed up earlier, leaves no trace.                       *)
WholeUnlessCrossed ==
  \A c \in Clients \ crossed :
    /\ \A i \in Executions(c) : executed[i].parts = Message(c) /\ executed[i].to = c
    /\ Cardinality(Executions(c)) = IF read[c] = size[c] THEN 1 ELSE 0

(* Both ends are well typed, and commands arrive whole. *)
CommandsWhole == TypeOK /\ WholeUnlessCrossed

(* "then embedded back into the response as to provide a way for the       *)
(* client to recognize responses intended for it": descriptors are reused, *)
(* the ring is not cleared, pending answers outlive their clients, parts   *)
(* are mixed up; still, the answer mmcom ends with is that to its own      *)
(* command, which was executed once - unless another mmcom was started in  *)
(* the same second.                                                        *)
Twins(c) == {d \in Clients \ {c} : startTime[d] = startTime[c]}
AnswerIsToOwnCommand ==
  \A c \in Clients :
    outcome[c] = "answered" /\ Twins(c) = {} =>
      accepted[c] = c /\ Cardinality(Executions(c)) = 1

(* A request waits with the socket of the client that completed it, its    *)
(* own unless parts were mixed up.  When that is freed, the client that    *)
(* sent the request has not got the answer to it: mmcom waits a second, a  *)
(* page has no limit.  (The one whose socket it was may have its own.)     *)
FreedSocketOnlyIfLeft ==
  \A p \in pendingActions :
    p.to \notin open /\ Twins(p.of) = {} => outcome[p.of] # "answered"

(* mmcom ends in time, whatever became of its command: also when it was    *)
(* told that the answer is pending and no page ever gives it.              *)
ClientEnds ==
  \A c \in Clients :
    phase[c] = "waiting" /\ now - sentTime[c] >= TimeoutLen ~> phase[c] = "done"

(* A client that waits gets its answer, if doAction gives it, its message  *)
(* was not crossed and the daemon lives; when it ends in another way, that *)
(* is the clock's doing.                                                   *)
PatientIsAnswered ==
  \A c \in Clients :
    phase[c] = "waiting" /\ command[c] = "now" ~>
      phase[c] = "done" \/ c \in crossed \/ running # "up"
=============================================================================

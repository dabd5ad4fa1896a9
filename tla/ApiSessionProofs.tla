-------------------------- MODULE ApiSessionProofs --------------------------
(* Theorems about ApiSession, for any number of clients, descriptors,      *)
(* parts and seconds.                                                      *)
EXTENDS ApiSession, FiniteSetTheorems, SequenceTheorems, TLAPS

(* How far a client is. *)
PhaseInv ==
  \A c \in Clients :
    /\ phase[c] # "new" <=> startTime[c] # Never
    /\ c \in open => phase[c] \notin {"new", "connecting"} /\ fd[c] \in Descriptors
    /\ phase[c] \in {"new", "connecting"} => read[c] = 0
    /\ sentTime[c] # Never => phase[c] \notin {"new", "connecting", "connected"}
    /\ outcome[c] # "none" => phase[c] = "done"

(* What the buffer holds is of messages under way; a message that met no   *)
(* other is alone in it.                                                   *)
BufferInv ==
  /\ \A c \in Clients : ~UnderWay(c) =>
       \A i \in DOMAIN inputResponse : inputResponse[i].from # c
  /\ \A c, d \in Clients : UnderWay(c) /\ UnderWay(d) /\ c # d => c \in crossed
  /\ \A c \in Clients \ crossed : UnderWay(c) =>
       /\ Len(inputResponse) = read[c]
       /\ \A i \in DOMAIN inputResponse : inputResponse[i] = [from |-> c, part |-> i]

(* A message is executed once: then its first part is gone. *)
FirstPart(c) == [from |-> c, part |-> 1]
Execution == [of : Clients \cup {NoClient}, parts : Seq(Part), to : Clients]
OnceInv ==
  /\ executed \in Seq(Execution)
  /\ \A i, j \in DOMAIN executed :
       executed[i].of = executed[j].of /\ executed[i].of # NoClient => i = j
  /\ \A i \in DOMAIN executed : executed[i].of # NoClient =>
       /\ read[executed[i].of] > 0
       /\ \A j \in DOMAIN inputResponse : inputResponse[j] # FirstPart(executed[i].of)

(* One that met no other was executed as it was sent, and all of it. *)
WholeInv ==
  \A c \in Clients \ crossed :
    /\ \A i \in Executions(c) :
         executed[i].parts = Message(c) /\ executed[i].to = c /\ read[c] = size[c]
    /\ read[c] = size[c] => Executions(c) # {}

(* The responses there may be: to an executed request, with the identifier *)
(* of its client, and a final one only if that request does not wait; or   *)
(* to no request.                                                          *)
Given ==
  {r \in Response :
    \/ r.of = NoClient /\ r.id = Never
    \/ /\ r.of \in Clients /\ r.id = startTime[r.of] /\ r.id # Never
       /\ Executions(r.of) # {}
       /\ r.status = "final" => \A p \in pendingActions : p.of # r.of}

RingInv == inbox \in [Clients -> Seq(Given)] /\ writes \in [Descriptors -> Seq(Given)]

(* What waits was executed, and waits once. *)
WaitInv ==
  \A p \in pendingActions :
    /\ p.id = startTime[p.of] /\ p.id # Never /\ Executions(p.of) # {}
    /\ \A q \in pendingActions : q.of = p.of => q = p

(* The answer a client ended with may be given. *)
AnswerInv ==
  \A c \in Clients : outcome[c] = "answered" =>
    startTime[c] # Never
    /\ [id |-> startTime[c], status |-> "final", of |-> accepted[c]] \in Given

SessionIInv ==
  /\ TypeOK /\ PhaseInv /\ BufferInv /\ OnceInv /\ WholeInv
  /\ RingInv /\ WaitInv /\ AnswerInv

-----------------------------------------------------------------------------
(* Type correctness, in parts. *)

ClientType ==
  /\ phase \in [Clients -> {"new", "connecting", "connected", "waiting", "done"}]
  /\ command \in [Clients -> CommandKinds] /\ size \in [Clients -> 1 .. MaxParts]
  /\ startTime \in [Clients -> 0 .. MaxTime \cup {Never}]
  /\ sentTime \in [Clients -> 0 .. MaxTime \cup {Never}]
  /\ outcome \in [Clients -> {"none", "answered", "timeout", "closed", "error"}]
  /\ accepted \in [Clients -> Clients \cup {NoClient}]
  /\ now \in 0 .. MaxTime
SocketType ==
  /\ running \in {"up", "stop", "reboot", "booting", "down", "dead"}
  /\ open \subseteq Clients /\ fd \in [Clients -> Descriptors \cup {Never}]
  /\ \A c, d \in open : fd[c] = fd[d] => c = d
ReadType ==
  /\ read \in [Clients -> 0 .. MaxParts] /\ \A c \in Clients : read[c] <= size[c]
  /\ inputResponse \in Seq(Part)
ReplyType ==
  /\ inbox \in [Clients -> Seq(Response)]
  /\ writes \in [Descriptors -> Seq(Response)]
PendingType ==
  /\ pendingActions \subseteq [to : Clients, id : 0 .. MaxTime, of : Clients]
  /\ crossed \subseteq Clients

(* TypeOK is these parts. *)
LEMMA TypeParts ==
  TypeOK <=> ClientType /\ SocketType /\ ReadType /\ ReplyType /\ PendingType
BY DEF TypeOK, ClientType, SocketType, ReadType, ReplyType, PendingType

(* What Receive does, before the end of a message and with it. *)
LEMMA ReceiveEffect ==
  ASSUME NEW c \in Clients, Receive(c)
  PROVE  /\ Up /\ c \in open /\ sentTime[c] # Never /\ read[c] < size[c]
         /\ read' = [read EXCEPT ![c] = @ + 1] /\ crossed' = CrossedAfter(c)
         /\ phase' = phase /\ command' = command /\ size' = size
         /\ startTime' = startTime /\ sentTime' = sentTime
         /\ outcome' = outcome /\ accepted' = accepted
         /\ inbox' = inbox /\ now' = now /\ open' = open /\ fd' = fd
         /\ \/ /\ read[c] + 1 # size[c]
               /\ inputResponse' = Append(inputResponse, [from |-> c, part |-> read[c] + 1])
               /\ running' = running /\ writes' = writes
               /\ pendingActions' = pendingActions /\ executed' = executed
            \/ /\ read[c] + 1 = size[c] /\ inputResponse' = <<>>
               /\ DoAction(c, Append(inputResponse, [from |-> c, part |-> read[c] + 1]))
BY DEF Receive, Built, client

(* The response r(status) of doAction to the client called of. *)
Reply(of, status) ==
  [id |-> IF of = NoClient THEN Never ELSE startTime[of], status |-> status, of |-> of]

(* doAction responds once or twice, at last or to say that it is pending. *)
LEMMA DoActionEffect ==
  ASSUME NEW c \in Clients, NEW parts, DoAction(c, parts), SocketType
  PROVE  /\ executed' = Append(executed, [of |-> Author(parts), parts |-> parts, to |-> c])
         /\ running' \in {running, "stop", "reboot"}
         /\ \/ /\ pendingActions' = pendingActions
               /\ \/ writes' = Sent(c, <<Reply(Author(parts), "final")>>)
                  \/ writes' = Sent(c, <<Reply(Author(parts), "final"),
                                         Reply(Author(parts), "final")>>)
            \/ /\ Author(parts) # NoClient
               /\ writes' = Sent(c, <<Reply(Author(parts), "pending")>>)
               /\ pendingActions' = pendingActions \cup
                    {[to |-> c, id |-> startTime[Author(parts)], of |-> Author(parts)]}
BY DEF DoAction, Reply, SocketType

(* The parts there are with the next one of c's. *)
Parts(c) == Append(inputResponse, [from |-> c, part |-> read[c] + 1])

(* They are well typed, and the last is the new one. *)
LEMMA PartsTyped ==
  ASSUME NEW c \in Clients, ReadType, ClientType, read[c] < size[c]
  PROVE  /\ read[c] \in Nat /\ size[c] \in Nat /\ [from |-> c, part |-> read[c] + 1] \in Part
         /\ Parts(c) \in Seq(Part) /\ Len(Parts(c)) = Len(inputResponse) + 1
         /\ DOMAIN Parts(c) = 1 .. Len(inputResponse) + 1
         /\ \A i \in DOMAIN Parts(c) :
              Parts(c)[i] = IF i <= Len(inputResponse) THEN inputResponse[i]
                            ELSE [from |-> c, part |-> read[c] + 1]
         /\ Len(inputResponse) \in Nat /\ DOMAIN inputResponse = 1 .. Len(inputResponse)
<1> DEFINE p == [from |-> c, part |-> read[c] + 1]
<1>1. read[c] \in 0 .. MaxParts /\ size[c] \in 1 .. MaxParts /\ inputResponse \in Seq(Part)
  BY DEF ReadType, ClientType
<1>2. read[c] \in Int /\ size[c] \in Int /\ MaxParts \in Int /\ read[c] + 1 \in 1 .. MaxParts
  BY <1>1, BoundsAssumption
<1>3. p \in Part
  BY <1>2 DEF Part
<1>4. /\ Append(inputResponse, p) \in Seq(Part)
      /\ Len(Append(inputResponse, p)) = Len(inputResponse) + 1
      /\ \A i \in 1 .. Len(inputResponse) : Append(inputResponse, p)[i] = inputResponse[i]
      /\ Append(inputResponse, p)[Len(inputResponse) + 1] = p
  BY <1>1, <1>3, AppendProperties
<1>5. Len(inputResponse) \in Nat /\ DOMAIN inputResponse = 1 .. Len(inputResponse)
  BY <1>1, LenProperties
<1>6. DOMAIN Parts(c) = 1 .. Len(inputResponse) + 1
  BY <1>4, LenProperties DEF Parts
<1>7. ASSUME NEW i \in 1 .. Len(inputResponse) + 1
      PROVE  Parts(c)[i] = IF i <= Len(inputResponse) THEN inputResponse[i] ELSE p
  <2>1. CASE i <= Len(inputResponse)
    BY <2>1, <1>4, <1>5 DEF Parts
  <2>2. CASE ~(i <= Len(inputResponse))
    <3>1. i = Len(inputResponse) + 1
      BY <2>2, <1>5
    <3> QED BY <3>1, <2>2, <1>4 DEF Parts
  <2> QED BY <2>1, <2>2
<1> QED BY <1>1, <1>2, <1>3, <1>4, <1>5, <1>6, <1>7 DEF Parts

(* A message that begins with a first part is that of its sender, who      *)
(* sends it now or is on the way, and whose message was not executed.      *)
LEMMA AuthorUnserved ==
  ASSUME NEW c \in Clients, c \in open, sentTime[c] # Never, read[c] < size[c],
         ReadType, ClientType, PhaseInv, BufferInv, OnceInv
  PROVE  /\ Author(Parts(c)) \in Clients \cup {NoClient}
         /\ Author(Parts(c)) # NoClient =>
              /\ Author(Parts(c)) \in Clients
              /\ Author(Parts(c)) = c \/ UnderWay(Author(Parts(c)))
              /\ startTime[Author(Parts(c))] \in 0 .. MaxTime
              /\ startTime[Author(Parts(c))] # Never
              /\ Executions(Author(Parts(c))) = {}
<1> DEFINE a == Author(Parts(c))
           first == Parts(c)[1]
<1>1. /\ read[c] \in Nat /\ DOMAIN Parts(c) = 1 .. Len(inputResponse) + 1
      /\ first = IF 1 <= Len(inputResponse) THEN inputResponse[1]
                 ELSE [from |-> c, part |-> read[c] + 1]
      /\ Len(inputResponse) \in Nat /\ DOMAIN inputResponse = 1 .. Len(inputResponse)
      /\ first \in Part
  <2>1. 1 \in 1 .. Len(inputResponse) + 1 /\ Len(inputResponse) \in Nat
    BY PartsTyped
  <2>2. Parts(c) \in Seq(Part) /\ DOMAIN Parts(c) = 1 .. Len(inputResponse) + 1
        /\ Len(Parts(c)) = Len(inputResponse) + 1
    BY PartsTyped
  <2>3. Parts(c)[1] \in Part
    BY <2>1, <2>2, ElementOfSeq
  <2> QED BY <2>1, <2>2, <2>3, PartsTyped
<1>2. CASE first.part # 1
  BY <1>2 DEF Author
<1>3. CASE first.part = 1
  <2>1. a = first.from
    BY <1>3 DEF Author
  <2>2. a \in Clients /\ first = FirstPart(a)
    BY <1>1, <1>3, <2>1 DEF Part, FirstPart
  <2>3. CASE 1 <= Len(inputResponse)
    <3>1. 1 \in DOMAIN inputResponse /\ inputResponse[1] = FirstPart(a)
      BY <2>2, <2>3, <1>1
    <3>2. UnderWay(a)
      BY <3>1, <2>2 DEF BufferInv, FirstPart
    <3>3. startTime[a] # Never
      BY <3>2, <2>2 DEF UnderWay, PhaseInv
    <3>4. Executions(a) = {}
      BY <3>1, <2>2, ClientsAssumption DEF OnceInv, Executions
    <3>5. startTime[a] \in 0 .. MaxTime
      BY <3>3, <2>2 DEF ClientType
    <3> QED BY <2>2, <3>2, <3>3, <3>4, <3>5
  <2>4. CASE ~(1 <= Len(inputResponse))
    <3>1. a = c /\ read[c] + 1 = 1
      BY <2>1, <2>4, <1>1, <1>3
    <3>2. read[c] = 0
      BY <3>1, <1>1
    <3>3. startTime[c] # Never
      BY DEF PhaseInv
    <3>4. Executions(c) = {}
      BY <3>2, ClientsAssumption DEF OnceInv, Executions
    <3>5. startTime[c] \in 0 .. MaxTime
      BY <3>3 DEF ClientType
    <3> QED BY <3>1, <3>3, <3>4, <3>5
  <2> QED BY <2>3, <2>4
<1> QED BY <1>2, <1>3

(* Two responses for c, or one, join those that wait for its descriptor. *)
LEMMA SentTyped ==
  ASSUME NEW S, NEW c \in Clients, fd[c] \in Descriptors, writes \in [Descriptors -> Seq(S)],
         NEW rs \in Seq(S)
  PROVE  Sent(c, rs) \in [Descriptors -> Seq(S)]
<1>1. writes[fd[c]] \in Seq(S)
  OBVIOUS
<1>2. writes[fd[c]] \o rs \in Seq(S)
  BY <1>1, ConcatProperties
<1> QED BY <1>2 DEF Sent

LEMMA RingTyped ==
  ASSUME NEW S
  PROVE  /\ EmptyRing \in [Descriptors -> Seq(S)]
         /\ \A r \in S : <<r>> \in Seq(S) /\ <<r, r>> \in Seq(S)
<1>1. <<>> \in Seq(S)
  OBVIOUS
<1> QED BY <1>1 DEF EmptyRing

(* Delivery moves what waits for the descriptor to the client. *)
LEMMA DeliveredTyped ==
  ASSUME NEW S, NEW c \in Clients, fd[c] \in Descriptors, writes \in [Descriptors -> Seq(S)],
         inbox \in [Clients -> Seq(S)], Deliver(c)
  PROVE  inbox' \in [Clients -> Seq(S)] /\ writes' \in [Descriptors -> Seq(S)]
<1>1. writes[fd[c]] \in Seq(S) /\ inbox[c] \in Seq(S) /\ <<>> \in Seq(S)
  OBVIOUS
<1>2. inbox[c] \o writes[fd[c]] \in Seq(S)
  BY <1>1, ConcatProperties
<1> QED BY <1>1, <1>2 DEF Deliver

(* A client takes the first of its responses, and keeps the others. *)
LEMMA TakenTyped ==
  ASSUME NEW S, NEW c \in Clients, inbox \in [Clients -> Seq(S)], ClientReceive(c)
  PROVE  Head(inbox[c]) \in S /\ inbox' \in [Clients -> Seq(S)]
<1>1. inbox[c] \in Seq(S) /\ inbox[c] # <<>> /\ inbox' = [inbox EXCEPT ![c] = Tail(@)]
  BY DEF ClientReceive
<1>2. Head(inbox[c]) \in S /\ Tail(inbox[c]) \in Seq(S)
  BY <1>1, HeadTailProperties
<1> QED BY <1>1, <1>2

(* A response that goes astray joins those of some descriptor. *)
LEMMA StrayTyped ==
  ASSUME NEW S, NEW d \in Descriptors, writes \in [Descriptors -> Seq(S)], NEW r \in S
  PROVE  [writes EXCEPT ![d] = Append(@, r)] \in [Descriptors -> Seq(S)]
<1>1. writes[d] \in Seq(S)
  OBVIOUS
<1>2. Append(writes[d], r) \in Seq(S)
  BY <1>1, AppendProperties
<1> QED BY <1>2

-----------------------------------------------------------------------------
(* One step, for each part of the invariant. *)

(* What the daemon's steps leave to the clients. *)
LEMMA DaemonSteps ==
  ASSUME NEW c \in Clients,
         \/ Receive(c) \/ Closed(c) \/ Deliver(c)
         \/ \E p \in pendingActions : PageAnswers(p) \/ AnswersFreedSocket(p)
         \/ Exit \/ Boot
  PROVE  /\ phase' = phase /\ command' = command /\ size' = size
         /\ startTime' = startTime /\ sentTime' = sentTime
         /\ outcome' = outcome /\ accepted' = accepted /\ now' = now
BY DEF Receive, Closed, Deliver, PageAnswers, AnswersFreedSocket, Exit, Boot, client

(* What the clients' steps leave to the daemon. *)
LEMMA ClientSteps ==
  ASSUME NEW c \in Clients,
         \/ \E k \in Commands, n \in 1 .. MaxParts : Start(c, k, n)
         \/ ConnectionError(c) \/ Writeable(c) \/ ClientReceive(c)
         \/ Timeout(c) \/ ClientClosed(c) \/ Tick
  PROVE  /\ running' = running /\ open' = open /\ fd' = fd /\ read' = read
         /\ inputResponse' = inputResponse /\ writes' = writes
         /\ pendingActions' = pendingActions /\ executed' = executed /\ crossed' = crossed
BY DEF Start, ConnectionError, Writeable, ClientReceive, Timeout, ClientClosed, Tick,
       daemon, history

(* The step of Next, action by action, with every name a stutter keeps. *)
LEMMA StepCases ==
  ASSUME [Next]_vars
  PROVE  \/ \E c \in Clients :
              \/ \E k \in Commands, n \in 1 .. MaxParts : Start(c, k, n)
              \/ Connect(c) \/ ConnectionError(c) \/ Writeable(c) \/ ClientReceive(c)
              \/ Timeout(c) \/ ClientClosed(c)
              \/ Receive(c) \/ Closed(c) \/ Deliver(c)
         \/ \E p \in pendingActions : PageAnswers(p) \/ AnswersFreedSocket(p)
         \/ Tick \/ Exit \/ Boot
         \/ /\ phase' = phase /\ command' = command /\ size' = size
            /\ startTime' = startTime /\ sentTime' = sentTime
            /\ outcome' = outcome /\ accepted' = accepted /\ now' = now /\ inbox' = inbox
            /\ running' = running /\ open' = open /\ fd' = fd /\ read' = read
            /\ inputResponse' = inputResponse /\ writes' = writes
            /\ pendingActions' = pendingActions /\ executed' = executed
            /\ crossed' = crossed
BY DEF Next, vars, client, daemon, history

(* The clients' variables stay well typed. *)
LEMMA ClientTypeStep ==
  ASSUME TypeOK, [Next]_vars PROVE ClientType'
<1> USE DEF ClientType
<1>0. ClientType
  BY TypeParts
<1>1. ASSUME NEW c \in Clients, NEW k \in Commands, NEW n \in 1 .. MaxParts, Start(c, k, n)
      PROVE  ClientType'
  BY <1>0, <1>1, CommandsAssumption DEF Start
<1>2. ASSUME NEW c \in Clients, Connect(c) \/ Writeable(c)
      PROVE  ClientType'
  BY <1>0, <1>2 DEF Connect, Writeable
<1>3. ASSUME NEW c \in Clients, ConnectionError(c) \/ Timeout(c) \/ ClientClosed(c)
      PROVE  ClientType'
  BY <1>0, <1>3 DEF ConnectionError, Timeout, ClientClosed, Ends
<1>4. ASSUME NEW c \in Clients, ClientReceive(c)
      PROVE  ClientType'
  <2>1. inbox \in [Clients -> Seq(Response)]
    BY TypeParts DEF ReplyType
  <2>2. Head(inbox[c]) \in Response
    BY <2>1, <1>4, TakenTyped
  <2>3. Head(inbox[c]).of \in Clients \cup {NoClient}
    BY <2>2 DEF Response
  <2> QED BY <1>0, <1>4, <2>3 DEF ClientReceive, Ends, client
<1>5. ASSUME Tick
      PROVE  ClientType'
  <2>1. now' \in 0 .. MaxTime
    BY <1>0, <1>5, BoundsAssumption DEF Tick
  <2> QED BY <1>0, <1>5, <2>1 DEF Tick, client
<1>6. ASSUME NEW c \in Clients, Receive(c) \/ Closed(c) \/ Deliver(c)
      PROVE  ClientType'
  BY <1>0, <1>6, DaemonSteps
<1>7. ASSUME \/ \E p \in pendingActions : PageAnswers(p) \/ AnswersFreedSocket(p)
             \/ Exit \/ Boot
      PROVE  ClientType'
  BY <1>0, <1>7 DEF PageAnswers, AnswersFreedSocket, Exit, Boot, client
<1> QED BY <1>0, <1>1, <1>2, <1>3, <1>4, <1>5, <1>6, <1>7, StepCases

(* The daemon's connections, and the descriptors they have. *)
LEMMA SocketTypeStep ==
  ASSUME TypeOK, [Next]_vars PROVE SocketType'
<1> USE DEF SocketType
<1>0. SocketType
  BY TypeParts
<1>1. ASSUME NEW c \in Clients,
             \/ \E k \in Commands, n \in 1 .. MaxParts : Start(c, k, n)
             \/ ConnectionError(c) \/ Writeable(c) \/ ClientReceive(c)
             \/ Timeout(c) \/ ClientClosed(c)
      PROVE  SocketType'
  BY <1>0, <1>1, ClientSteps
<1>2. ASSUME Tick
      PROVE  SocketType'
  BY <1>0, <1>2 DEF Tick, daemon
<1>3. ASSUME NEW c \in Clients, Connect(c)
      PROVE  SocketType'
  <2>1. PICK lowest \in Descriptors \ {fd[d] : d \in open} :
          fd' = [fd EXCEPT ![c] = lowest]
    BY <1>3 DEF Connect
  <2>2. open' = open \cup {c} /\ running' = running
    BY <1>3 DEF Connect
  <2>3. fd' \in [Clients -> Descriptors \cup {Never}]
    BY <1>0, <2>1
  <2>4. ASSUME NEW a \in open', NEW b \in open', fd'[a] = fd'[b]
        PROVE  a = b
    <3>1. a \in Clients /\ b \in Clients /\ \A e \in open : fd[e] # lowest
      BY <1>0, <2>1, <2>2
    <3>2. \A e \in Clients : fd'[e] = IF e = c THEN lowest ELSE fd[e]
      BY <1>0, <2>1
    <3> QED BY <1>0, <2>2, <2>4, <3>1, <3>2
  <2> QED BY <1>0, <2>2, <2>3, <2>4
<1>4. ASSUME NEW c \in Clients, Receive(c)
      PROVE  SocketType'
  <2>1. open' = open /\ fd' = fd
    BY <1>4, ReceiveEffect
  <2>2. running' \in {running, "stop", "reboot"}
    BY <1>0, <1>4, ReceiveEffect, DoActionEffect
  <2> QED BY <1>0, <2>1, <2>2
<1>5. ASSUME NEW c \in Clients, Closed(c) \/ Deliver(c)
      PROVE  SocketType'
  BY <1>0, <1>5 DEF Closed, Deliver
<1>6. ASSUME NEW p \in pendingActions, PageAnswers(p) \/ AnswersFreedSocket(p)
      PROVE  SocketType'
  BY <1>0, <1>6 DEF PageAnswers, AnswersFreedSocket
<1>7. ASSUME Exit \/ Boot
      PROVE  SocketType'
  BY <1>0, <1>7 DEF Exit, Boot
<1> QED BY <1>0, <1>1, <1>2, <1>3, <1>4, <1>5, <1>6, <1>7, StepCases

(* What is read of each message, and the buffer. *)
LEMMA ReadTypeStep ==
  ASSUME TypeOK, PhaseInv, [Next]_vars PROVE ReadType'
<1> USE DEF ReadType
<1>0. ReadType /\ ClientType /\ SocketType
  BY TypeParts
<1>1. ASSUME NEW c \in Clients, NEW k \in Commands, NEW n \in 1 .. MaxParts,
             Start(c, k, n)
      PROVE  ReadType'
  <2>1. read' = read /\ inputResponse' = inputResponse
    BY <1>1, ClientSteps
  <2>2. read[c] = 0 /\ size' = [size EXCEPT ![c] = n]
    BY <1>1 DEF Start, PhaseInv
  <2>3. \A d \in Clients : size'[d] = IF d = c THEN n ELSE size[d]
    BY <2>2, <1>0 DEF ClientType
  <2> QED BY <1>0, <2>1, <2>2, <2>3
<1>2. ASSUME NEW c \in Clients,
             \/ Connect(c) \/ ConnectionError(c) \/ Writeable(c) \/ ClientReceive(c)
             \/ Timeout(c) \/ ClientClosed(c)
      PROVE  ReadType'
  <2>1. size' = size /\ read' = read /\ inputResponse' = inputResponse
    BY <1>2 DEF Connect, ConnectionError, Writeable, ClientReceive, Timeout, ClientClosed,
       Ends, daemon, client
  <2> QED BY <1>0, <2>1
<1>3. ASSUME NEW c \in Clients, Receive(c)
      PROVE  ReadType'
  <2>1. read[c] < size[c] /\ read' = [read EXCEPT ![c] = @ + 1] /\ size' = size
    BY <1>3, ReceiveEffect
  <2>2. Parts(c) \in Seq(Part) /\ read[c] \in Nat /\ size[c] \in 1 .. MaxParts
    BY <1>0, <2>1, PartsTyped DEF ClientType
  <2>3. inputResponse' \in {Parts(c), <<>>}
    BY <1>3, ReceiveEffect DEF Parts
  <2>4. inputResponse' \in Seq(Part)
    <3>1. <<>> \in Seq(Part)
      OBVIOUS
    <3> QED BY <2>2, <2>3, <3>1
  <2>5. read[c] + 1 \in 0 .. MaxParts /\ read[c] + 1 <= size[c]
    BY <2>1, <2>2, BoundsAssumption
  <2>6. \A d \in Clients : read'[d] = IF d = c THEN read[c] + 1 ELSE read[d]
    BY <2>1, <1>0
  <2>7. read' \in [Clients -> 0 .. MaxParts]
    BY <2>1, <2>5, <1>0
  <2>8. \A d \in Clients : read'[d] <= size'[d]
    BY <2>1, <2>5, <2>6, <1>0
  <2> QED BY <2>4, <2>7, <2>8
<1>4. ASSUME NEW c \in Clients, Closed(c) \/ Deliver(c)
      PROVE  ReadType'
  <2>1. size' = size /\ read' = read
    BY <1>4 DEF Closed, Deliver, client
  <2>2. inputResponse' \in {inputResponse, <<>>}
    BY <1>4 DEF Closed, Deliver
  <2>3. inputResponse' \in Seq(Part)
    <3>1. <<>> \in Seq(Part)
      OBVIOUS
    <3> QED BY <2>2, <1>0, <3>1
  <2> QED BY <1>0, <2>1, <2>3
<1>5. ASSUME \/ \E p \in pendingActions : PageAnswers(p) \/ AnswersFreedSocket(p)
             \/ Exit \/ Boot \/ Tick
      PROVE  ReadType'
  <2>1. size' = size /\ read' = read
    BY <1>5 DEF PageAnswers, AnswersFreedSocket, Exit, Boot, Tick, client, daemon
  <2>2. inputResponse' \in {inputResponse, <<>>}
    BY <1>5 DEF PageAnswers, AnswersFreedSocket, Exit, Boot, Tick, client, daemon
  <2>3. inputResponse' \in Seq(Part)
    <3>1. <<>> \in Seq(Part)
      OBVIOUS
    <3> QED BY <2>2, <1>0, <3>1
  <2> QED BY <1>0, <2>1, <2>3
<1> QED BY <1>0, <1>1, <1>2, <1>3, <1>4, <1>5, StepCases

(* How far the clients are. *)
LEMMA PhaseStep ==
  ASSUME TypeOK, PhaseInv, [Next]_vars PROVE PhaseInv'
<1> USE DEF PhaseInv
<1>0. ClientType /\ SocketType /\ ReadType
  BY TypeParts
<1>1. ASSUME NEW c \in Clients, NEW k \in Commands, NEW n \in 1 .. MaxParts, Start(c, k, n)
      PROVE  PhaseInv'
  <2>1. /\ phase[c] = "new" /\ c \notin open
        /\ \A d \in Clients : phase'[d] = IF d = c THEN "connecting" ELSE phase[d]
        /\ \A d \in Clients : startTime'[d] = IF d = c THEN now ELSE startTime[d]
        /\ sentTime' = sentTime /\ outcome' = outcome /\ now # Never
        /\ read' = read /\ open' = open /\ fd' = fd
    BY <1>0, <1>1 DEF Start, ClientType, daemon, Never
  <2> QED BY <2>1
<1>2. ASSUME NEW c \in Clients, Connect(c)
      PROVE  PhaseInv'
  <2>1. /\ phase[c] = "connecting" /\ open' = open \cup {c}
        /\ \A d \in Clients : phase'[d] = IF d = c THEN "connected" ELSE phase[d]
        /\ startTime' = startTime /\ sentTime' = sentTime /\ outcome' = outcome
        /\ read' = read
    BY <1>0, <1>2 DEF Connect, ClientType
  <2>2. \E lowest \in Descriptors :
          \A d \in Clients : fd'[d] = IF d = c THEN lowest ELSE fd[d]
    BY <1>0, <1>2 DEF Connect, SocketType
  <2> QED BY <2>1, <2>2
<1>3. ASSUME NEW c \in Clients, ConnectionError(c) \/ Timeout(c) \/ ClientClosed(c)
      PROVE  PhaseInv'
  <2>1. /\ phase[c] # "new"
        /\ \A d \in Clients : phase'[d] = IF d = c THEN "done" ELSE phase[d]
        /\ \E how : \A d \in Clients : outcome'[d] = IF d = c THEN how ELSE outcome[d]
        /\ startTime' = startTime /\ sentTime' = sentTime
    BY <1>0, <1>3 DEF ConnectionError, Timeout, ClientClosed, Ends, ClientType
  <2>2. read' = read /\ open' = open /\ fd' = fd
    BY <1>3, ClientSteps
  <2> QED BY <2>1, <2>2
<1>4. ASSUME NEW c \in Clients, Writeable(c)
      PROVE  PhaseInv'
  <2>1. /\ phase[c] = "connected"
        /\ \A d \in Clients : phase'[d] = IF d = c THEN "waiting" ELSE phase[d]
        /\ \A d \in Clients : sentTime'[d] = IF d = c THEN now ELSE sentTime[d]
        /\ startTime' = startTime /\ outcome' = outcome
    BY <1>0, <1>4 DEF Writeable, ClientType
  <2>2. read' = read /\ open' = open /\ fd' = fd
    BY <1>4, ClientSteps
  <2> QED BY <2>1, <2>2
<1>5. ASSUME NEW c \in Clients, ClientReceive(c)
      PROVE  PhaseInv'
  <2>1. /\ phase[c] \in {"connected", "waiting"}
        /\ startTime' = startTime /\ sentTime' = sentTime
        /\ \/ /\ \A d \in Clients : phase'[d] = IF d = c THEN "done" ELSE phase[d]
              /\ \A d \in Clients : outcome'[d] = IF d = c THEN "answered" ELSE outcome[d]
           \/ phase' = phase /\ outcome' = outcome
    BY <1>0, <1>5 DEF ClientReceive, Ends, client, ClientType
  <2>2. read' = read /\ open' = open /\ fd' = fd
    BY <1>5, ClientSteps
  <2> QED BY <2>1, <2>2
<1>6. ASSUME NEW c \in Clients, Receive(c)
      PROVE  PhaseInv'
  <2>1. /\ c \in open /\ phase' = phase /\ startTime' = startTime /\ sentTime' = sentTime
        /\ outcome' = outcome /\ open' = open /\ fd' = fd
        /\ read' = [read EXCEPT ![c] = @ + 1]
    BY <1>6, ReceiveEffect
  <2>2. \A d \in Clients : d # c => read'[d] = read[d]
    BY <2>1, <1>0 DEF ReadType
  <2> QED BY <2>1, <2>2
<1>7. ASSUME /\ phase' = phase /\ startTime' = startTime /\ sentTime' = sentTime
             /\ outcome' = outcome /\ open' \subseteq open /\ fd' = fd /\ read' = read
      PROVE  PhaseInv'
  BY <1>7
<1>8. ASSUME NEW c \in Clients, Closed(c) \/ Deliver(c)
      PROVE  PhaseInv'
  <2>1. open' \subseteq open /\ fd' = fd /\ read' = read
    BY <1>8 DEF Closed, Deliver
  <2> QED BY <2>1, <1>7, <1>8, DaemonSteps
<1>9. ASSUME \/ \E p \in pendingActions : PageAnswers(p) \/ AnswersFreedSocket(p)
             \/ Exit \/ Boot \/ Tick
      PROVE  PhaseInv'
  <2>1. open' \subseteq open /\ fd' = fd /\ read' = read
    BY <1>9 DEF PageAnswers, AnswersFreedSocket, Exit, Boot, Tick, daemon
  <2>2. phase' = phase /\ startTime' = startTime /\ sentTime' = sentTime /\ outcome' = outcome
    BY <1>9 DEF PageAnswers, AnswersFreedSocket, Exit, Boot, Tick, client
  <2> QED BY <2>1, <2>2, <1>7
<1> QED BY <1>1, <1>2, <1>3, <1>4, <1>5, <1>6, <1>7, <1>8, <1>9, StepCases

(* Which messages are under way after a step, and what becomes of the      *)
(* buffer, but for Receive: they are as they were; or a client is gone,    *)
(* and what was in the buffer; or all are.                                 *)
LEMMA OtherSteps ==
  ASSUME TypeOK, PhaseInv, [Next]_vars,
         \A c \in Clients : ~Receive(c)
  PROVE  /\ read' = read /\ executed' = executed
         /\ \A d \in Clients : size'[d] # size[d] => phase[d] = "new"
         /\ \/ /\ inputResponse' = inputResponse /\ crossed' = crossed
               /\ \A d \in Clients : UnderWay(d)' <=> UnderWay(d)
            \/ /\ inputResponse' = <<>>
               /\ \E c \in Clients :
                    /\ crossed' = CrossedAfter(c)
                    /\ \A d \in Clients : UnderWay(d)' <=> UnderWay(d) /\ d # c
            \/ /\ inputResponse' = <<>> /\ crossed' = crossed
               /\ \A d \in Clients : ~UnderWay(d)'
<1> DEFINE Goal ==
      /\ read' = read /\ executed' = executed
      /\ \A d \in Clients : size'[d] # size[d] => phase[d] = "new"
      /\ \/ /\ inputResponse' = inputResponse /\ crossed' = crossed
            /\ \A d \in Clients : UnderWay(d)' <=> UnderWay(d)
         \/ /\ inputResponse' = <<>>
            /\ \E c \in Clients :
                 /\ crossed' = CrossedAfter(c)
                 /\ \A d \in Clients : UnderWay(d)' <=> UnderWay(d) /\ d # c
         \/ /\ inputResponse' = <<>> /\ crossed' = crossed
            /\ \A d \in Clients : ~UnderWay(d)'
<1>0. ClientType /\ SocketType /\ ReadType
  BY TypeParts
<1>1. ASSUME NEW c \in Clients, NEW k \in Commands, NEW n \in 1 .. MaxParts, Start(c, k, n)
      PROVE  Goal
  <2>1. /\ read' = read /\ executed' = executed /\ open' = open
        /\ inputResponse' = inputResponse /\ crossed' = crossed
    BY <1>1, ClientSteps
  <2>2. /\ phase[c] = "new" /\ c \notin open
        /\ \A d \in Clients : d # c => size'[d] = size[d]
    BY <1>0, <1>1 DEF Start, PhaseInv, ClientType
  <2>3. ASSUME NEW d \in Clients
        PROVE  UnderWay(d)' <=> UnderWay(d)
    BY <2>1, <2>2 DEF UnderWay
  <2> QED BY <2>1, <2>2, <2>3
<1>2. ASSUME NEW c \in Clients, Connect(c)
      PROVE  Goal
  <2>1. /\ read' = read /\ executed' = executed /\ open' = open \cup {c} /\ size' = size
        /\ inputResponse' = inputResponse /\ crossed' = crossed
        /\ read[c] = 0
    BY <1>2 DEF Connect, history, PhaseInv
  <2>2. ASSUME NEW d \in Clients
        PROVE  UnderWay(d)' <=> UnderWay(d)
    BY <2>1 DEF UnderWay
  <2> QED BY <2>1, <2>2
<1>3. ASSUME /\ read' = read /\ executed' = executed /\ open' = open /\ size' = size
             /\ inputResponse' = inputResponse /\ crossed' = crossed
      PROVE  Goal
  <2>1. ASSUME NEW d \in Clients
        PROVE  UnderWay(d)' <=> UnderWay(d)
    BY <1>3 DEF UnderWay
  <2> QED BY <1>3, <2>1
<1>4. ASSUME NEW c \in Clients,
             \/ ConnectionError(c) \/ Writeable(c) \/ ClientReceive(c)
             \/ Timeout(c) \/ ClientClosed(c)
      PROVE  Goal
  <2>1. size' = size
    BY <1>4 DEF ConnectionError, Writeable, ClientReceive, Timeout, ClientClosed, Ends, client
  <2> HIDE DEF Goal
  <2> QED BY <2>1, <1>4, <1>3, ClientSteps
<1>5. ASSUME NEW c \in Clients, Closed(c)
      PROVE  Goal
  <2>1. /\ read' = read /\ executed' = executed /\ open' = open \ {c} /\ size' = size
        /\ inputResponse' = <<>> /\ crossed' = CrossedAfter(c)
    BY <1>5 DEF Closed, client
  <2>2. ASSUME NEW d \in Clients
        PROVE  UnderWay(d)' <=> UnderWay(d) /\ d # c
    BY <2>1 DEF UnderWay
  <2> QED BY <2>1, <2>2
<1>6. ASSUME NEW c \in Clients, Deliver(c)
      PROVE  Goal
  <2> HIDE DEF Goal
  <2> QED BY <1>6, <1>3 DEF Deliver, client, history
<1>7. ASSUME read' = read /\ executed' = executed /\ size' = size
             /\ inputResponse' = <<>> /\ crossed' = crossed /\ open' = {}
      PROVE  Goal
  <2>1. ASSUME NEW d \in Clients
        PROVE  ~UnderWay(d)'
    BY <1>7 DEF UnderWay
  <2> QED BY <1>7, <2>1
<1>8. ASSUME NEW p \in pendingActions, PageAnswers(p)
      PROVE  Goal
  <2> HIDE DEF Goal
  <2> QED BY <1>8, <1>3 DEF PageAnswers, client, history
<1>9. ASSUME NEW p \in pendingActions, AnswersFreedSocket(p)
      PROVE  Goal
  <2> HIDE DEF Goal
  <2> QED BY <1>9, <1>3, <1>7 DEF AnswersFreedSocket, client, history
<1>10. ASSUME Exit
       PROVE  Goal
  <2> HIDE DEF Goal
  <2> QED BY <1>10, <1>7 DEF Exit, client, history
<1>11. ASSUME Boot \/ Tick
       PROVE  Goal
  <2> HIDE DEF Goal
  <2> QED BY <1>11, <1>3 DEF Boot, Tick, client, history, daemon
<1> QED
  <2> HIDE DEF Goal
  <2>1. Goal
    BY <1>1, <1>2, <1>3, <1>4, <1>5, <1>6, <1>8, <1>9, <1>10, <1>11, StepCases
  <2> QED BY <2>1 DEF Goal

(* After Receive the message of c is under way, unless it is complete. *)
LEMMA ReceiveWay ==
  ASSUME TypeOK, NEW c \in Clients, Receive(c)
  PROVE  /\ \A d \in Clients : d # c => (UnderWay(d)' <=> UnderWay(d)) /\ read'[d] = read[d]
         /\ UnderWay(c)' <=> read[c] + 1 # size[c]
         /\ read[c] > 0 => UnderWay(c)
         /\ read'[c] = read[c] + 1 /\ read[c] \in Nat /\ size[c] \in Nat
<1>0. ReadType /\ ClientType
  BY TypeParts
<1>1. /\ c \in open /\ read[c] < size[c] /\ read' = [read EXCEPT ![c] = @ + 1]
      /\ size' = size /\ open' = open
    BY ReceiveEffect
<1>2. read[c] \in 0 .. MaxParts /\ size[c] \in 1 .. MaxParts /\ MaxParts \in Int
  BY <1>0, BoundsAssumption DEF ReadType, ClientType
<1>3. read'[c] = read[c] + 1 /\ \A d \in Clients : d # c => read'[d] = read[d]
  BY <1>0, <1>1 DEF ReadType
<1>4. UnderWay(c)' <=> read[c] + 1 # size[c]
  BY <1>1, <1>2, <1>3 DEF UnderWay
<1>5. read[c] > 0 => UnderWay(c)
  BY <1>1, <1>2 DEF UnderWay
<1>6. ASSUME NEW d \in Clients, d # c
      PROVE  UnderWay(d)' <=> UnderWay(d)
  BY <1>1, <1>3, <1>6 DEF UnderWay
<1> QED BY <1>2, <1>3, <1>4, <1>5, <1>6

(* What meets another's message has crossed it, and so has the other. *)
LEMMA CrossedGrows ==
  ASSUME NEW c \in Clients
  PROVE  /\ crossed \subseteq CrossedAfter(c)
         /\ \A d \in Clients : UnderWay(d) /\ d # c =>
              d \in CrossedAfter(c) /\ c \in CrossedAfter(c)
         /\ CrossedAfter(c) \subseteq crossed \cup Clients
BY DEF CrossedAfter

(* The buffer. *)
LEMMA BufferStep ==
  ASSUME TypeOK, PhaseInv, BufferInv, [Next]_vars PROVE BufferInv'
<1>0. ClientType /\ SocketType /\ ReadType
  BY TypeParts
<1>1. CASE \A c \in Clients : ~Receive(c)
  <2>1. read' = read
    BY <1>1, OtherSteps
  <2>2. CASE /\ inputResponse' = inputResponse /\ crossed' = crossed
             /\ \A d \in Clients : UnderWay(d)' <=> UnderWay(d)
    <3> QED BY <2>1, <2>2 DEF BufferInv
  <2>3. ASSUME /\ inputResponse' = <<>>
               /\ \E c \in Clients :
                    /\ crossed' = CrossedAfter(c)
                    /\ \A d \in Clients : UnderWay(d)' <=> UnderWay(d) /\ d # c
        PROVE  BufferInv'
    <3>1. PICK c \in Clients : /\ crossed' = CrossedAfter(c)
                               /\ \A d \in Clients : UnderWay(d)' <=> UnderWay(d) /\ d # c
      BY <2>3
    <3>2. DOMAIN inputResponse' = {}
      BY <2>3
    <3>3. \A d \in Clients : UnderWay(d)' => d \in crossed'
      BY <3>1, CrossedGrows
    <3> QED BY <3>2, <3>3 DEF BufferInv
  <2>4. CASE /\ inputResponse' = <<>> /\ crossed' = crossed
             /\ \A d \in Clients : ~UnderWay(d)'
    <3>1. DOMAIN inputResponse' = {}
      BY <2>4
    <3> QED BY <2>4, <3>1 DEF BufferInv
  <2> QED BY <1>1, <2>2, <2>3, <2>4, OtherSteps
<1>2. ASSUME NEW c \in Clients, Receive(c)
      PROVE  BufferInv'
  <2>1. /\ c \in open /\ read[c] < size[c] /\ crossed' = CrossedAfter(c)
        /\ \/ read[c] + 1 # size[c] /\ inputResponse' = Parts(c)
           \/ read[c] + 1 = size[c] /\ inputResponse' = <<>>
    BY <1>2, ReceiveEffect DEF Parts
  <2>2. /\ \A d \in Clients : d # c => (UnderWay(d)' <=> UnderWay(d)) /\ read'[d] = read[d]
        /\ UnderWay(c)' <=> read[c] + 1 # size[c]
        /\ read[c] > 0 => UnderWay(c)
        /\ read'[c] = read[c] + 1 /\ read[c] \in Nat
    BY <1>2, ReceiveWay
  <2>3. \A d \in Clients : UnderWay(d) /\ d # c => d \in crossed' /\ c \in crossed'
    BY <2>1, CrossedGrows
  <2>4. CASE read[c] + 1 = size[c]
    <3>1. DOMAIN inputResponse' = {}
      BY <2>1, <2>4
    <3>2. \A d \in Clients : UnderWay(d)' => d \in crossed'
      BY <2>2, <2>3, <2>4
    <3> QED BY <3>1, <3>2 DEF BufferInv
  <2>5. CASE read[c] + 1 # size[c]
    <3>1. /\ inputResponse' = Parts(c) /\ DOMAIN Parts(c) = 1 .. Len(inputResponse) + 1
          /\ Len(Parts(c)) = Len(inputResponse) + 1
          /\ \A i \in DOMAIN Parts(c) :
               Parts(c)[i] = IF i <= Len(inputResponse) THEN inputResponse[i]
                             ELSE [from |-> c, part |-> read[c] + 1]
          /\ Len(inputResponse) \in Nat /\ DOMAIN inputResponse = 1 .. Len(inputResponse)
      BY <2>1, <2>5, <1>0, PartsTyped
    <3>2. ASSUME NEW i \in DOMAIN inputResponse
          PROVE  inputResponse[i].from \in Clients /\ UnderWay(inputResponse[i].from)
      <4>1. inputResponse[i] \in Part
        BY <1>0, ElementOfSeq, LenProperties DEF ReadType
      <4> QED BY <4>1 DEF Part, BufferInv
    <3>3. ASSUME NEW e \in Clients, ~UnderWay(e)', NEW i \in DOMAIN inputResponse'
          PROVE  inputResponse'[i].from # e
      <4>1. CASE i <= Len(inputResponse)
        <5>1. i \in DOMAIN inputResponse /\ inputResponse'[i] = inputResponse[i]
          BY <3>1, <4>1
        <5> QED BY <5>1, <3>2, <3>3, <2>2, <2>5
      <4>2. CASE ~(i <= Len(inputResponse))
        <5>1. inputResponse'[i].from = c
          BY <3>1, <4>2
        <5> QED BY <5>1, <3>3, <2>2, <2>5
      <4> QED BY <4>1, <4>2
    <3>4. ASSUME NEW a \in Clients, NEW b \in Clients, UnderWay(a)', UnderWay(b)', a # b
          PROVE  a \in crossed'
      BY <3>4, <2>2, <2>3
    <3>5. ASSUME NEW d \in Clients, d \notin crossed', UnderWay(d)'
          PROVE  /\ Len(inputResponse') = read'[d]
                 /\ \A i \in DOMAIN inputResponse' : inputResponse'[i] = [from |-> d, part |-> i]
      <4>1. d = c /\ d \notin crossed
        BY <3>5, <2>1, <2>2, <2>3, CrossedGrows
      <4>2. \A e \in Clients : e # c => ~UnderWay(e)
        BY <4>1, <3>5, <2>3
      <4>3. /\ Len(inputResponse) = read[c]
            /\ \A i \in DOMAIN inputResponse : inputResponse[i] = [from |-> c, part |-> i]
        <5>1. CASE read[c] > 0
          BY <5>1, <2>2, <4>1 DEF BufferInv
        <5>2. CASE ~(read[c] > 0)
          <6>1. read[c] = 0 /\ ~UnderWay(c)
            BY <5>2, <2>2 DEF UnderWay
          <6>2. DOMAIN inputResponse = {}
            BY <6>1, <4>2, <3>2
          <6>3. Len(inputResponse) = 0
            BY <6>2, <3>1
          <6> QED BY <6>1, <6>2, <6>3
        <5> QED BY <5>1, <5>2
      <4>4. ASSUME NEW i \in DOMAIN inputResponse'
            PROVE  inputResponse'[i] = [from |-> c, part |-> i]
        <5>1. CASE i <= Len(inputResponse)
          <6>1. i \in DOMAIN inputResponse /\ inputResponse'[i] = inputResponse[i]
            BY <3>1, <5>1
          <6> QED BY <6>1, <4>3
        <5>2. CASE ~(i <= Len(inputResponse))
          <6>1. i = read[c] + 1
            BY <3>1, <5>2, <4>3
          <6> QED BY <3>1, <5>2, <6>1
        <5> QED BY <5>1, <5>2
      <4> QED BY <4>1, <4>3, <4>4, <3>1, <2>2
    <3> QED BY <3>3, <3>4, <3>5 DEF BufferInv
  <2> QED BY <2>4, <2>5
<1> QED BY <1>1, <1>2

(* What is executed stays, and at most one more is, when a message is      *)
(* complete.                                                               *)
LEMMA ExecutedGrows ==
  ASSUME TypeOK, PhaseInv, BufferInv, OnceInv, [Next]_vars
  PROVE  \/ executed' = executed
         \/ \E c \in Clients :
              /\ Receive(c) /\ read[c] + 1 = size[c] /\ inputResponse' = <<>>
              /\ DoAction(c, Parts(c))
              /\ executed' = Append(executed, [of |-> Author(Parts(c)), parts |-> Parts(c),
                                               to |-> c])
<1>1. CASE \A c \in Clients : ~Receive(c)
  BY <1>1, OtherSteps
<1>2. ASSUME NEW c \in Clients, Receive(c)
      PROVE  \/ executed' = executed
             \/ /\ read[c] + 1 = size[c] /\ inputResponse' = <<>>
                /\ DoAction(c, Parts(c))
                /\ executed' = Append(executed, [of |-> Author(Parts(c)),
                                                 parts |-> Parts(c), to |-> c])
  <2>1. \/ executed' = executed
        \/ read[c] + 1 = size[c] /\ inputResponse' = <<>> /\ DoAction(c, Parts(c))
    BY <1>2, ReceiveEffect DEF Parts
  <2>2. DoAction(c, Parts(c)) =>
          executed' = Append(executed, [of |-> Author(Parts(c)), parts |-> Parts(c),
                                        to |-> c])
    BY DEF DoAction
  <2> QED BY <2>1, <2>2
<1> QED BY <1>1, <1>2

(* One more execution: the sequence, and the places where c is executed. *)
LEMMA OneMore ==
  ASSUME NEW e \in Execution, executed \in Seq(Execution), executed' = Append(executed, e)
  PROVE  /\ executed' \in Seq(Execution)
         /\ Len(executed) \in Nat /\ DOMAIN executed = 1 .. Len(executed)
         /\ DOMAIN executed' = 1 .. Len(executed) + 1
         /\ \A i \in DOMAIN executed : i \in DOMAIN executed' /\ executed'[i] = executed[i]
         /\ executed'[Len(executed) + 1] = e
         /\ \A d \in Clients :
              Executions(d)' = Executions(d) \cup
                (IF e.of = d THEN {Len(executed) + 1} ELSE {})
<1>1. /\ executed' \in Seq(Execution) /\ Len(executed') = Len(executed) + 1
      /\ \A i \in 1 .. Len(executed) : executed'[i] = executed[i]
      /\ executed'[Len(executed) + 1] = e
  BY AppendProperties
<1>2. Len(executed) \in Nat /\ DOMAIN executed = 1 .. Len(executed)
  BY LenProperties
<1>3. DOMAIN executed' = 1 .. Len(executed) + 1
  BY <1>1, LenProperties
<1>4. \A i \in DOMAIN executed : i \in DOMAIN executed' /\ executed'[i] = executed[i]
  BY <1>1, <1>2, <1>3
<1>5. \A i \in DOMAIN executed' : i \in DOMAIN executed \/ i = Len(executed) + 1
  BY <1>2, <1>3
<1>6. Len(executed) + 1 \in DOMAIN executed'
  BY <1>2, <1>3
<1>7. ASSUME NEW d \in Clients
      PROVE  Executions(d)' = Executions(d) \cup
               (IF e.of = d THEN {Len(executed) + 1} ELSE {})
  <2>1. Executions(d)' = {i \in DOMAIN executed' : executed'[i].of = d}
    BY DEF Executions
  <2>2. Executions(d) = {i \in DOMAIN executed : executed[i].of = d}
    BY DEF Executions
  <2> QED BY <2>1, <2>2, <1>1, <1>4, <1>5, <1>6
<1> QED BY <1>1, <1>2, <1>3, <1>4, <1>7

(* A completed message is executed: its facts in one place. *)
LEMMA Completed ==
  ASSUME TypeOK, PhaseInv, BufferInv, OnceInv, NEW c \in Clients, Receive(c),
         read[c] + 1 = size[c],
         executed' = Append(executed, [of |-> Author(Parts(c)), parts |-> Parts(c), to |-> c])
  PROVE  /\ [of |-> Author(Parts(c)), parts |-> Parts(c), to |-> c] \in Execution
         /\ Author(Parts(c)) \in Clients \cup {NoClient}
         /\ Author(Parts(c)) # NoClient =>
              /\ Author(Parts(c)) \in Clients
              /\ Author(Parts(c)) = c \/ UnderWay(Author(Parts(c)))
              /\ startTime[Author(Parts(c))] \in 0 .. MaxTime
              /\ startTime[Author(Parts(c))] # Never
              /\ Executions(Author(Parts(c))) = {}
<1>1. ClientType /\ ReadType
  BY TypeParts
<1>2. c \in open /\ sentTime[c] # Never /\ read[c] < size[c]
  BY ReceiveEffect
<1>3. Parts(c) \in Seq(Part)
  BY <1>1, <1>2, PartsTyped
<1> QED BY <1>1, <1>2, <1>3, AuthorUnserved DEF Execution

(* Each message is executed once. *)
LEMMA OnceStep ==
  ASSUME TypeOK, PhaseInv, BufferInv, OnceInv, [Next]_vars PROVE OnceInv'
<1>0. ReadType /\ ClientType
  BY TypeParts
<1>e. \A i \in DOMAIN executed : executed[i].of \in Clients \cup {NoClient}
  <2>1. ASSUME NEW i \in DOMAIN executed
        PROVE  executed[i] \in Execution
    BY ElementOfSeq, LenProperties DEF OnceInv
  <2> QED BY <2>1 DEF Execution
<1>1. CASE \A c \in Clients : ~Receive(c)
  <2>1. read' = read /\ executed' = executed
    BY <1>1, OtherSteps
  <2>2. inputResponse' = inputResponse \/ inputResponse' = <<>>
    BY <1>1, OtherSteps
  <2>3. \A j \in DOMAIN inputResponse' :
          j \in DOMAIN inputResponse /\ inputResponse'[j] = inputResponse[j]
    BY <2>2
  <2> QED BY <2>1, <2>3 DEF OnceInv, FirstPart
<1>2. ASSUME NEW c \in Clients, Receive(c), executed' = executed
      PROVE  OnceInv'
  <2>1. /\ \A d \in Clients : d # c => read'[d] = read[d]
        /\ read'[c] = read[c] + 1 /\ read[c] \in Nat
    BY <1>2, ReceiveWay
  <2>2. /\ read[c] < size[c] /\ inputResponse' \in {Parts(c), <<>>}
    BY <1>2, ReceiveEffect DEF Parts
  <2>3. /\ DOMAIN Parts(c) = 1 .. Len(inputResponse) + 1
        /\ \A i \in DOMAIN Parts(c) :
             Parts(c)[i] = IF i <= Len(inputResponse) THEN inputResponse[i]
                           ELSE [from |-> c, part |-> read[c] + 1]
        /\ Len(inputResponse) \in Nat /\ DOMAIN inputResponse = 1 .. Len(inputResponse)
    BY <2>2, <1>0, PartsTyped
  <2>4. ASSUME NEW i \in DOMAIN executed, executed[i].of # NoClient
        PROVE  /\ read'[executed[i].of] > 0
               /\ \A j \in DOMAIN inputResponse' : inputResponse'[j] # FirstPart(executed[i].of)
    <3>1. executed[i].of \in Clients /\ read[executed[i].of] > 0
      BY <2>4, <1>e DEF OnceInv
    <3>2. read'[executed[i].of] > 0
      BY <3>1, <2>1
    <3>3. ASSUME NEW j \in DOMAIN inputResponse'
          PROVE  inputResponse'[j] # FirstPart(executed[i].of)
      <4>1. inputResponse' = Parts(c)
        BY <2>2
      <4>2. CASE j <= Len(inputResponse)
        <5>1. j \in DOMAIN inputResponse /\ inputResponse'[j] = inputResponse[j]
          BY <4>1, <4>2, <2>3
        <5> QED BY <5>1, <2>4 DEF OnceInv
      <4>3. CASE ~(j <= Len(inputResponse))
        <5>1. inputResponse'[j] = [from |-> c, part |-> read[c] + 1]
          BY <4>1, <4>3, <2>3
        <5>2. executed[i].of = c => read[c] + 1 # 1
          BY <3>1, <2>1
        <5> QED BY <5>1, <5>2 DEF FirstPart
      <4> QED BY <4>2, <4>3
    <3> QED BY <3>2, <3>3
  <2> QED BY <2>4, <1>2 DEF OnceInv, FirstPart
<1>3. ASSUME NEW c \in Clients, Receive(c), read[c] + 1 = size[c], inputResponse' = <<>>,
             executed' = Append(executed, [of |-> Author(Parts(c)), parts |-> Parts(c),
                                           to |-> c])
      PROVE  OnceInv'
  <2> DEFINE e == [of |-> Author(Parts(c)), parts |-> Parts(c), to |-> c]
  <2>1. e \in Execution /\ e.of = Author(Parts(c)) /\ executed \in Seq(Execution)
    BY <1>3, Completed DEF OnceInv
  <2>2. e.of # NoClient =>
          /\ e.of \in Clients /\ (e.of = c \/ UnderWay(e.of)) /\ Executions(e.of) = {}
    BY <1>3, Completed
  <2>3. executed' = Append(executed, e)
    BY <1>3
  <2> HIDE DEF e
  <2>4. /\ executed' \in Seq(Execution)
        /\ Len(executed) \in Nat /\ DOMAIN executed = 1 .. Len(executed)
        /\ DOMAIN executed' = 1 .. Len(executed) + 1
        /\ \A i \in DOMAIN executed : i \in DOMAIN executed' /\ executed'[i] = executed[i]
        /\ executed'[Len(executed) + 1] = e
    BY <2>1, <2>3, OneMore
  <2>5. \A i \in DOMAIN executed' : i \in DOMAIN executed \/ i = Len(executed) + 1
    BY <2>4
  <2>6. \A i \in DOMAIN executed : e.of # NoClient => executed[i].of # e.of
    BY <2>2 DEF Executions
  <2>7. ASSUME NEW i \in DOMAIN executed', NEW j \in DOMAIN executed',
               executed'[i].of = executed'[j].of, executed'[i].of # NoClient
        PROVE  i = j
    BY <2>4, <2>5, <2>6, <2>7 DEF OnceInv
  <2>8. /\ \A d \in Clients : d # c => read'[d] = read[d]
        /\ read'[c] = read[c] + 1 /\ read[c] \in Nat
    BY <1>3, ReceiveWay
  <2>9. ASSUME NEW i \in DOMAIN executed', executed'[i].of # NoClient
        PROVE  read'[executed'[i].of] > 0
    <3>1. CASE i \in DOMAIN executed
      <4>1. executed'[i].of \in Clients /\ read[executed'[i].of] > 0
        BY <3>1, <2>4, <2>9, <1>e DEF OnceInv
      <4> QED BY <4>1, <2>8
    <3>2. CASE i = Len(executed) + 1
      <4>1. e.of \in Clients /\ (e.of = c \/ UnderWay(e.of)) /\ executed'[i].of = e.of
        BY <3>2, <2>4, <2>9, <2>2
      <4>2. UnderWay(e.of) => read[e.of] > 0
        BY DEF UnderWay
      <4> QED BY <4>1, <4>2, <2>8
    <3> QED BY <3>1, <3>2, <2>5
  <2>10. DOMAIN inputResponse' = {}
    BY <1>3
  <2> QED BY <2>4, <2>7, <2>9, <2>10 DEF OnceInv, FirstPart
<1> QED BY <1>1, <1>2, <1>3, ExecutedGrows

(* A message that met no other is executed as it was sent. *)
LEMMA WholeStep ==
  ASSUME TypeOK, PhaseInv, BufferInv, OnceInv, WholeInv, [Next]_vars PROVE WholeInv'
<1>0. ReadType /\ ClientType
  BY TypeParts
<1>1. ASSUME NEW c \in Clients, ~(c \in crossed'),
             c \notin crossed, Executions(c)' = Executions(c), read'[c] = read[c],
             size'[c] = size[c] \/ read[c] = 0,
             \A i \in Executions(c) : executed'[i] = executed[i]
      PROVE  /\ \A i \in Executions(c)' :
                  executed'[i].parts = Message(c)' /\ executed'[i].to = c /\ read'[c] = size'[c]
             /\ read'[c] = size'[c] => Executions(c)' # {}
  <2>1. CASE size'[c] = size[c]
    <3>1. Message(c)' = Message(c)
      BY <2>1 DEF Message
    <3> QED BY <3>1, <2>1, <1>1 DEF WholeInv
  <2>2. CASE size'[c] # size[c]
    <3>1. read[c] = 0
      BY <2>2, <1>1
    <3>2. Executions(c) = {}
      BY <3>1, ClientsAssumption DEF OnceInv, Executions
    <3>3. read'[c] # size'[c]
      <4>1. ClientType'
        BY ClientTypeStep
      <4>2. size'[c] \in 1 .. MaxParts
        BY <4>1 DEF ClientType
      <4> QED BY <4>2, <3>1, <1>1, BoundsAssumption
    <3> QED BY <3>2, <3>3, <1>1
  <2> QED BY <2>1, <2>2
<1>2. CASE \A c \in Clients : ~Receive(c)
  <2>1. read' = read /\ executed' = executed
    BY <1>2, OtherSteps
  <2>2. ASSUME NEW d \in Clients, size'[d] # size[d]
        PROVE  read[d] = 0
    BY <1>2, <2>2, OtherSteps DEF PhaseInv
  <2>3. crossed \subseteq crossed'
    BY <1>2, OtherSteps, CrossedGrows
  <2>4. \A d \in Clients : Executions(d)' = Executions(d)
    BY <2>1 DEF Executions
  <2> QED BY <1>1, <2>1, <2>2, <2>3, <2>4 DEF WholeInv
<1>3. ASSUME NEW c \in Clients, Receive(c)
      PROVE  WholeInv'
  <2>1. /\ read[c] < size[c] /\ crossed' = CrossedAfter(c) /\ size' = size
    BY <1>3, ReceiveEffect
  <2>2. /\ \A d \in Clients : d # c => read'[d] = read[d]
        /\ read'[c] = read[c] + 1 /\ read[c] \in Nat /\ size[c] \in Nat
        /\ read[c] > 0 => UnderWay(c)
    BY <1>3, ReceiveWay
  <2>3. crossed \subseteq crossed'
        /\ \A d \in Clients : UnderWay(d) /\ d # c => d \in crossed' /\ c \in crossed'
    BY <2>1, CrossedGrows
  <2>4. c \notin crossed => Executions(c) = {}
    <3>1. read[c] # size[c]
      BY <2>1, <2>2
    <3> QED BY <3>1 DEF WholeInv
  <2>5. CASE executed' = executed
    <3>1. \A d \in Clients : Executions(d)' = Executions(d)
      BY <2>5 DEF Executions
    <3>2. ASSUME NEW d \in Clients, d \notin crossed', d # c
          PROVE  /\ \A i \in Executions(d)' : /\ executed'[i].parts = Message(d)'
                                              /\ executed'[i].to = d /\ read'[d] = size'[d]
                 /\ read'[d] = size'[d] => Executions(d)' # {}
      BY <3>1, <3>2, <2>1, <2>2, <2>3, <2>5, <1>1
    <3>3. read'[c] # size'[c]
      <4>1. read[c] + 1 # size[c]
        <5>1. SUFFICES ASSUME read[c] + 1 = size[c] PROVE FALSE
          OBVIOUS
        <5>2. executed' = Append(executed, [of |-> Author(Parts(c)), parts |-> Parts(c),
                                            to |-> c])
          BY <1>3, <5>1, ReceiveEffect DEF DoAction, Parts
        <5>3. [of |-> Author(Parts(c)), parts |-> Parts(c), to |-> c] \in Execution
          BY <1>3, <5>1, <5>2, Completed
        <5>4. Len(executed') = Len(executed) + 1 /\ Len(executed) \in Nat
          BY <5>2, <5>3, AppendProperties, LenProperties DEF OnceInv
        <5> QED BY <5>4, <2>5
      <4> QED BY <4>1, <2>1, <2>2
    <3>4. c \notin crossed' => Executions(c)' = {}
      BY <2>3, <2>4, <3>1
    <3> QED BY <3>2, <3>3, <3>4 DEF WholeInv
  <2>6. CASE /\ read[c] + 1 = size[c]
             /\ executed' = Append(executed, [of |-> Author(Parts(c)), parts |-> Parts(c),
                                              to |-> c])
    <3> DEFINE e == [of |-> Author(Parts(c)), parts |-> Parts(c), to |-> c]
    <3>1. e \in Execution /\ e.of = Author(Parts(c)) /\ e.parts = Parts(c) /\ e.to = c
          /\ executed \in Seq(Execution)
      BY <1>3, <2>6, Completed DEF OnceInv
    <3>2. e.of # NoClient =>
            e.of \in Clients /\ (e.of = c \/ UnderWay(e.of))
      BY <1>3, <2>6, Completed
    <3>3. executed' = Append(executed, e)
      BY <2>6
    <3>4. (Parts(c) = Message(c) /\ Author(Parts(c)) = c) \/ c \in crossed'
      <4>1. SUFFICES ASSUME c \notin crossed'
                     PROVE  Parts(c) = Message(c) /\ Author(Parts(c)) = c
        OBVIOUS
      <4>2. \A d \in Clients : d # c => ~UnderWay(d)
        BY <4>1, <2>3
      <4>3. /\ DOMAIN Parts(c) = 1 .. Len(inputResponse) + 1 /\ Parts(c) \in Seq(Part)
            /\ \A i \in DOMAIN Parts(c) :
                 Parts(c)[i] = IF i <= Len(inputResponse) THEN inputResponse[i]
                               ELSE [from |-> c, part |-> read[c] + 1]
            /\ Len(inputResponse) \in Nat /\ DOMAIN inputResponse = 1 .. Len(inputResponse)
        BY <2>1, <1>0, PartsTyped
      <4>4. /\ Len(inputResponse) = read[c]
            /\ \A i \in DOMAIN inputResponse : inputResponse[i] = [from |-> c, part |-> i]
        <5>1. CASE read[c] > 0
          BY <5>1, <2>2, <2>3, <4>1 DEF BufferInv
        <5>2. CASE ~(read[c] > 0)
          <6>1. read[c] = 0 /\ ~UnderWay(c)
            BY <5>2, <2>2 DEF UnderWay
          <6>2. ASSUME NEW i \in DOMAIN inputResponse
                PROVE  inputResponse[i].from \in Clients
            <7>1. inputResponse[i] \in Part
              BY <1>0, ElementOfSeq, LenProperties DEF ReadType
            <7> QED BY <7>1 DEF Part
          <6>3. DOMAIN inputResponse = {}
            BY <6>1, <6>2, <4>2 DEF BufferInv
          <6>4. Len(inputResponse) = 0
            BY <6>3, <4>3
          <6> QED BY <6>1, <6>3, <6>4
        <5> QED BY <5>1, <5>2
      <4>5. DOMAIN Parts(c) = 1 .. size[c]
        BY <4>3, <4>4, <2>6
      <4>6. ASSUME NEW i \in DOMAIN Parts(c)
            PROVE  Parts(c)[i] = [from |-> c, part |-> i]
        <5>1. CASE i <= Len(inputResponse)
          <6>1. i \in DOMAIN inputResponse
            BY <5>1, <4>3
          <6> QED BY <5>1, <6>1, <4>3, <4>4
        <5>2. CASE ~(i <= Len(inputResponse))
          <6>1. i = read[c] + 1
            BY <5>2, <4>3, <4>4
          <6> QED BY <5>2, <6>1, <4>3
        <5> QED BY <5>1, <5>2
      <4>7. Parts(c) = Message(c)
        <5>1. Parts(c) = [i \in DOMAIN Parts(c) |-> Parts(c)[i]]
          BY <4>3
        <5> QED BY <5>1, <4>5, <4>6 DEF Message
      <4>8. 1 \in DOMAIN Parts(c)
        BY <4>3
      <4>9. Parts(c)[1] = [from |-> c, part |-> 1]
        BY <4>6, <4>8
      <4> QED BY <4>7, <4>9 DEF Author
    <3> HIDE DEF e
    <3>5. /\ \A i \in DOMAIN executed : i \in DOMAIN executed' /\ executed'[i] = executed[i]
          /\ executed'[Len(executed) + 1] = e
      BY <3>1, <3>3, OneMore
    <3>6. \A d \in Clients :
            Executions(d)' = Executions(d) \cup
              (IF e.of = d THEN {Len(executed) + 1} ELSE {})
      BY <3>1, <3>3, OneMore
    <3>7. \A d \in Clients : Executions(d) \subseteq DOMAIN executed
      BY DEF Executions
    <3>8. ASSUME NEW d \in Clients, d \notin crossed', d # c
          PROVE  /\ \A i \in Executions(d)' : /\ executed'[i].parts = Message(d)'
                                              /\ executed'[i].to = d /\ read'[d] = size'[d]
                 /\ read'[d] = size'[d] => Executions(d)' # {}
      <4>1. e.of # d
        BY <3>8, <3>2, <2>3, ClientsAssumption
      <4>2. Executions(d)' = Executions(d)
        BY <4>1, <3>6
      <4> QED BY <4>2, <3>5, <3>7, <3>8, <2>1, <2>2, <2>3, <1>1
    <3>9. ASSUME c \notin crossed'
          PROVE  /\ \A i \in Executions(c)' : /\ executed'[i].parts = Message(c)'
                                              /\ executed'[i].to = c /\ read'[c] = size'[c]
                 /\ Executions(c)' # {}
      <4>1. e.parts = Message(c) /\ e.of = c /\ e.to = c
        BY <3>9, <3>1, <3>4
      <4>2. Executions(c)' = {Len(executed) + 1}
        BY <3>9, <4>1, <3>6, <2>3, <2>4
      <4>3. Message(c)' = Message(c)
        BY <2>1 DEF Message
      <4>4. read'[c] = size'[c]
        BY <2>1, <2>2, <2>6
      <4> QED BY <4>1, <4>2, <4>3, <4>4, <3>5
    <3> QED BY <3>8, <3>9 DEF WholeInv
  <2> QED BY <2>5, <2>6, <1>3, ReceiveEffect DEF DoAction, Parts
<1> QED BY <1>2, <1>3

(* A step changes the start only of a client that had not started, and     *)
(* nothing is executed for it or waits.                                    *)
LEMMA StartKept ==
  ASSUME TypeOK, PhaseInv, [Next]_vars, NEW c \in Clients, startTime[c] # Never
  PROVE  startTime'[c] = startTime[c]
<1>0. ClientType
  BY TypeParts
<1>1. ASSUME NEW d \in Clients, NEW k \in Commands, NEW n \in 1 .. MaxParts, Start(d, k, n)
      PROVE  startTime'[c] = startTime[c]
  <2>1. d # c /\ startTime' = [startTime EXCEPT ![d] = now]
    BY <1>1 DEF Start, PhaseInv
  <2> QED BY <2>1, <1>0 DEF ClientType
<1>2. ASSUME NEW d \in Clients,
             \/ Connect(d) \/ ConnectionError(d) \/ Writeable(d) \/ ClientReceive(d)
             \/ Timeout(d) \/ ClientClosed(d)
      PROVE  startTime' = startTime
  BY <1>2 DEF Connect, ConnectionError, Writeable, ClientReceive, Timeout, ClientClosed,
     Ends, client
<1>3. ASSUME NEW d \in Clients, Receive(d) \/ Closed(d) \/ Deliver(d)
      PROVE  startTime' = startTime
  BY <1>3, DaemonSteps
<1>4. ASSUME \/ \E p \in pendingActions : PageAnswers(p) \/ AnswersFreedSocket(p)
             \/ Exit \/ Boot \/ Tick
      PROVE  startTime' = startTime
  BY <1>4 DEF PageAnswers, AnswersFreedSocket, Exit, Boot, Tick, client
<1> QED BY <1>1, <1>2, <1>3, <1>4, StepCases

(* What was executed stays so. *)
LEMMA ExecutionsKept ==
  ASSUME TypeOK, PhaseInv, BufferInv, OnceInv, [Next]_vars, NEW c \in Clients
  PROVE  Executions(c) \subseteq Executions(c)'
<1>1. CASE executed' = executed
  BY <1>1 DEF Executions
<1>2. ASSUME NEW d \in Clients, Receive(d), read[d] + 1 = size[d],
             executed' = Append(executed, [of |-> Author(Parts(d)), parts |-> Parts(d),
                                           to |-> d])
      PROVE  Executions(c) \subseteq Executions(c)'
  <2> DEFINE e == [of |-> Author(Parts(d)), parts |-> Parts(d), to |-> d]
  <2>1. e \in Execution /\ executed \in Seq(Execution) /\ executed' = Append(executed, e)
    BY <1>2, Completed DEF OnceInv
  <2> HIDE DEF e
  <2> QED BY <2>1, OneMore
<1> QED BY <1>1, <1>2, ExecutedGrows

(* A step that completes no message adds nothing that waits. *)
LEMMA WaitingKept ==
  ASSUME [Next]_vars, \A c \in Clients : ~(Receive(c) /\ read[c] + 1 = size[c])
  PROVE  pendingActions' \subseteq pendingActions
<1>1. ASSUME NEW c \in Clients, Connect(c) \/ Closed(c) \/ Deliver(c)
      PROVE  pendingActions' = pendingActions
  BY <1>1 DEF Connect, Closed, Deliver
<1>2. ASSUME NEW c \in Clients, Receive(c)
      PROVE  pendingActions' = pendingActions
  BY <1>2, ReceiveEffect
<1>3. ASSUME NEW p \in pendingActions, PageAnswers(p) \/ AnswersFreedSocket(p)
      PROVE  pendingActions' \subseteq pendingActions
  BY <1>3 DEF PageAnswers, AnswersFreedSocket, Freed
<1>4. ASSUME Exit \/ Boot \/ Tick
      PROVE  pendingActions' \subseteq pendingActions
  BY <1>4 DEF Exit, Boot, Tick, daemon
<1> QED BY <1>1, <1>2, <1>3, <1>4, ClientSteps, StepCases

(* What doAction does for c's completed message, with the response typed.  *)
LEMMA Answered ==
  ASSUME TypeOK, PhaseInv, BufferInv, OnceInv, [Next]_vars, NEW c \in Clients,
         Receive(c), read[c] + 1 = size[c]
  PROVE  \E a \in Clients \cup {NoClient} :
           /\ a # NoClient => /\ a \in Clients /\ startTime[a] \in 0 .. MaxTime
                              /\ startTime[a] # Never
                              /\ Executions(a) = {} /\ Executions(a)' # {}
           /\ \A status \in Status : Reply(a, status) \in Response
           /\ \/ /\ pendingActions' = pendingActions
                 /\ \/ writes' = Sent(c, <<Reply(a, "final")>>)
                    \/ writes' = Sent(c, <<Reply(a, "final"), Reply(a, "final")>>)
              \/ /\ a # NoClient
                 /\ writes' = Sent(c, <<Reply(a, "pending")>>)
                 /\ pendingActions' = pendingActions \cup
                      {[to |-> c, id |-> startTime[a], of |-> a]}
<1>1. DoAction(c, Parts(c)) /\ SocketType
  BY ReceiveEffect, TypeParts DEF Parts
<1>2. executed' = Append(executed, [of |-> Author(Parts(c)), parts |-> Parts(c), to |-> c])
  BY <1>1, DoActionEffect
<1>3. PICK a, e : a = Author(Parts(c)) /\ e = [of |-> a, parts |-> Parts(c), to |-> c]
  OBVIOUS
<1>4. /\ e \in Execution /\ executed \in Seq(Execution)
      /\ a \in Clients \cup {NoClient}
      /\ a # NoClient => /\ a \in Clients /\ startTime[a] \in 0 .. MaxTime
                         /\ startTime[a] # Never /\ Executions(a) = {}
  BY <1>2, <1>3, Completed DEF OnceInv
<1>5. e.of = a /\ executed' = Append(executed, e)
  BY <1>2, <1>3
<1>6. a # NoClient => Executions(a)' # {}
  <2>1. a # NoClient =>
          Executions(a)' = Executions(a) \cup (IF e.of = a THEN {Len(executed) + 1} ELSE {})
    BY <1>4, <1>5, OneMore
  <2> QED BY <2>1, <1>5
<1>7. ASSUME NEW status \in Status
      PROVE  Reply(a, status) \in Response
  BY <1>4 DEF Reply, Response
<1> QED BY <1>1, <1>3, <1>4, <1>6, <1>7, DoActionEffect

(* The actions that wait, well typed. *)
LEMMA PendingTypeStep ==
  ASSUME TypeOK, PhaseInv, BufferInv, OnceInv, [Next]_vars PROVE PendingType'
<1> USE DEF PendingType
<1>0. PendingType
  BY TypeParts
<1>1. crossed' \subseteq Clients
  <2>1. \A c \in Clients : CrossedAfter(c) \subseteq Clients
    BY <1>0, CrossedGrows
  <2>2. CASE \A c \in Clients : ~Receive(c)
    BY <1>0, <2>1, <2>2, OtherSteps
  <2>3. ASSUME NEW c \in Clients, Receive(c)
        PROVE  crossed' \subseteq Clients
    BY <2>1, <2>3, ReceiveEffect
  <2> QED BY <2>2, <2>3
<1>2. CASE \A c \in Clients : ~(Receive(c) /\ read[c] + 1 = size[c])
  BY <1>0, <1>1, <1>2, WaitingKept
<1>3. ASSUME NEW c \in Clients, Receive(c), read[c] + 1 = size[c]
      PROVE  PendingType'
  <2>1. PICK a \in Clients \cup {NoClient} :
          /\ a # NoClient => a \in Clients /\ startTime[a] \in 0 .. MaxTime
          /\ \/ pendingActions' = pendingActions
             \/ /\ a # NoClient
                /\ pendingActions' = pendingActions \cup
                     {[to |-> c, id |-> startTime[a], of |-> a]}
    BY <1>3, Answered
  <2> QED BY <1>0, <1>1, <2>1
<1> QED BY <1>2, <1>3

(* The responses that may be given may still be given after a step. *)
LEMMA GivenGrows ==
  ASSUME TypeOK, PhaseInv, BufferInv, OnceInv, WaitInv, [Next]_vars
  PROVE  Given \subseteq Given'
<1>1. ASSUME NEW c \in Clients, Executions(c) # {}, NEW p \in pendingActions', p.of = c
      PROVE  p \in pendingActions
  <2>1. CASE \A d \in Clients : ~(Receive(d) /\ read[d] + 1 = size[d])
    BY <2>1, WaitingKept
  <2>2. ASSUME NEW d \in Clients, Receive(d), read[d] + 1 = size[d]
        PROVE  p \in pendingActions
    <3>1. PICK a \in Clients \cup {NoClient} :
            /\ a # NoClient => a \in Clients /\ Executions(a) = {}
            /\ \/ pendingActions' = pendingActions
               \/ /\ a # NoClient
                  /\ pendingActions' = pendingActions \cup
                       {[to |-> d, id |-> startTime[a], of |-> a]}
      BY <2>2, Answered
    <3> QED BY <1>1, <3>1
  <2> QED BY <2>1, <2>2
<1>2. ASSUME NEW r \in Given
      PROVE  r \in Given'
  <2>1. r \in Response
    BY DEF Given
  <2>2. CASE r.of = NoClient /\ r.id = Never
    BY <2>1, <2>2 DEF Given
  <2>3. CASE /\ r.of \in Clients /\ r.id = startTime[r.of] /\ r.id # Never
             /\ Executions(r.of) # {}
             /\ r.status = "final" => \A p \in pendingActions : p.of # r.of
    <3> DEFINE c == r.of
    <3>1. startTime'[c] = startTime[c] /\ Executions(c)' # {}
      BY <2>3, StartKept, ExecutionsKept
    <3>2. r.status = "final" => \A p \in pendingActions' : p.of # c
      BY <2>3, <1>1
    <3>3. Executions(r.of)' # {}
      BY <3>1
    <3> QED BY <2>1, <2>3, <3>1, <3>2, <3>3 DEF Given
  <2> QED BY <2>2, <2>3 DEF Given
<1> QED BY <1>2

(* What waits. *)
LEMMA WaitStep ==
  ASSUME TypeOK, PhaseInv, BufferInv, OnceInv, WaitInv, [Next]_vars PROVE WaitInv'
<1>0. pendingActions \subseteq [to : Clients, id : 0 .. MaxTime, of : Clients]
  BY TypeParts DEF PendingType
<1>1. ASSUME NEW p \in pendingActions
      PROVE  p.of \in Clients /\ p.id = startTime'[p.of] /\ p.id # Never
             /\ Executions(p.of)' # {}
  <2>1. p.of \in Clients /\ p.id = startTime[p.of] /\ p.id # Never /\ Executions(p.of) # {}
    BY <1>0, <1>1 DEF WaitInv
  <2> QED BY <2>1, StartKept, ExecutionsKept
<1>2. CASE pendingActions' \subseteq pendingActions
  BY <1>1, <1>2 DEF WaitInv
<1>3. ASSUME NEW c \in Clients, Receive(c), read[c] + 1 = size[c]
      PROVE  WaitInv'
  <2>1. PICK a \in Clients \cup {NoClient} :
          /\ a # NoClient => /\ a \in Clients /\ startTime[a] \in 0 .. MaxTime
                             /\ startTime[a] # Never
                             /\ Executions(a) = {} /\ Executions(a)' # {}
          /\ \/ pendingActions' = pendingActions
             \/ /\ a # NoClient
                /\ pendingActions' = pendingActions \cup
                     {[to |-> c, id |-> startTime[a], of |-> a]}
    BY <1>3, Answered
  <2>2. CASE pendingActions' = pendingActions
    BY <2>2, <1>2
  <2>3. CASE /\ a # NoClient
             /\ pendingActions' = pendingActions \cup
                  {[to |-> c, id |-> startTime[a], of |-> a]}
    <3>1. PICK q : q = [to |-> c, id |-> startTime[a], of |-> a]
      OBVIOUS
    <3>2. q.of = a /\ q.id = startTime'[a] /\ q.id # Never
      BY <3>1, <2>1, <2>3, StartKept
    <3>3. Executions(q.of)' # {}
      BY <3>2, <2>1, <2>3
    <3>4. \A p \in pendingActions : p.of # q.of
      BY <3>2, <2>1, <2>3 DEF WaitInv
    <3>5. pendingActions' = pendingActions \cup {q}
      BY <2>3, <3>1
    <3> QED BY <1>1, <3>2, <3>3, <3>4, <3>5 DEF WaitInv
  <2> QED BY <2>1, <2>2, <2>3
<1> QED BY <1>2, <1>3, WaitingKept

(* A client that takes its answer. *)
LEMMA Taken ==
  ASSUME TypeOK, PhaseInv, RingInv, NEW c \in Clients, ClientReceive(c),
         ~(outcome' = outcome /\ accepted' = accepted)
  PROVE  /\ \A d \in Clients : d # c => outcome'[d] = outcome[d] /\ accepted'[d] = accepted[d]
         /\ [id |-> startTime[c], status |-> "final", of |-> accepted'[c]] \in Given
<1>0. ClientType
  BY TypeParts
<1>1. PICK r : r = Head(inbox[c])
  OBVIOUS
<1>2. /\ r.id = startTime[c] /\ r.status # "pending"
      /\ accepted' = [accepted EXCEPT ![c] = r.of]
      /\ outcome' = [outcome EXCEPT ![c] = "answered"]
  BY <1>1 DEF ClientReceive, Recognizes, Ends, client
<1>3. r \in Given
  BY <1>1, TakenTyped DEF RingInv
<1>4. r \in Response /\ r.status = "final"
  BY <1>2, <1>3 DEF Given, Response, Status
<1>5. r = [id |-> r.id, status |-> r.status, of |-> r.of]
  BY <1>4 DEF Response
<1>6. accepted'[c] = r.of
  BY <1>0, <1>2 DEF ClientType
<1>7. [id |-> startTime[c], status |-> "final", of |-> accepted'[c]] = r
  BY <1>2, <1>4, <1>5, <1>6
<1> QED BY <1>0, <1>2, <1>3, <1>7 DEF ClientType

(* The answers that clients ended with. *)
LEMMA AnswerStep ==
  ASSUME TypeOK, PhaseInv, BufferInv, OnceInv, RingInv, WaitInv, AnswerInv, [Next]_vars
  PROVE  AnswerInv'
<1>0. ClientType
  BY TypeParts
<1>g. Given \subseteq Given'
  BY GivenGrows
<1>k. \A c \in Clients : startTime[c] # Never => startTime'[c] = startTime[c]
  BY StartKept
<1>1. ASSUME NEW c \in Clients, outcome'[c] = "answered", outcome'[c] = outcome[c],
             accepted'[c] = accepted[c]
      PROVE  /\ startTime'[c] # Never
             /\ [id |-> startTime'[c], status |-> "final", of |-> accepted'[c]] \in Given'
  BY <1>g, <1>k, <1>1 DEF AnswerInv
<1>2. ASSUME NEW c \in Clients, ClientReceive(c)
      PROVE  AnswerInv'
  <2>1. CASE outcome' = outcome /\ accepted' = accepted
    BY <2>1, <1>1 DEF AnswerInv
  <2>2. CASE ~(outcome' = outcome /\ accepted' = accepted)
    <3>1. /\ \A d \in Clients : d # c =>
               outcome'[d] = outcome[d] /\ accepted'[d] = accepted[d]
          /\ [id |-> startTime[c], status |-> "final", of |-> accepted'[c]] \in Given
      BY <1>2, <2>2, Taken
    <3>2. startTime[c] # Never
      BY <1>2 DEF ClientReceive, PhaseInv
    <3> QED BY <3>1, <3>2, <1>g, <1>k, <1>1 DEF AnswerInv
  <2> QED BY <2>1, <2>2
<1>3. ASSUME NEW c \in Clients, ConnectionError(c) \/ Timeout(c) \/ ClientClosed(c)
      PROVE  AnswerInv'
  <2>1. /\ accepted' = accepted
        /\ \E how \in {"error", "timeout", "closed"} : outcome' = [outcome EXCEPT ![c] = how]
    BY <1>3 DEF ConnectionError, Timeout, ClientClosed, Ends
  <2>2. \A d \in Clients : outcome'[d] = "answered" => outcome'[d] = outcome[d]
    BY <2>1, <1>0 DEF ClientType
  <2> QED BY <2>1, <2>2, <1>1 DEF AnswerInv
<1>4. CASE outcome' = outcome /\ accepted' = accepted
  BY <1>4, <1>1 DEF AnswerInv
<1>5. ASSUME NEW c \in Clients, NEW k \in Commands, NEW n \in 1 .. MaxParts, Start(c, k, n)
      PROVE  outcome' = outcome /\ accepted' = accepted
  BY <1>5 DEF Start
<1>6. ASSUME NEW c \in Clients, Connect(c) \/ Writeable(c)
      PROVE  outcome' = outcome /\ accepted' = accepted
  BY <1>6 DEF Connect, Writeable
<1>7. ASSUME NEW c \in Clients, Receive(c) \/ Closed(c) \/ Deliver(c)
      PROVE  outcome' = outcome /\ accepted' = accepted
  BY <1>7, DaemonSteps
<1>8. ASSUME \/ \E p \in pendingActions : PageAnswers(p) \/ AnswersFreedSocket(p)
             \/ Exit \/ Boot \/ Tick
      PROVE  outcome' = outcome /\ accepted' = accepted
  BY <1>8 DEF PageAnswers, AnswersFreedSocket, Exit, Boot, Tick, client
<1> QED BY <1>2, <1>3, <1>4, <1>5, <1>6, <1>7, <1>8, StepCases

(* The responses on their way. *)
LEMMA RingStep ==
  ASSUME TypeOK, PhaseInv, BufferInv, OnceInv, RingInv, WaitInv, [Next]_vars
  PROVE  RingInv'
<1>0. ClientType /\ SocketType /\ PendingType
  BY TypeParts
<1>1. PICK S : S = Given'
  OBVIOUS
<1>2. Given \subseteq S
  BY <1>1, GivenGrows
<1>3. inbox \in [Clients -> Seq(S)] /\ writes \in [Descriptors -> Seq(S)]
  <2>1. PICK G : G = Given
    OBVIOUS
  <2>2. Seq(G) \subseteq Seq(S)
    BY <1>2, <2>1, SeqMonotonic
  <2> QED BY <2>1, <2>2 DEF RingInv
<1>4. SUFFICES inbox' \in [Clients -> Seq(S)] /\ writes' \in [Descriptors -> Seq(S)]
  BY <1>1 DEF RingInv
<1> DEFINE Goal == inbox' \in [Clients -> Seq(S)] /\ writes' \in [Descriptors -> Seq(S)]
<1>5. ASSUME NEW c \in Clients, ClientReceive(c)
      PROVE  Goal
  BY <1>3, <1>5, TakenTyped, ClientSteps
<1>6. ASSUME NEW c \in Clients, Deliver(c)
      PROVE  Goal
  <2>1. fd[c] \in Descriptors
    BY <1>6 DEF Deliver, PhaseInv
  <2> QED BY <1>3, <1>6, <2>1, DeliveredTyped
<1>7. ASSUME inbox' = inbox, writes' = writes
      PROVE  Goal
  BY <1>3, <1>7
<1>8. ASSUME inbox' = inbox, writes' = EmptyRing
      PROVE  Goal
  BY <1>3, <1>8, RingTyped
<1>9. ASSUME NEW c \in Clients, NEW k \in Commands, NEW n \in 1 .. MaxParts, Start(c, k, n)
      PROVE  Goal
  BY <1>7, <1>9 DEF Start, daemon
<1>10. ASSUME NEW c \in Clients,
              \/ Connect(c) \/ ConnectionError(c) \/ Writeable(c)
              \/ Timeout(c) \/ ClientClosed(c) \/ Closed(c)
       PROVE  Goal
  <2>1. inbox' = inbox /\ writes' = writes
    BY <1>10 DEF Connect, ConnectionError, Writeable, Timeout, ClientClosed, Closed, Ends,
       daemon
  <2> QED BY <2>1, <1>7
<1>11. ASSUME Boot \/ Tick
       PROVE  Goal
  <2>1. inbox' = inbox /\ writes' = writes
    BY <1>11 DEF Boot, Tick, daemon
  <2> QED BY <2>1, <1>7
<1>12. ASSUME Exit
       PROVE  Goal
  BY <1>8, <1>12 DEF Exit
<1>13. ASSUME NEW c \in Clients, Receive(c), read[c] + 1 # size[c]
       PROVE  Goal
  BY <1>7, <1>13, ReceiveEffect
<1>14. ASSUME NEW c \in Clients, Receive(c), read[c] + 1 = size[c]
       PROVE  Goal
  <2>1. PICK a \in Clients \cup {NoClient} :
          /\ a # NoClient => /\ a \in Clients /\ startTime[a] \in 0 .. MaxTime
                             /\ startTime[a] # Never
                             /\ Executions(a) = {} /\ Executions(a)' # {}
          /\ \A status \in Status : Reply(a, status) \in Response
          /\ \/ /\ pendingActions' = pendingActions
                /\ \/ writes' = Sent(c, <<Reply(a, "final")>>)
                   \/ writes' = Sent(c, <<Reply(a, "final"), Reply(a, "final")>>)
             \/ /\ a # NoClient
                /\ writes' = Sent(c, <<Reply(a, "pending")>>)
                /\ pendingActions' = pendingActions \cup
                     {[to |-> c, id |-> startTime[a], of |-> a]}
    BY <1>14, Answered
  <2>2. fd[c] \in Descriptors /\ inbox' = inbox
    BY <1>14, ReceiveEffect DEF PhaseInv
  <2>3. a # NoClient => startTime'[a] = startTime[a]
    BY <2>1, StartKept
  <2>4. ASSUME NEW status \in Status,
               status = "final" => pendingActions' = pendingActions
        PROVE  Reply(a, status) \in S
    <3>1. Reply(a, status) \in Response
      BY <2>1
    <3>2. PICK r : r = Reply(a, status)
      OBVIOUS
    <3>3. /\ r.of = a /\ r.status = status
          /\ r.id = IF a = NoClient THEN Never ELSE startTime[a]
      BY <3>2 DEF Reply
    <3>4. CASE a = NoClient
      BY <1>1, <3>1, <3>2, <3>3, <3>4 DEF Given
    <3>5. CASE a # NoClient
      <4>1. r.id = startTime'[r.of] /\ r.id # Never /\ r.of \in Clients
        BY <3>3, <3>5, <2>1, <2>3
      <4>2. Executions(r.of)' # {}
        BY <3>3, <3>5, <2>1
      <4>3. r.status = "final" => \A p \in pendingActions' : p.of # r.of
        BY <3>3, <3>5, <2>1, <2>4 DEF WaitInv
      <4> QED BY <1>1, <3>1, <3>2, <4>1, <4>2, <4>3 DEF Given
    <3> QED BY <3>4, <3>5
  <2>5. \A r \in S : <<r>> \in Seq(S) /\ <<r, r>> \in Seq(S)
    BY RingTyped
  <2>6. CASE pendingActions' = pendingActions
    <3>1. \A status \in Status : Reply(a, status) \in S
      BY <2>4, <2>6
    <3>2. \E rs \in Seq(S) : writes' = Sent(c, rs)
      BY <3>1, <2>1, <2>5 DEF Status
    <3>3. writes' \in [Descriptors -> Seq(S)]
      <4>1. PICK rs \in Seq(S) : writes' = Sent(c, rs)
        BY <3>2
      <4>2. Sent(c, rs) \in [Descriptors -> Seq(S)]
        BY <2>2, <1>3, SentTyped
      <4> QED BY <4>1, <4>2
    <3> QED BY <3>3, <2>2, <1>3
  <2>7. CASE writes' = Sent(c, <<Reply(a, "pending")>>)
    <3>1. Reply(a, "pending") \in S
      BY <2>4 DEF Status
    <3>2. \E rs \in Seq(S) : writes' = Sent(c, rs)
      BY <3>1, <2>7, <2>5
    <3>3. writes' \in [Descriptors -> Seq(S)]
      <4>1. PICK rs \in Seq(S) : writes' = Sent(c, rs)
        BY <3>2
      <4>2. Sent(c, rs) \in [Descriptors -> Seq(S)]
        BY <2>2, <1>3, SentTyped
      <4> QED BY <4>1, <4>2
    <3> QED BY <3>3, <2>2, <1>3
  <2> QED BY <2>1, <2>6, <2>7
<1>15. ASSUME NEW p \in pendingActions, pendingActions' = pendingActions \ {p},
              startTime' = startTime
       PROVE  Final(p) \in S
  <2>1. p \in [to : Clients, id : 0 .. MaxTime, of : Clients]
    BY <1>0 DEF PendingType
  <2>2. Final(p) \in Response
    BY <2>1 DEF Final, Response, Status
  <2>3. p.id = startTime'[p.of] /\ p.id # Never /\ p.of \in Clients
    BY <2>1, <1>15 DEF WaitInv
  <2>4. Executions(p.of) # {}
    BY DEF WaitInv
  <2>5. Executions(p.of)' # {}
    BY <2>3, <2>4, ExecutionsKept
  <2>6. \A q \in pendingActions' : q.of # p.of
    BY <1>15 DEF WaitInv
  <2>7. PICK r : r = Final(p)
    OBVIOUS
  <2>8. r.of = p.of /\ r.id = p.id
    BY <2>7 DEF Final
  <2>9. Executions(r.of)' # {}
    BY <2>5, <2>8
  <2> QED BY <1>1, <2>2, <2>3, <2>6, <2>7, <2>8, <2>9 DEF Given
<1>16. ASSUME NEW p \in pendingActions, PageAnswers(p)
       PROVE  Goal
  <2>1. Final(p) \in S /\ inbox' = inbox /\ writes' = Sent(p.to, <<Final(p)>>)
    BY <1>15, <1>16 DEF PageAnswers, Freed, client
  <2>2. p.to \in open /\ p.to \in Clients
    BY <1>0, <1>16 DEF PageAnswers, PendingType
  <2>3. fd[p.to] \in Descriptors
    BY <2>2 DEF PhaseInv
  <2>4. <<Final(p)>> \in Seq(S)
    BY <2>1, RingTyped
  <2> QED BY <2>1, <2>2, <2>3, <2>4, <1>3, SentTyped
<1>17. ASSUME NEW p \in pendingActions, AnswersFreedSocket(p)
       PROVE  Goal
  <2>1. inbox' = inbox
    BY <1>17 DEF AnswersFreedSocket
  <2>2. \/ writes' \in {writes, EmptyRing}
        \/ /\ \E d \in Descriptors : writes' = [writes EXCEPT ![d] = Append(@, Final(p))]
           /\ pendingActions' = pendingActions \ {p} /\ startTime' = startTime
    BY <1>17 DEF AnswersFreedSocket, Freed, client
  <2>3. CASE writes' \in {writes, EmptyRing}
    BY <2>1, <2>3, <1>7, <1>8
  <2>4. CASE /\ \E d \in Descriptors : writes' = [writes EXCEPT ![d] = Append(@, Final(p))]
             /\ pendingActions' = pendingActions \ {p} /\ startTime' = startTime
    <3>1. Final(p) \in S
      BY <2>4, <1>15
    <3> QED BY <2>1, <2>4, <3>1, <1>3, StrayTyped
  <2> QED BY <2>2, <2>3, <2>4
<1> HIDE DEF Goal
<1>18. Goal
  BY <1>5, <1>6, <1>7, <1>9, <1>10, <1>11, <1>12, <1>13, <1>14, <1>16, <1>17, StepCases
<1> QED BY <1>18 DEF Goal

(* The responses are well typed, as those that may be given are. *)
LEMMA RepliesTyped == ASSUME RingInv PROVE ReplyType
<1>1. PICK G : G = Given
  OBVIOUS
<1>2. G \subseteq Response
  BY <1>1 DEF Given
<1>3. PICK R : R = Response
  OBVIOUS
<1>4. Seq(G) \subseteq Seq(R)
  BY <1>2, <1>3, SeqMonotonic
<1> QED BY <1>1, <1>3, <1>4 DEF RingInv, ReplyType

-----------------------------------------------------------------------------
(* The invariant. *)

(* It holds when the daemon starts. *)
LEMMA InitSession == Init => SessionIInv
<1> SUFFICES ASSUME Init PROVE SessionIInv
  OBVIOUS
<1>1. ClientType
  BY BoundsAssumption DEF Init, ClientType, CommandKinds
<1>2. SocketType /\ PendingType
  BY DEF Init, SocketType, PendingType
<1>3. ReadType
  <2>1. inputResponse \in Seq(Part)
    BY DEF Init
  <2> QED BY <2>1, BoundsAssumption DEF Init, ReadType
<1>4. RingInv
  BY RingTyped DEF Init, RingInv
<1>5. ReplyType
  BY <1>4, RepliesTyped
<1>6. PhaseInv /\ WaitInv /\ AnswerInv
  BY DEF Init, PhaseInv, WaitInv, AnswerInv
<1>7. \A c \in Clients : ~UnderWay(c) /\ Executions(c) = {} /\ read[c] # size[c]
  BY DEF Init, UnderWay, Executions
<1>8. BufferInv /\ WholeInv
  BY <1>7 DEF Init, BufferInv, WholeInv
<1>9. OnceInv
  <2>1. executed \in Seq(Execution) /\ DOMAIN executed = {}
    BY DEF Init
  <2> QED BY <2>1 DEF OnceInv
<1> QED BY <1>1, <1>2, <1>3, <1>4, <1>5, <1>6, <1>8, <1>9, TypeParts DEF SessionIInv

(* Every step keeps it. *)
LEMMA StepSession == SessionIInv /\ [Next]_vars => SessionIInv'
<1> SUFFICES ASSUME SessionIInv, [Next]_vars PROVE SessionIInv'
  OBVIOUS
<1>1. /\ TypeOK /\ PhaseInv /\ BufferInv /\ OnceInv /\ WholeInv
      /\ RingInv /\ WaitInv /\ AnswerInv
  BY DEF SessionIInv
<1>2. PhaseInv' /\ BufferInv' /\ OnceInv' /\ WholeInv'
  BY <1>1, PhaseStep, BufferStep, OnceStep, WholeStep
<1>3. RingInv' /\ WaitInv' /\ AnswerInv'
  BY <1>1, RingStep, WaitStep, AnswerStep
<1>4. ReplyType'
  BY <1>3, RepliesTyped, PTL
<1>5. ClientType' /\ SocketType' /\ ReadType' /\ PendingType'
  BY <1>1, ClientTypeStep, SocketTypeStep, ReadTypeStep, PendingTypeStep
<1>6. TypeOK'
  BY <1>4, <1>5, TypeParts, PTL
<1> QED BY <1>2, <1>3, <1>6 DEF SessionIInv

(* The invariant holds always. *)
THEOREM SessionIInvAlways == Spec => []SessionIInv
BY InitSession, StepSession, PTL DEF Spec

(* A client's message is executed at most once. *)
LEMMA OneExecution ==
  ASSUME OnceInv, NEW c \in Clients, Executions(c) # {}
  PROVE  Cardinality(Executions(c)) = 1
<1>1. PICK i \in Executions(c) : TRUE
  OBVIOUS
<1>2. Executions(c) = {i}
  BY <1>1, ClientsAssumption DEF OnceInv, Executions
<1> QED BY <1>2, FS_Singleton

(* One buffer is shared by all of the API's clients; still, a command that *)
(* met no other's parts and no close while it was received is executed as  *)
(* it was sent, once, and answered to its client, for any number of        *)
(* clients and parts.                                                      *)
THEOREM CommandsWholeAlways == Spec => []CommandsWhole
<1>1. SessionIInv => CommandsWhole
  <2> SUFFICES ASSUME SessionIInv PROVE CommandsWhole
    OBVIOUS
  <2>1. TypeOK /\ OnceInv /\ WholeInv
    BY DEF SessionIInv
  <2>2. ASSUME NEW c \in Clients \ crossed
        PROVE  Cardinality(Executions(c)) = IF read[c] = size[c] THEN 1 ELSE 0
    <3>1. CASE read[c] = size[c]
      BY <2>1, <3>1, OneExecution DEF WholeInv
    <3>2. CASE read[c] # size[c]
      <4>1. Executions(c) = {}
        BY <2>1, <3>2 DEF WholeInv
      <4> QED BY <3>2, <4>1, FS_EmptySet
    <3> QED BY <3>1, <3>2
  <2> QED BY <2>1, <2>2 DEF CommandsWhole, WholeUnlessCrossed, WholeInv
<1> QED BY <1>1, SessionIInvAlways, PTL

(* The answer of a client that started in a second of its own: to its own  *)
(* request, which was executed and waits no longer.                        *)
LEMMA OwnAnswer ==
  ASSUME SessionIInv, NEW c \in Clients, outcome[c] = "answered", Twins(c) = {}
  PROVE  /\ accepted[c] = c /\ Executions(c) # {}
         /\ \A p \in pendingActions : p.of # c
<1>1. PICK r : r = [id |-> startTime[c], status |-> "final", of |-> accepted[c]]
  OBVIOUS
<1>2. r \in Given /\ startTime[c] # Never
  BY <1>1 DEF SessionIInv, AnswerInv
<1>3. r.id = startTime[c] /\ r.of = accepted[c] /\ r.status = "final"
  BY <1>1
<1>4. /\ r.of \in Clients /\ startTime[r.of] = startTime[c]
      /\ Executions(r.of) # {} /\ \A p \in pendingActions : p.of # r.of
  BY <1>2, <1>3 DEF Given
<1>5. r.of = c
  BY <1>4 DEF Twins
<1> QED BY <1>3, <1>4, <1>5

(* Descriptors are used again, the ring is not cleared, pending answers    *)
(* outlive their clients and parts are mixed up; still, mmcom ends with    *)
(* the answer to its own command, which was executed once, unless another  *)
(* was started in the same second.                                         *)
THEOREM AnswerIsToOwnCommandAlways == Spec => []AnswerIsToOwnCommand
<1>1. SessionIInv => AnswerIsToOwnCommand
  <2> SUFFICES ASSUME SessionIInv, NEW c \in Clients,
                      outcome[c] = "answered", Twins(c) = {}
               PROVE  accepted[c] = c /\ Cardinality(Executions(c)) = 1
    BY DEF AnswerIsToOwnCommand
  <2>1. OnceInv
    BY DEF SessionIInv
  <2> QED BY <2>1, OwnAnswer, OneExecution
<1> QED BY <1>1, SessionIInvAlways, PTL

(* A request that waits with a freed socket is one that the client that    *)
(* sent it did not get the answer to.                                      *)
THEOREM FreedSocketOnlyIfLeftAlways == Spec => []FreedSocketOnlyIfLeft
<1>1. SessionIInv => FreedSocketOnlyIfLeft
  <2> SUFFICES ASSUME SessionIInv, NEW p \in pendingActions,
                      Twins(p.of) = {}, outcome[p.of] = "answered"
               PROVE  FALSE
    BY DEF FreedSocketOnlyIfLeft
  <2>1. p.of \in Clients
    BY DEF SessionIInv, TypeOK
  <2> QED BY <2>1, OwnAnswer
<1> QED BY <1>1, SessionIInvAlways, PTL
====

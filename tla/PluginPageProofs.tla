-------------------------- MODULE PluginPageProofs --------------------------
(* Theorems about PluginPage, for every number of clients, programs,       *)
(* attributes, values and slots.                                           *)
EXTENDS PluginPage, SequenceTheorems, FiniteSetTheorems, TLAPS

(* What may be on the way to a client. *)
PageMessages ==
  {Message("load", None, None), Message("command", None, None)}
    \cup {SetCSS(a, v) : a \in Attrs, v \in Values \cup {Blank}}

(* The commands and messages on the way. *)
WireTypes ==
  /\ toDisplay \in Seq({"load", "unload"})
  /\ toPage \in [Clients -> Seq(PageMessages)]

Types == TypeOK /\ WireTypes

(* Without the mishaps that let a second one in, or the plugin forget the  *)
(* first, whoever is connected is the one the plugin knows.                *)
KnownInv ==
  /\ Unless({"overlap", "reload"}) => \A c \in Clients : Connected(c) => current = c
  /\ Unless({"externals", "reload"}) => \A e \in extOpen : extern = e

(* The plugin's CSS has what the file has, or is nothing. *)
StoreInv ==
  /\ hasStore => \A a \in Attrs : saved[a] # None => store[a] # None
  /\ ~hasStore => store = NoStyle

(* Only a client that is connected has confirmed a load. *)
LoadedInv == Unless({"overlap"}) /\ loaded => \E c \in Clients : Connected(c)

Sets(msg, a) == msg.kind = "setcss" /\ msg.attr = a

(* The last of the messages q about a sets it to v, or there is none and a *)
(* page with the style s shows v already.                                  *)
EndsWith(q, s, a, v) ==
  \/ \E i \in DOMAIN q : q[i] = SetCSS(a, v) /\ \A j \in DOMAIN q : Sets(q[j], a) => j <= i
  \/ s[a] = v /\ \A j \in DOMAIN q : ~Sets(q[j], a)

(* The page of a plugin that is loaded shows the stored CSS, or will once  *)
(* it has received what is on the way.                                     *)
StyleInv ==
  current # None /\ loaded /\ Unless({"overlap", "overflow"}) =>
    \A a \in Attrs \ blanked :
      store[a] # None => EndsWith(toPage[current], style[current], a, store[a])

(* Everything the sockets, the CSS and the page rest on. *)
PageIInv == Types /\ SocketsValid /\ KnownInv /\ StoreInv /\ LoadedInv /\ StyleInv

-----------------------------------------------------------------------------
(* SetToSeq lists each element of a finite set once. *)
LEMMA SetToSeqLists ==
  ASSUME NEW S, IsFiniteSet(S)
  PROVE  LET q == SetToSeq(S) IN
           /\ q \in Seq(S) /\ Len(q) = Cardinality(S) /\ DOMAIN q = 1 .. Len(q)
           /\ \A i, j \in DOMAIN q : q[i] = q[j] => i = j
           /\ \A x \in S : \E i \in DOMAIN q : q[i] = x
<1> DEFINE n == Cardinality(S)
           Lists(f) == f \in [1 .. n -> S] /\ IsInjective(f)
           q == SetToSeq(S)
<1>1. n \in Nat /\ ExistsBijection(1 .. n, S)
  BY FS_CardinalityType
<1>2. \E f : Lists(f)
  BY <1>1 DEF ExistsBijection, Bijection, Injection, IsInjective
<1>3. q = CHOOSE f : Lists(f)
  BY DEF SetToSeq
<1>4. Lists(q)
  BY <1>2, <1>3
<1>5. q \in Seq(S) /\ Len(q) = n /\ DOMAIN q = 1 .. Len(q)
  BY <1>1, <1>4
<1>6. \A i, j \in DOMAIN q : q[i] = q[j] => i = j
  BY <1>4 DEF IsInjective
<1>7. q \in Injection(1 .. n, S)
  BY <1>4 DEF Injection, IsInjective
<1>8. IsFiniteSet(1 .. n) /\ Cardinality(1 .. n) = n
  BY <1>1, FS_Interval
<1>9. q \in Surjection(1 .. n, S)
  BY <1>7, <1>8, FS_Injection
<1>10. QED
  BY <1>5, <1>6, <1>9 DEF Surjection

(* The stored CSS goes out once for each attribute that is set. *)
LEMMA SavedStyleSends ==
  ASSUME Types
  PROVE  /\ SavedStyle \in Seq(PageMessages)
         /\ \A a \in Attrs : store[a] # None =>
              \E i \in DOMAIN SavedStyle :
                /\ SavedStyle[i] = SetCSS(a, store[a])
                /\ \A j \in DOMAIN SavedStyle : Sets(SavedStyle[j], a) => j = i
<1> DEFINE S == {a \in Attrs : store[a] # None}
           q == SetToSeq(S)
<1>1. IsFiniteSet(S)
  BY PageAssumption, FS_Subset
<1>2. /\ q \in Seq(S) /\ DOMAIN q = 1 .. Len(q)
      /\ \A i, j \in DOMAIN q : q[i] = q[j] => i = j
      /\ \A x \in S : \E i \in DOMAIN q : q[i] = x
  BY <1>1, SetToSeqLists
<1>3. SavedStyle = [i \in DOMAIN q |-> SetCSS(q[i], store[q[i]])]
  BY DEF SavedStyle
<1> HIDE DEF q
<1>4. \A i \in DOMAIN q : q[i] \in S
  BY <1>2
<1>5. \A i \in DOMAIN q : SetCSS(q[i], store[q[i]]) \in PageMessages
  BY <1>4 DEF Types, TypeOK, PageMessages
<1>6. Len(q) \in Nat
  BY <1>2
<1>7. SavedStyle \in Seq(PageMessages) /\ DOMAIN SavedStyle = DOMAIN q
  BY <1>2, <1>3, <1>5, <1>6
<1>8. ASSUME NEW a \in Attrs, store[a] # None
      PROVE  \E i \in DOMAIN SavedStyle :
                /\ SavedStyle[i] = SetCSS(a, store[a])
                /\ \A j \in DOMAIN SavedStyle : Sets(SavedStyle[j], a) => j = i
  <2>1. PICK i \in DOMAIN q : q[i] = a
    BY <1>2, <1>8
  <2>2. SavedStyle[i] = SetCSS(a, store[a])
    BY <1>3, <2>1
  <2>3. \A j \in DOMAIN SavedStyle : SavedStyle[j].attr = q[j]
    BY <1>3, <1>7 DEF SetCSS, Message
  <2>4. QED
    BY <1>2, <1>7, <2>1, <2>2, <2>3 DEF Sets
<1>9. QED
  BY <1>7, <1>8

(* Queueing keeps the types, disturbs no other client, and loses nothing   *)
(* unless it overflows.                                                    *)
LEMMA QueuedEffect ==
  ASSUME Types, NEW s \in Clients \cup {None}, NEW msgs \in Seq(PageMessages)
  PROVE  /\ Queued(s, msgs) \in [Clients -> Seq(PageMessages)]
         /\ \A c \in Clients : Len(Queued(s, msgs)[c]) <= Slots
         /\ \A c \in Clients : c # s => Queued(s, msgs)[c] = toPage[c]
         /\ s # None /\ ~Overflows(s, msgs) => Queued(s, msgs)[s] = toPage[s] \o msgs
<1>1. /\ toPage \in [Clients -> Seq(PageMessages)] /\ Slots \in Nat /\ Slots > 0
      /\ \A c \in Clients : Len(toPage[c]) <= Slots
  BY PageAssumption DEF Types, TypeOK, WireTypes
<1>2. CASE s = None
  BY <1>1, <1>2, PageAssumption DEF Queued
<1>3. CASE s # None
  <2> DEFINE all == toPage[s] \o msgs
             m == 1 + (IF Len(all) > Slots THEN Len(all) - Slots ELSE 0)
             new == SubSeq(all, m, Len(all))
  <2>1. s \in Clients /\ toPage[s] \in Seq(PageMessages)
    BY <1>1, <1>3
  <2>2. all \in Seq(PageMessages) /\ Len(all) = Len(toPage[s]) + Len(msgs) /\ Len(all) \in Nat
    BY <2>1, ConcatProperties, LenProperties
  <2>3. m \in Nat /\ 1 <= m /\ Len(all) - m + 1 <= Slots
    BY <1>1, <2>2
  <2>4. \A i \in m .. Len(all) : all[i] \in PageMessages
    BY <2>2, <2>3, ElementOfSeq
  <2> HIDE DEF all
  <2>5. new \in Seq(PageMessages) /\ Len(new) <= Slots
    <3>1. /\ new \in Seq(PageMessages)
          /\ Len(new) = IF m <= Len(all) THEN Len(all) - m + 1 ELSE 0
      <4> HIDE DEF m
      <4>1. QED
        BY <2>2, <2>3, <2>4, SubSeqProperties
    <3> HIDE DEF m, new
    <3>2. QED
      BY <1>1, <2>2, <2>3, <3>1
  <2>6. Len(all) <= Slots => new = all
    <3>1. SubSeq(all, 1, Len(all)) = all
      BY <2>2, SubSeqFull
    <3>2. Len(all) <= Slots => m = 1
      BY <1>1, <2>2
    <3> HIDE DEF m
    <3>3. QED
      BY <3>1, <3>2
  <2>7. Queued(s, msgs) = [toPage EXCEPT ![s] = new]
    BY <1>3 DEF Queued, all
  <2>8. ~Overflows(s, msgs) => Len(all) <= Slots
    BY <1>1, <1>3, <2>1, <2>2 DEF Overflows
  <2> HIDE DEF new, m
  <2>9. QED
    BY <1>1, <2>1, <2>5, <2>6, <2>7, <2>8 DEF all
<1>4. QED
  BY <1>2, <1>3

-----------------------------------------------------------------------------
(* Types. *)

(* The single messages of the plugin. *)
LEMMA MessageTypes ==
  /\ LoadMessages \in Seq(PageMessages)
  /\ <<Message("command", None, None)>> \in Seq(PageMessages)
  /\ \A a \in Attrs, v \in Values \cup {Blank} : <<SetCSS(a, v)>> \in Seq(PageMessages)
  /\ NoStyle \in [Attrs -> Values \cup {None}]
  BY DEF LoadMessages, PageMessages, NoStyle

(* The types of the plugin and its CSS, of the display window, of the      *)
(* clients, of what is on the way to them, and of the rest.                *)
PluginPart ==
  /\ {enabled, loaded, hasStore} \subseteq BOOLEAN
  /\ current \in Clients \cup {None} /\ extern \in Externs \cup {None}
  /\ store \in [Attrs -> Values \cup {None}] /\ saved \in [Attrs -> Values \cup {None}]
  /\ blanked \subseteq Attrs
DisplayPart ==
  /\ window \in BOOLEAN /\ listed \in Clients \cup {None}
  /\ toDisplay \in Seq({"load", "unload"})
ClientPart ==
  /\ socket \in [Clients -> {"gone", "connecting", "open", "closing"}]
  /\ page \in [Clients -> {"blank", "loading", "shown"}]
  /\ style \in [Clients -> [Attrs -> Values \cup {None}]]
  /\ reports \in [Clients -> BOOLEAN]
PathPart ==
  /\ toPage \in [Clients -> Seq(PageMessages)]
  /\ \A c \in Clients : Len(toPage[c]) <= Slots
OtherPart ==
  /\ crashed \in BOOLEAN /\ extOpen \subseteq Externs /\ mishaps \subseteq Mishaps
  /\ calls \in Nat /\ calls <= MaxCalls

LEMMA TypeParts ==
  Types <=> PluginPart /\ DisplayPart /\ ClientPart /\ PathPart /\ OtherPart
<1>1. toDisplay \in Seq({"load", "unload"}) =>
        \A i \in DOMAIN toDisplay : toDisplay[i] \in {"load", "unload"}
  BY LenProperties, ElementOfSeq
<1>2. calls \in Nat /\ calls <= MaxCalls <=> calls \in 0 .. MaxCalls
  BY PageAssumption
<1>3. QED
  BY <1>1, <1>2 DEF Types, TypeOK, WireTypes, PluginPart, DisplayPart, ClientPart, PathPart,
     OtherPart

(* The commands to the display. *)
LEMMA ToldTypes ==
  ASSUME Types
  PROVE  /\ toDisplay \in Seq({"load", "unload"})
         /\ Told("load") \in Seq({"load", "unload"})
         /\ Told("unload") \in Seq({"load", "unload"})
         /\ toDisplay \o <<"unload", "load">> \in Seq({"load", "unload"})
         /\ <<"load">> \in Seq({"load", "unload"}) /\ <<>> \in Seq({"load", "unload"})
         /\ toDisplay # <<>> => Tail(toDisplay) \in Seq({"load", "unload"})
<1> DEFINE C == {"load", "unload"}
<1>1. toDisplay \in Seq(C) /\ <<"unload", "load">> \in Seq(C)
  BY DEF Types, WireTypes
<1>2. toDisplay \o <<"unload", "load">> \in Seq(C)
  BY <1>1, ConcatProperties
<1>3. toDisplay # <<>> => Tail(toDisplay) \in Seq(C)
  BY <1>1, HeadTailProperties
<1>4. QED
  BY <1>1, <1>2, <1>3 DEF Told

(* The clock of the bound and the mishaps. *)
LEMMA OtherTypes ==
  ASSUME Types
  PROVE  /\ CallOnce => calls' \in Nat /\ calls' <= MaxCalls
         /\ \A m \in Mishaps, b \in BOOLEAN : With(m, b) \subseteq Mishaps
<1>1. MaxCalls \in Nat
  BY PageAssumption
<1>2. CallOnce => calls' \in Nat /\ calls' <= MaxCalls
  BY <1>1, TypeParts DEF CallOnce, OtherPart
<1>3. \A m \in Mishaps, b \in BOOLEAN : With(m, b) \subseteq Mishaps
  BY TypeParts DEF With, OtherPart
<1>4. QED
  BY <1>2, <1>3

(* Every step keeps the types. *)
LEMMA TypesStep == Types /\ [Next]_vars => Types'
<1> SUFFICES ASSUME Types, [Next]_vars PROVE Types'
  OBVIOUS
<1> DEFINE AllParts == PluginPart /\ DisplayPart /\ ClientPart /\ PathPart /\ OtherPart
<1>1. AllParts
  BY TypeParts
<1>2. ASSUME AllParts' PROVE Types'
  BY <1>2, TypeParts, PTL
<1>3. CASE UNCHANGED vars
  <2>1. /\ UNCHANGED plugin /\ UNCHANGED css /\ UNCHANGED display /\ UNCHANGED clients
        /\ UNCHANGED <<crashed, extOpen, mishaps, calls>>
    BY <1>3 DEF vars
  <2>2. PluginPart'
    BY <1>1, <2>1 DEF plugin, css, PluginPart
  <2>3. DisplayPart' /\ ClientPart' /\ PathPart' /\ OtherPart'
    BY <1>1, <2>1 DEF display, clients, DisplayPart, ClientPart, PathPart, OtherPart
  <2>4. QED
    BY <1>2, <2>2, <2>3
<1>4. CASE Enable
  <2>1. PluginPart'
    BY <1>1, <1>4 DEF Enable, PluginPart, plugin, css, display, clients
  <2>2. DisplayPart'
    BY <1>1, <1>4, ToldTypes DEF Enable, DisplayPart, plugin, css, display, clients
  <2>3. OtherPart'
    BY <1>1, <1>4, OtherTypes DEF Enable, OtherPart, plugin, css, display, clients
  <2>4. ClientPart' /\ PathPart'
    BY <1>1, <1>4 DEF Enable, plugin, css, display, clients, ClientPart, PathPart
  <2>5. QED
    BY <1>2, <2>1, <2>2, <2>3, <2>4
<1>5. CASE Disable
  <2>1. PluginPart'
    BY <1>1, <1>5 DEF Disable, PluginPart, plugin, css, display, clients
  <2>2. DisplayPart'
    BY <1>1, <1>5, ToldTypes DEF Disable, DisplayPart, plugin, css, display, clients
  <2>3. OtherPart'
    BY <1>1, <1>5, OtherTypes DEF Disable, OtherPart, plugin, css, display, clients
  <2>4. ClientPart' /\ PathPart'
    BY <1>1, <1>5 DEF Disable, plugin, css, display, clients, ClientPart, PathPart
  <2>5. QED
    BY <1>2, <2>1, <2>2, <2>3, <2>4
<1>6. CASE Reload
  <2>1. PluginPart'
    BY <1>1, <1>6, MessageTypes DEF Reload, PluginPart, plugin, css, display, clients
  <2>2. DisplayPart'
    BY <1>1, <1>6, ToldTypes DEF Reload, DisplayPart, plugin, css, display, clients
  <2>3. OtherPart'
    BY <1>1, <1>6, OtherTypes DEF Reload, With, Mishaps, OtherPart, plugin, css, display, clients
  <2>4. ClientPart' /\ PathPart'
    BY <1>1, <1>6 DEF Reload, plugin, css, display, clients, ClientPart, PathPart
  <2>5. QED
    BY <1>2, <2>1, <2>2, <2>3, <2>4
<1>7. ASSUME NEW a \in Attrs, NEW v \in Values \cup {Blank}, CallSetCSS(a, v) PROVE AllParts'
  <2>1. current \in Clients \cup {None} /\ <<SetCSS(a, v)>> \in Seq(PageMessages)
    BY <1>1, MessageTypes DEF PluginPart
  <2>2. /\ Queued(current, <<SetCSS(a, v)>>) \in [Clients -> Seq(PageMessages)]
        /\ \A d \in Clients : Len(Queued(current, <<SetCSS(a, v)>>)[d]) <= Slots
    BY <2>1, QueuedEffect
  <2>3. PluginPart'
    BY <1>1, <1>7 DEF CallSetCSS, Stored, PluginPart, plugin, css, display, clients
  <2>4. PathPart'
    BY <1>1, <1>7, <2>2 DEF CallSetCSS, PathPart, plugin, css, display, clients
  <2>5. OtherPart'
    BY <1>1, <1>7, OtherTypes DEF CallSetCSS, With, Mishaps, OtherPart, plugin, css, display,
       clients
  <2>6. DisplayPart' /\ ClientPart'
    BY <1>1, <1>7 DEF CallSetCSS, plugin, css, display, clients, DisplayPart, ClientPart
  <2>7. QED
    BY <2>3, <2>4, <2>5, <2>6
<1>8. CASE CallSaveCSS
  <2>1. PluginPart'
    BY <1>1, <1>8 DEF CallSaveCSS, PluginPart, plugin, css, display, clients
  <2>2. OtherPart'
    BY <1>1, <1>8, OtherTypes DEF CallSaveCSS, OtherPart, plugin, css, display, clients
  <2>3. DisplayPart' /\ ClientPart' /\ PathPart'
    BY <1>1, <1>8 DEF CallSaveCSS, plugin, css, display, clients, DisplayPart, ClientPart,
       PathPart
  <2>4. QED
    BY <1>2, <2>1, <2>2, <2>3
<1>9. CASE WindowOpens
  <2>1. DisplayPart'
    BY <1>1, <1>9, ToldTypes DEF WindowOpens, DisplayPart, plugin, css, display, clients
  <2>2. OtherPart'
    BY <1>1, <1>9, OtherTypes DEF WindowOpens, OtherPart, plugin, css, display, clients
  <2>3. PluginPart' /\ ClientPart' /\ PathPart'
    BY <1>1, <1>9 DEF WindowOpens, plugin, css, display, clients, PluginPart, ClientPart, PathPart
  <2>4. QED
    BY <1>2, <2>1, <2>2, <2>3
<1>10. CASE WindowCloses
  <2>1. DisplayPart'
    BY <1>1, <1>10, ToldTypes DEF WindowCloses, DisplayPart, plugin, css, display, clients
  <2>2. ClientPart'
    BY <1>1, <1>10 DEF WindowCloses, ClosedByBrowser, ClientPart, plugin, css, display, clients
  <2>3. OtherPart'
    BY <1>1, <1>10, OtherTypes DEF WindowCloses, OtherPart, plugin, css, display, clients
  <2>4. PluginPart' /\ PathPart'
    BY <1>1, <1>10 DEF WindowCloses, plugin, css, display, clients, PluginPart, PathPart
  <2>5. QED
    BY <1>2, <2>1, <2>2, <2>3, <2>4
<1>11. CASE NoticeDisconnect
  <2>1. PluginPart'
    BY <1>1, <1>11 DEF NoticeDisconnect, PluginPart, plugin, css, display, clients
  <2>2. DisplayPart' /\ ClientPart' /\ PathPart' /\ OtherPart'
    BY <1>1, <1>11 DEF NoticeDisconnect, plugin, css, display, clients, DisplayPart, ClientPart,
       PathPart, OtherPart
  <2>3. QED
    BY <1>2, <2>1, <2>2
<1>12. CASE DisplayLoads
  <2>1. DisplayPart'
    BY <1>1, <1>12, ToldTypes DEF DisplayLoads, DisplayPart, plugin, css, display, clients
  <2>2. ClientPart'
    BY <1>1, <1>12, MessageTypes DEF DisplayLoads, ClientPart, plugin, css, display, clients
  <2>3. PathPart'
    BY <1>1, <1>12, PageAssumption DEF DisplayLoads, PathPart, plugin, css, display, clients
  <2>4. PluginPart' /\ OtherPart'
    BY <1>1, <1>12 DEF DisplayLoads, plugin, css, display, clients, PluginPart, OtherPart
  <2>5. QED
    BY <1>2, <2>1, <2>2, <2>3, <2>4
<1>13. CASE DisplayUnloads
  <2>1. DisplayPart'
    BY <1>1, <1>13, ToldTypes DEF DisplayUnloads, DisplayPart, plugin, css, display, clients
  <2>2. ClientPart'
    BY <1>1, <1>13 DEF DisplayUnloads, ClosedByBrowser, ClientPart, plugin, css, display, clients
  <2>3. PluginPart' /\ PathPart' /\ OtherPart'
    BY <1>1, <1>13 DEF DisplayUnloads, plugin, css, display, clients, PluginPart, PathPart,
       OtherPart
  <2>4. QED
    BY <1>2, <2>1, <2>2, <2>3
<1>14. ASSUME NEW c \in Clients, Established(c) PROVE AllParts'
  <2> DEFINE msgs == IF current = None /\ ~loaded /\ enabled THEN LoadMessages ELSE <<>>
  <2>1. msgs \in Seq(PageMessages)
    BY MessageTypes
  <2> HIDE DEF msgs
  <2>2. /\ Queued(c, msgs) \in [Clients -> Seq(PageMessages)]
        /\ \A d \in Clients : Len(Queued(c, msgs)[d]) <= Slots
    BY <2>1, QueuedEffect
  <2>3. toPage' = Queued(c, msgs)
    BY <1>14 DEF Established, msgs
  <2>4. PluginPart'
    BY <1>1, <1>14 DEF Established, CurrentAfter, PluginPart, plugin, css, display, clients
  <2>5. ClientPart'
    BY <1>1, <1>14 DEF Established, ClientPart, plugin, css, display, clients
  <2>6. PathPart'
    BY <1>1, <1>14, <2>2, <2>3 DEF Established, PathPart, plugin, css, display, clients
  <2>7. OtherPart'
    BY <1>1, <1>14, OtherTypes DEF Established, With, Mishaps, OtherPart, plugin, css, display,
       clients
  <2>8. DisplayPart'
    BY <1>1, <1>14 DEF Established, plugin, css, display, clients, DisplayPart
  <2>9. QED
    BY <2>4, <2>5, <2>6, <2>7, <2>8
<1>15. ASSUME NEW c \in Clients, ReceiveLoaded(c) PROVE AllParts'
  <2>1. current \in Clients \cup {None} /\ SavedStyle \in Seq(PageMessages)
    BY <1>1, SavedStyleSends DEF PluginPart
  <2>2. /\ Queued(current, SavedStyle) \in [Clients -> Seq(PageMessages)]
        /\ \A d \in Clients : Len(Queued(current, SavedStyle)[d]) <= Slots
    BY <2>1, QueuedEffect
  <2>3. PluginPart'
    BY <1>1, <1>15 DEF ReceiveLoaded, PluginPart, plugin, css, display, clients
  <2>4. ClientPart'
    BY <1>1, <1>15 DEF ReceiveLoaded, ClientPart, plugin, css, display, clients
  <2>5. PathPart'
    BY <1>1, <1>15, <2>2 DEF ReceiveLoaded, PathPart, plugin, css, display, clients
  <2>6. OtherPart'
    BY <1>1, <1>15, OtherTypes DEF ReceiveLoaded, With, Mishaps, OtherPart, plugin, css, display,
       clients
  <2>7. DisplayPart'
    BY <1>1, <1>15 DEF ReceiveLoaded, plugin, css, display, clients, DisplayPart
  <2>8. QED
    BY <2>3, <2>4, <2>5, <2>6, <2>7
<1>16. ASSUME NEW c \in Clients, Closed(c) PROVE AllParts'
  <2>1. PluginPart'
    BY <1>1, <1>16 DEF Closed, LoadedAfterClose, CurrentAfterClose, PluginPart, plugin, css,
       display, clients
  <2>2. ClientPart'
    BY <1>1, <1>16 DEF Closed, ClientPart, plugin, css, display, clients
  <2>3. PathPart'
    BY <1>1, <1>16, PageAssumption DEF Closed, PluginPart, PathPart, plugin, css, display, clients
  <2>4. OtherPart'
    BY <1>1, <1>16 DEF Closed, OtherPart, plugin, css, display, clients
  <2>5. DisplayPart'
    BY <1>1, <1>16 DEF Closed, plugin, css, display, clients, DisplayPart
  <2>6. QED
    BY <2>1, <2>2, <2>3, <2>4, <2>5
<1>17. ASSUME NEW c \in Clients, Drop(c) PROVE AllParts'
  <2>1. ClientPart'
    BY <1>1, <1>17 DEF Drop, ClientPart, plugin, css, display, clients
  <2>2. OtherPart'
    BY <1>1, <1>17, OtherTypes DEF Drop, With, Mishaps, OtherPart, plugin, css, display, clients
  <2>3. PluginPart' /\ DisplayPart' /\ PathPart'
    BY <1>1, <1>17 DEF Drop, plugin, css, display, clients, PluginPart, DisplayPart, PathPart
  <2>4. QED
    BY <2>1, <2>2, <2>3
<1>18. ASSUME NEW c \in Clients, Receives(c) PROVE AllParts'
  <2>1. /\ toPage[c] \in Seq(PageMessages) /\ toPage[c] # <<>> /\ toPage[c][1] \in PageMessages
        /\ Tail(toPage[c]) \in Seq(PageMessages) /\ Len(Tail(toPage[c])) = Len(toPage[c]) - 1
    BY <1>1, <1>18, HeadTailProperties DEF Receives, PathPart
  <2>2. toPage[c][1].kind = "setcss" => /\ toPage[c][1].attr \in Attrs
                                        /\ toPage[c][1].value \in Values \cup {Blank}
    BY <2>1 DEF PageMessages, SetCSS, Message
  <2>3. Len(toPage[c]) - 1 <= Slots
    BY <1>1, <2>1, PageAssumption DEF PathPart
  <2>4. ClientPart'
    BY <1>1, <1>18, <2>2 DEF Receives, ClientPart, plugin, css, display, clients
  <2>5. PathPart'
    BY <1>1, <1>18, <2>1, <2>3 DEF Receives, PathPart, plugin, css, display, clients
  <2>6. PluginPart' /\ DisplayPart' /\ OtherPart'
    BY <1>1, <1>18 DEF Receives, plugin, css, display, clients, PluginPart, DisplayPart, OtherPart
  <2>7. QED
    BY <2>4, <2>5, <2>6
<1>19. ASSUME NEW c \in Clients, DoneLoad(c) PROVE AllParts'
  <2>1. ClientPart'
    BY <1>1, <1>19 DEF DoneLoad, ClientPart, plugin, css, display, clients
  <2>2. PluginPart' /\ DisplayPart' /\ PathPart' /\ OtherPart'
    BY <1>1, <1>19 DEF DoneLoad, plugin, css, display, clients, PluginPart, DisplayPart, PathPart,
       OtherPart
  <2>3. QED
    BY <2>1, <2>2
<1>20. ASSUME NEW e \in Externs, ExternEstablished(e) PROVE AllParts'
  <2>1. PluginPart'
    BY <1>1, <1>20 DEF ExternEstablished, PluginPart, plugin, css, display, clients
  <2>2. OtherPart'
    BY <1>1, <1>20, OtherTypes DEF ExternEstablished, With, Mishaps, OtherPart, plugin, css,
       display, clients
  <2>3. DisplayPart' /\ ClientPart' /\ PathPart'
    BY <1>1, <1>20 DEF ExternEstablished, plugin, css, display, clients, DisplayPart, ClientPart,
       PathPart
  <2>4. QED
    BY <2>1, <2>2, <2>3
<1>21. ASSUME NEW e \in Externs, ExternReceive(e) PROVE AllParts'
  <2>1. current \in Clients \cup {None} /\ <<Message("command", None, None)>> \in Seq(PageMessages)
    BY <1>1, MessageTypes DEF PluginPart
  <2>2. /\ Queued(current, <<Message("command", None, None)>>) \in [Clients -> Seq(PageMessages)]
        /\ \A d \in Clients : Len(Queued(current, <<Message("command", None, None)>>)[d]) <= Slots
    BY <2>1, QueuedEffect
  <2>3. PathPart'
    BY <1>1, <1>21, <2>2 DEF ExternReceive, PathPart, plugin, css, display, clients
  <2>4. OtherPart'
    BY <1>1, <1>21, OtherTypes DEF ExternReceive, With, Mishaps, OtherPart, plugin, css, display,
       clients
  <2>5. PluginPart' /\ DisplayPart' /\ ClientPart'
    BY <1>1, <1>21 DEF ExternReceive, plugin, css, display, clients, PluginPart, DisplayPart,
       ClientPart
  <2>6. QED
    BY <2>3, <2>4, <2>5
<1>22. ASSUME NEW e \in Externs, ExternClosed(e) PROVE AllParts'
  <2>1. PluginPart'
    BY <1>1, <1>22 DEF ExternClosed, ExternAfterClose, PluginPart, plugin, css, display, clients
  <2>2. OtherPart'
    BY <1>1, <1>22 DEF ExternClosed, OtherPart, plugin, css, display, clients
  <2>3. DisplayPart' /\ ClientPart' /\ PathPart'
    BY <1>1, <1>22 DEF ExternClosed, plugin, css, display, clients, DisplayPart, ClientPart,
       PathPart
  <2>4. QED
    BY <2>1, <2>2, <2>3
<1>23. QED
  BY <1>2, <1>3, <1>4, <1>5, <1>6, <1>7, <1>8, <1>9, <1>10, <1>11, <1>12, <1>13, <1>14, <1>15,
     <1>16, <1>17, <1>18, <1>19, <1>20, <1>21, <1>22 DEF Next, Operator, ClientStep

-----------------------------------------------------------------------------
(* The sockets. *)

(* Steps that connect and disconnect no one. *)
LEMMA SocketsFrame ==
  ASSUME Types, SocketsValid, KnownInv, UNCHANGED <<current, extern, extOpen, crashed>>,
         \A c \in Clients : Connected(c)' <=> Connected(c), mishaps \subseteq mishaps'
  PROVE  SocketsValid' /\ KnownInv'
<1>1. \A X : Unless(X)' => Unless(X)
  BY DEF Unless
<1>2. KnownInv'
  BY <1>1 DEF KnownInv
<1>3. current' # None => Connected(current)'
  BY DEF SocketsValid, Connected, Types, TypeOK
<1>4. QED
  BY <1>1, <1>2, <1>3 DEF SocketsValid

(* The plugin holds only sockets that are there, and knows the only one.   *)
LEMMA SocketsStep == Types /\ SocketsValid /\ KnownInv /\ [Next]_vars => SocketsValid' /\ KnownInv'
<1> SUFFICES ASSUME Types, SocketsValid, KnownInv, [Next]_vars
             PROVE  SocketsValid' /\ KnownInv'
  OBVIOUS
<1>1. /\ current \in Clients \cup {None} /\ None \notin Clients /\ None \notin Externs
      /\ DOMAIN socket = Clients /\ None \notin extOpen /\ extOpen \subseteq Externs
  BY PageAssumption DEF Types, TypeOK
<1> DEFINE Same == /\ UNCHANGED <<current, extern, extOpen, crashed>>
                   /\ \A c \in Clients : Connected(c)' <=> Connected(c)
                   /\ mishaps \subseteq mishaps'
<1>2. Same => SocketsValid' /\ KnownInv'
  BY SocketsFrame
<1>3. CASE UNCHANGED vars
  BY <1>2, <1>3 DEF vars, plugin, clients, Connected
<1>4. CASE Enable
  BY <1>2, <1>4 DEF Enable, clients, Connected
<1>5. CASE Disable
  BY <1>2, <1>5 DEF Disable, clients, Connected
<1>6. CASE Reload
  <2>1. /\ current' = None /\ extern' = None /\ UNCHANGED <<socket, extOpen, crashed>>
        /\ mishaps \subseteq mishaps'
        /\ extOpen # {} \/ (\E c \in Clients : Connected(c)) => "reload" \in mishaps'
    BY <1>6 DEF Reload, With, clients
  <2>2. QED
    BY <2>1 DEF SocketsValid, KnownInv, Unless, Connected
<1>7. ASSUME NEW a \in Attrs, NEW v \in Values \cup {Blank}, CallSetCSS(a, v)
      PROVE  SocketsValid' /\ KnownInv'
  BY <1>2, <1>7 DEF CallSetCSS, plugin, With, Connected
<1>8. CASE CallSaveCSS
  BY <1>2, <1>8 DEF CallSaveCSS, plugin, clients, Connected
<1>9. CASE WindowOpens
  BY <1>2, <1>9 DEF WindowOpens, plugin, clients, Connected
<1>10. CASE WindowCloses
  BY <1>1, <1>2, <1>10 DEF WindowCloses, plugin, Connected, ClosedByBrowser
<1>11. CASE NoticeDisconnect
  BY <1>2, <1>11 DEF NoticeDisconnect, clients, Connected
<1>12. CASE DisplayLoads
  BY <1>2, <1>12 DEF DisplayLoads, plugin, Connected
<1>13. CASE DisplayUnloads
  BY <1>2, <1>13 DEF DisplayUnloads, plugin, clients, Connected, ClosedByBrowser
<1>14. ASSUME NEW c \in Clients, Established(c) PROVE SocketsValid' /\ KnownInv'
  <2>1. /\ socket[c] = "connecting" /\ socket' = [socket EXCEPT ![c] = "open"]
        /\ current' = IF current = None THEN c ELSE current
        /\ UNCHANGED <<extern, extOpen, crashed>> /\ mishaps \subseteq mishaps'
        /\ (\E d \in Clients : Connected(d)) => "overlap" \in mishaps'
    BY <1>14 DEF Established, CurrentAfter, With
  <2>2. \A d \in Clients : Connected(d)' <=> d = c \/ Connected(d)
    BY <1>1, <2>1 DEF Connected
  <2>3. current' \in Clients /\ Connected(current)'
    BY <1>1, <2>1 DEF SocketsValid, Connected
  <2>4. \A X : Unless(X)' => Unless(X)
    BY <2>1 DEF Unless
  <2>5. SocketsValid'
    BY <2>1, <2>3, <2>4 DEF SocketsValid
  <2>6. Unless({"overlap", "reload"})' => \A d \in Clients : ~Connected(d)
    BY <2>1 DEF Unless
  <2>7. (\A d \in Clients : ~Connected(d)) => current' = c
    BY <1>1, <2>1 DEF SocketsValid
  <2>8. Unless({"overlap", "reload"})' => \A d \in Clients : Connected(d)' => current' = d
    BY <2>2, <2>6, <2>7
  <2>9. QED
    BY <2>1, <2>4, <2>5, <2>8 DEF KnownInv
<1>15. ASSUME NEW c \in Clients, ReceiveLoaded(c) PROVE SocketsValid' /\ KnownInv'
  BY <1>2, <1>15 DEF ReceiveLoaded, With, Connected
<1>16. ASSUME NEW c \in Clients, Closed(c), ~crashed PROVE SocketsValid' /\ KnownInv'
  <2>1. /\ socket[c] = "closing" /\ socket' = [socket EXCEPT ![c] = "gone"]
        /\ current' = None /\ crashed' = (current = None)
        /\ UNCHANGED <<extern, extOpen, mishaps>>
    BY <1>16 DEF Closed, CurrentAfterClose
  <2>2. Connected(c) /\ \A d \in Clients : Connected(d)' <=> d # c /\ Connected(d)
    BY <1>1, <2>1 DEF Connected
  <2>3. \A X : Unless(X)' <=> Unless(X)
    BY <2>1 DEF Unless
  <2>4. Unless({"overlap", "externals", "reload"}) => Unless({"overlap", "reload"})
    BY DEF Unless
  <2>5. crashed' => ~Unless({"overlap", "externals", "reload"})
    BY <1>1, <2>1, <2>2, <2>4 DEF KnownInv
  <2>6. SocketsValid'
    BY <2>1, <2>3, <2>5 DEF SocketsValid
  <2>7. Unless({"overlap", "reload"}) => \A d \in Clients : ~Connected(d)'
    BY <2>2 DEF KnownInv
  <2>8. QED
    BY <2>1, <2>3, <2>6, <2>7 DEF KnownInv
<1>17. ASSUME NEW c \in Clients, Drop(c) PROVE SocketsValid' /\ KnownInv'
  BY <1>1, <1>2, <1>17 DEF Drop, plugin, With, Connected
<1>18. ASSUME NEW c \in Clients, Receives(c) PROVE SocketsValid' /\ KnownInv'
  BY <1>2, <1>18 DEF Receives, plugin, Connected
<1>19. ASSUME NEW c \in Clients, DoneLoad(c) PROVE SocketsValid' /\ KnownInv'
  BY <1>2, <1>19 DEF DoneLoad, plugin, Connected
<1>20. ASSUME NEW e \in Externs, ExternEstablished(e) PROVE SocketsValid' /\ KnownInv'
  <2>1. /\ extOpen' = extOpen \cup {e} /\ extern' = e /\ UNCHANGED <<current, socket, crashed>>
        /\ mishaps \subseteq mishaps'
        /\ extOpen # {} => "externals" \in mishaps'
    BY <1>20 DEF ExternEstablished, With, clients
  <2>2. (\A X : Unless(X)' => Unless(X)) /\ \A c : Connected(c)' <=> Connected(c)
    BY <2>1 DEF Unless, Connected
  <2>3. Unless({"externals", "reload"})' => extOpen = {}
    BY <2>1 DEF Unless
  <2>4. current' # None => Connected(current)'
    BY <2>1 DEF SocketsValid, Connected
  <2>5. QED
    BY <2>1, <2>2, <2>3, <2>4 DEF SocketsValid, KnownInv
<1>21. ASSUME NEW e \in Externs, ExternReceive(e) PROVE SocketsValid' /\ KnownInv'
  BY <1>2, <1>21 DEF ExternReceive, plugin, With, Connected
<1>22. ASSUME NEW e \in Externs, ExternClosed(e), ~crashed PROVE SocketsValid' /\ KnownInv'
  <2>1. /\ e \in extOpen /\ extOpen' = extOpen \ {e} /\ extern' = None
        /\ crashed' = (extern = None) /\ UNCHANGED <<current, socket, mishaps>>
    BY <1>22 DEF ExternClosed, ExternAfterClose, clients
  <2>2. (\A X : Unless(X)' <=> Unless(X)) /\ \A c : Connected(c)' <=> Connected(c)
    BY <2>1 DEF Unless, Connected
  <2>3. Unless({"overlap", "externals", "reload"}) => Unless({"externals", "reload"})
    BY DEF Unless
  <2>4. crashed' => ~Unless({"overlap", "externals", "reload"})
    BY <1>1, <2>1, <2>3 DEF KnownInv
  <2>5. current' # None => Connected(current)'
    BY <2>1 DEF SocketsValid, Connected
  <2>6. QED
    BY <1>1, <2>1, <2>2, <2>4, <2>5 DEF SocketsValid, KnownInv
<1>23. QED
  BY <1>3, <1>4, <1>5, <1>6, <1>7, <1>8, <1>9, <1>10, <1>11, <1>12, <1>13, <1>14, <1>15, <1>16,
     <1>17, <1>18, <1>19, <1>20, <1>21, <1>22 DEF Next, Operator, ClientStep

(* The program starts well typed. *)
LEMMA TypesInit == ASSUME Init PROVE Types
<1>1. PluginPart
  BY DEF Init, PluginPart, LoadedCSS
<1>2. DisplayPart
  BY ToldTypes, EmptySeq DEF Init, DisplayPart
<1>3. ClientPart
  BY MessageTypes DEF Init, ClientPart
<1>4. PathPart
  <2>1. toPage = [c \in Clients |-> <<>>] /\ Slots \in Nat
    BY PageAssumption DEF Init
  <2>2. QED
    BY <2>1 DEF PathPart
<1>5. OtherPart
  <2>1. calls \in Nat /\ calls <= MaxCalls
    BY PageAssumption DEF Init
  <2>2. QED
    BY <2>1 DEF Init, OtherPart
<1>6. QED
  BY <1>1, <1>2, <1>3, <1>4, <1>5, TypeParts

(* The plugin holds no socket that was freed, and follows NULL only after  *)
(* an overlap or a reload under a connection.                              *)
THEOREM SocketsSoundAlways == Spec => []SocketsSound
<1>1. Init => Types /\ SocketsValid /\ KnownInv
  BY TypesInit DEF Init, SocketsValid, KnownInv, Connected
<1>2. Types /\ SocketsValid /\ KnownInv /\ [Next]_vars => (Types /\ SocketsValid /\ KnownInv)'
  BY TypesStep, SocketsStep
<1>3. Types /\ SocketsValid => SocketsSound
  BY DEF Types, SocketsSound
<1>4. QED
  BY <1>1, <1>2, <1>3, PTL DEF Spec

-----------------------------------------------------------------------------
(* The CSS. *)

(* What is appended decides, or is about something else. *)
LEMMA EndsAppend ==
  ASSUME NEW q \in Seq(PageMessages), NEW r \in Seq(PageMessages), NEW s, NEW a, NEW v
  PROVE  /\ (\A j \in DOMAIN r : ~Sets(r[j], a)) /\ EndsWith(q, s, a, v)
              => EndsWith(q \o r, s, a, v)
         /\ (\E i \in DOMAIN r : r[i] = SetCSS(a, v) /\ \A j \in DOMAIN r : Sets(r[j], a) => j = i)
              => EndsWith(q \o r, s, a, v)
<1> DEFINE c == q \o r
<1>1. /\ Len(q) \in Nat /\ Len(r) \in Nat
      /\ DOMAIN q = 1 .. Len(q) /\ DOMAIN r = 1 .. Len(r)
  BY LenProperties
<1>2. /\ c \in Seq(PageMessages) /\ DOMAIN c = 1 .. Len(q) + Len(r)
      /\ \A i \in 1 .. Len(q) + Len(r) : c[i] = IF i <= Len(q) THEN q[i] ELSE r[i - Len(q)]
  BY <1>1, ConcatProperties, LenProperties
<1> HIDE DEF c
<1>3. \A i \in DOMAIN q : i \in DOMAIN c /\ c[i] = q[i]
  BY <1>1, <1>2
<1>4. \A i \in DOMAIN r : i + Len(q) \in DOMAIN c /\ c[i + Len(q)] = r[i]
  BY <1>1, <1>2
<1>5. \A j \in DOMAIN c : \/ j \in DOMAIN q /\ c[j] = q[j]
                          \/ j > Len(q) /\ j - Len(q) \in DOMAIN r /\ c[j] = r[j - Len(q)]
  BY <1>1, <1>2
<1>6. ASSUME \A j \in DOMAIN r : ~Sets(r[j], a), EndsWith(q, s, a, v)
      PROVE  EndsWith(c, s, a, v)
  <2>1. \A j \in DOMAIN c : Sets(c[j], a) => j \in DOMAIN q /\ Sets(q[j], a)
    BY <1>5, <1>6
  <2>2. QED
    BY <1>3, <1>6, <2>1 DEF EndsWith
<1>7. ASSUME NEW i \in DOMAIN r, r[i] = SetCSS(a, v),
             \A j \in DOMAIN r : Sets(r[j], a) => j = i
      PROVE  EndsWith(c, s, a, v)
  <2>1. i + Len(q) \in DOMAIN c /\ c[i + Len(q)] = SetCSS(a, v)
    BY <1>4, <1>7
  <2>2. \A j \in DOMAIN c : Sets(c[j], a) => j <= i + Len(q)
    <3> SUFFICES ASSUME NEW j \in DOMAIN c, Sets(c[j], a) PROVE j <= i + Len(q)
      OBVIOUS
    <3>1. CASE j \in DOMAIN q
      BY <1>1, <3>1
    <3>2. CASE j > Len(q) /\ j - Len(q) \in DOMAIN r /\ c[j] = r[j - Len(q)]
      <4>1. j - Len(q) = i /\ j \in Int
        BY <1>2, <1>7, <3>2
      <4>2. QED
        BY <1>1, <4>1
    <3>3. QED
      BY <1>5, <3>1, <3>2
  <2>3. QED
    BY <2>1, <2>2 DEF EndsWith
<1>8. QED
  BY <1>6, <1>7 DEF c

(* Receiving the first message keeps where the messages end. *)
LEMMA EndsReceive ==
  ASSUME NEW q \in Seq(PageMessages), q # <<>>, NEW s \in [Attrs -> Values \cup {None}],
         NEW a \in Attrs, NEW v \in Values, EndsWith(q, s, a, v)
  PROVE  LET t == IF q[1].kind = "setcss"
                    THEN [s EXCEPT ![q[1].attr] = IF q[1].value = Blank THEN None ELSE q[1].value]
                    ELSE s
         IN EndsWith(Tail(q), t, a, v)
<1> DEFINE t == IF q[1].kind = "setcss"
                  THEN [s EXCEPT ![q[1].attr] = IF q[1].value = Blank THEN None ELSE q[1].value]
                  ELSE s
           r == Tail(q)
<1>1. /\ Len(q) \in Nat /\ Len(q) > 0 /\ DOMAIN q = 1 .. Len(q)
      /\ r \in Seq(PageMessages) /\ DOMAIN r = 1 .. Len(q) - 1
      /\ \A i \in 1 .. Len(q) - 1 : r[i] = q[i + 1]
  BY HeadTailProperties, LenProperties, EmptySeq
<1>2. v # Blank
  BY PageAssumption
<1>3. ~Sets(q[1], a) => t[a] = s[a]
  BY DEF Sets
<1>4. q[1] = SetCSS(a, v) => t[a] = v /\ Sets(q[1], a)
  BY <1>2 DEF Sets, SetCSS, Message
<1> HIDE DEF t, r
<1>5. \A j \in DOMAIN r : j + 1 \in DOMAIN q /\ r[j] = q[j + 1] /\ j \in Int
  BY <1>1
<1>6. 1 \in DOMAIN q
  BY <1>1
<1>7. ASSUME s[a] = v, \A j \in DOMAIN q : ~Sets(q[j], a) PROVE EndsWith(r, t, a, v)
  <2>1. \A j \in DOMAIN r : ~Sets(r[j], a)
    BY <1>5, <1>7
  <2>2. ~Sets(q[1], a)
    BY <1>6, <1>7
  <2>3. t[a] = v
    BY <1>3, <1>7, <2>2
  <2>4. QED
    BY <2>1, <2>3 DEF EndsWith
<1>8. ASSUME NEW i \in DOMAIN q, q[i] = SetCSS(a, v), \A j \in DOMAIN q : Sets(q[j], a) => j <= i
      PROVE  EndsWith(r, t, a, v)
  <2>1. CASE i = 1
    <3>1. \A j \in DOMAIN r : ~Sets(r[j], a)
      BY <1>5, <1>8, <2>1
    <3>2. QED
      BY <1>4, <1>8, <2>1, <3>1 DEF EndsWith
  <2>2. CASE i # 1
    <3>1. i - 1 \in DOMAIN r /\ r[i - 1] = SetCSS(a, v) /\ i \in Int
      BY <1>1, <1>8, <2>2
    <3>2. \A j \in DOMAIN r : Sets(r[j], a) => j + 1 <= i
      BY <1>5, <1>8
    <3>3. \A j \in DOMAIN r : Sets(r[j], a) => j <= i - 1
      BY <1>5, <3>1, <3>2
    <3>4. QED
      BY <3>1, <3>3 DEF EndsWith
  <2>3. QED
    BY <2>1, <2>2
<1>9. QED
  BY <1>7, <1>8 DEF EndsWith, t, r

(* What is in the file stays in the plugin's CSS, as long as it has one.   *)
LEMMA StoreStep == Types /\ StoreInv /\ [Next]_vars => StoreInv'
<1> SUFFICES ASSUME Types, StoreInv, [Next]_vars PROVE StoreInv'
  OBVIOUS
<1>1. UNCHANGED css => StoreInv'
  BY DEF css, StoreInv, NoStyle
<1>2. CASE Reload
  BY <1>2 DEF Reload, StoreInv, NoStyle
<1>3. ASSUME NEW a \in Attrs, NEW v \in Values \cup {Blank}, CallSetCSS(a, v) PROVE StoreInv'
  <2>1. /\ store \in [Attrs -> Values \cup {None}] /\ None # v
        /\ store' = Stored(a, v) /\ UNCHANGED <<hasStore, saved>>
    BY <1>3, PageAssumption DEF CallSetCSS, Types, TypeOK
  <2>2. QED
    BY <2>1 DEF Stored, StoreInv, NoStyle
<1>4. CASE CallSaveCSS
  BY <1>4 DEF CallSaveCSS, StoreInv, NoStyle
<1>5. QED
  BY <1>1, <1>2, <1>3, <1>4 DEF Next, Operator, ClientStep, vars, css, Enable, Disable,
     WindowOpens, WindowCloses, NoticeDisconnect, DisplayLoads, DisplayUnloads, Established,
     ReceiveLoaded, Closed, Drop, Receives, DoneLoad, ExternEstablished, ExternReceive,
     ExternClosed

-----------------------------------------------------------------------------
(* What a page shows is stored. *)

(* The messages that set nothing the plugin's CSS does not have.           *)
KeptMessages ==
  {m \in PageMessages : \A a \in Attrs : Sets(m, a) /\ m.value # Blank => store[a] # None}

(* While the plugin has its CSS, it has what any page shows or is to show. *)
ShownInv ==
  hasStore =>
    /\ \A c \in Clients, a \in Attrs : style[c][a] # None => store[a] # None
    /\ toPage \in [Clients -> Seq(KeptMessages)]

(* A sequence over a set is one over a larger set. *)
LEMMA SeqGrows ==
  ASSUME NEW K, NEW L, K \subseteq L, NEW f \in [Clients -> Seq(K)]
  PROVE  f \in [Clients -> Seq(L)]
<1>1. ASSUME NEW q \in Seq(K) PROVE q \in Seq(L)
  BY <1>1, ElementOfSeq, LenProperties, IsASeq
<1>2. QED
  BY <1>1

(* Queueing sends nothing but what waited and what is queued.              *)
LEMMA QueuedKeeps ==
  ASSUME NEW K, toPage \in [Clients -> Seq(K)], NEW msgs \in Seq(K),
         NEW s \in Clients \cup {None}
  PROVE  Queued(s, msgs) \in [Clients -> Seq(K)]
<1>1. Slots \in Nat /\ None \notin Clients
  BY PageAssumption
<1>2. CASE s = None
  BY <1>2 DEF Queued
<1>3. CASE s # None
  <2> DEFINE all == toPage[s] \o msgs
             m == 1 + (IF Len(all) > Slots THEN Len(all) - Slots ELSE 0)
             new == SubSeq(all, m, Len(all))
  <2>1. all \in Seq(K) /\ Len(all) \in Nat
    BY <1>3, ConcatProperties, LenProperties
  <2>2. Queued(s, msgs) = [toPage EXCEPT ![s] = new]
    BY <1>3 DEF Queued
  <2> HIDE DEF all
  <2>3. m \in Nat /\ 1 <= m
    BY <1>1, <2>1
  <2>4. \A i \in m .. Len(all) : all[i] \in K
    BY <2>1, <2>3, ElementOfSeq
  <2> HIDE DEF m
  <2>5. new \in Seq(K)
    BY <2>1, <2>3, <2>4, SubSeqProperties
  <2> HIDE DEF new
  <2>6. QED
    BY <1>3, <2>2, <2>5
<1>4. QED
  BY <1>2, <1>3

(* The first set of messages to come is kept. *)
LEMMA SentIsKept ==
  ASSUME Types
  PROVE  /\ LoadMessages \in Seq(KeptMessages)
         /\ <<Message("command", None, None)>> \in Seq(KeptMessages)
         /\ SavedStyle \in Seq(KeptMessages)
<1>1. LoadMessages \in Seq(KeptMessages)
  BY DEF LoadMessages, KeptMessages, PageMessages, Sets, Message
<1>2. <<Message("command", None, None)>> \in Seq(KeptMessages)
  BY DEF KeptMessages, PageMessages, Sets, Message
<1>3. SavedStyle \in Seq(KeptMessages)
  <2> DEFINE S == {a \in Attrs : store[a] # None}
             q == SetToSeq(S)
  <2>1. IsFiniteSet(S)
    BY PageAssumption, FS_Subset
  <2>2. q \in Seq(S) /\ DOMAIN q = 1 .. Len(q)
    BY <2>1, SetToSeqLists
  <2>3. SavedStyle = [i \in DOMAIN q |-> SetCSS(q[i], store[q[i]])]
    BY DEF SavedStyle
  <2> HIDE DEF q
  <2>4. \A i \in DOMAIN q : q[i] \in S
    BY <2>2
  <2>5. \A i \in DOMAIN q : SetCSS(q[i], store[q[i]]) \in KeptMessages
    BY <2>4 DEF Types, TypeOK, PageMessages, KeptMessages, Sets, SetCSS, Message
  <2>6. Len(q) \in Nat
    BY <2>2
  <2>7. QED
    BY <2>2, <2>3, <2>5, <2>6
<1>4. QED
  BY <1>1, <1>2, <1>3

(* Every step keeps that what a page shows or is to show is stored.        *)
LEMMA ShownStep == Types /\ StoreInv /\ ShownInv /\ [Next]_vars => ShownInv'
<1> SUFFICES ASSUME Types, StoreInv, ShownInv, [Next]_vars PROVE ShownInv'
  OBVIOUS
<1>1. /\ current \in Clients \cup {None} /\ None \notin Clients \cup Values
      /\ toPage \in [Clients -> Seq(PageMessages)]
      /\ style \in [Clients -> [Attrs -> Values \cup {None}]]
      /\ store \in [Attrs -> Values \cup {None}]
  BY PageAssumption DEF Types, TypeOK, WireTypes
<1>2. hasStore => /\ \A c \in Clients, a \in Attrs : style[c][a] # None => store[a] # None
                  /\ toPage \in [Clients -> Seq(KeptMessages)]
  BY DEF ShownInv
<1>3. store' = store => KeptMessages' = KeptMessages
  BY DEF KeptMessages
<1>4. ASSUME UNCHANGED <<store, hasStore, style, toPage>> PROVE ShownInv'
  BY <1>2, <1>3, <1>4 DEF ShownInv
<1>5. ASSUME UNCHANGED <<store, hasStore, style>>, NEW s \in Clients \cup {None},
             NEW msgs, toPage' = Queued(s, msgs), msgs \in Seq(KeptMessages)
      PROVE  ShownInv'
  BY <1>2, <1>3, <1>5, QueuedKeeps DEF ShownInv
<1>6. CASE Reload
  BY <1>6 DEF Reload, ShownInv
<1>7. ASSUME NEW b \in Attrs, NEW v \in Values \cup {Blank}, CallSetCSS(b, v) PROVE ShownInv'
  <2> SUFFICES ASSUME hasStore PROVE ShownInv'
    BY <1>7 DEF CallSetCSS, ShownInv
  <2>1. /\ UNCHANGED <<hasStore, style>> /\ toPage' = Queued(current, <<SetCSS(b, v)>>)
        /\ store' = IF v = Blank THEN store ELSE [store EXCEPT ![b] = v]
    BY <1>7 DEF CallSetCSS, Stored
  <2>2. \A a \in Attrs : store[a] # None => store'[a] # None
    BY <1>1, <2>1
  <2>3. KeptMessages \subseteq KeptMessages'
    BY <2>2 DEF KeptMessages
  <2>4. toPage \in [Clients -> Seq(KeptMessages')]
    BY <1>2, <2>3, SeqGrows
  <2>5. SetCSS(b, v) \in KeptMessages'
    <3>1. SetCSS(b, v) \in PageMessages
      BY DEF PageMessages
    <3>2. /\ SetCSS(b, v).attr = b /\ SetCSS(b, v).value = v
          /\ v # Blank => store'[b] # None
      BY <1>1, <2>1 DEF SetCSS, Message
    <3>3. ASSUME NEW a \in Attrs, Sets(SetCSS(b, v), a), SetCSS(b, v).value # Blank
          PROVE  store'[a] # None
      BY <3>2, <3>3 DEF Sets
    <3>4. QED
      BY <3>1, <3>3 DEF KeptMessages
  <2>6. toPage' \in [Clients -> Seq(KeptMessages')]
    <3>1. <<SetCSS(b, v)>> \in Seq(KeptMessages')
      BY <2>5
    <3>2. Queued(current, <<SetCSS(b, v)>>) \in [Clients -> Seq(KeptMessages')]
      BY <1>1, <2>4, <3>1, QueuedKeeps
    <3>3. QED
      BY <2>1, <3>2
  <2>7. QED
    BY <1>2, <2>1, <2>2, <2>6 DEF ShownInv
<1>8. CASE DisplayLoads
  <2>1. PICK c \in Clients : /\ toPage' = [toPage EXCEPT ![c] = <<>>]
                             /\ style' = [style EXCEPT ![c] = NoStyle]
    BY <1>8 DEF DisplayLoads
  <2>2. UNCHANGED <<store, hasStore>>
    BY <1>8 DEF DisplayLoads, css
  <2>3. hasStore => toPage' \in [Clients -> Seq(KeptMessages)]
    BY <1>2, <2>1
  <2>4. \A d \in Clients, a \in Attrs : style'[d][a] # None => style[d][a] # None
    BY <1>1, <2>1 DEF NoStyle
  <2>5. QED
    BY <1>2, <1>3, <2>2, <2>3, <2>4 DEF ShownInv
<1>9. ASSUME NEW c \in Clients, Established(c) PROVE ShownInv'
  <2>1. PICK msgs \in {LoadMessages, <<>>} : toPage' = Queued(c, msgs)
    BY <1>9 DEF Established
  <2>2. LoadMessages \in Seq(KeptMessages) /\ <<>> \in Seq(KeptMessages)
    BY SentIsKept
  <2>3. QED
    BY <1>5, <1>9, <2>1, <2>2 DEF Established, css
<1>10. ASSUME NEW c \in Clients, ReceiveLoaded(c) PROVE ShownInv'
  BY <1>1, <1>5, <1>10, SentIsKept DEF ReceiveLoaded, css
<1>11. ASSUME NEW c \in Clients, Closed(c) PROVE ShownInv'
  <2>1. /\ UNCHANGED <<store, hasStore, style>>
        /\ toPage' = IF current = None THEN toPage ELSE [toPage EXCEPT ![current] = <<>>]
    BY <1>11 DEF Closed, css
  <2>2. hasStore => toPage' \in [Clients -> Seq(KeptMessages)]
    BY <1>1, <1>2, <2>1
  <2>3. QED
    BY <1>2, <1>3, <2>1, <2>2 DEF ShownInv
<1>12. ASSUME NEW c \in Clients, Receives(c) PROVE ShownInv'
  <2> DEFINE msg == toPage[c][1]
  <2> SUFFICES ASSUME hasStore PROVE ShownInv'
    BY <1>12 DEF Receives, css, ShownInv
  <2>1. /\ UNCHANGED <<store, hasStore>>
        /\ toPage[c] # <<>> /\ toPage' = [toPage EXCEPT ![c] = Tail(@)]
        /\ style' = IF msg.kind = "setcss"
                      THEN [style EXCEPT ![c][msg.attr] =
                              IF msg.value = Blank THEN None ELSE msg.value]
                      ELSE style
    BY <1>12 DEF Receives, css
  <2>2. toPage[c] \in Seq(KeptMessages)
    BY <1>2
  <2>3. Tail(toPage[c]) \in Seq(KeptMessages) /\ msg \in KeptMessages
    BY <2>1, <2>2, HeadTailProperties
  <2>4. toPage' \in [Clients -> Seq(KeptMessages)]
    BY <1>2, <2>1, <2>3
  <2>5. \A a \in Attrs : Sets(msg, a) /\ msg.value # Blank => store[a] # None
    BY <2>3 DEF KeptMessages
  <2> HIDE DEF msg
  <2>6. ASSUME NEW d \in Clients, NEW a \in Attrs, style'[d][a] # None
        PROVE  store[a] # None
    <3>1. CASE d = c /\ Sets(msg, a)
      <4>1. style'[d][a] = IF msg.value = Blank THEN None ELSE msg.value
        BY <1>1, <2>1, <3>1 DEF Sets
      <4>2. QED
        BY <2>5, <2>6, <3>1, <4>1
    <3>2. CASE ~(d = c /\ Sets(msg, a))
      <4>1. style'[d][a] = style[d][a]
        BY <1>1, <2>1, <3>2 DEF Sets
      <4>2. QED
        BY <1>2, <2>6, <4>1
    <3>3. QED
      BY <3>1, <3>2
  <2>7. QED
    BY <1>3, <2>1, <2>4, <2>6 DEF ShownInv
<1>13. ASSUME NEW e \in Externs, ExternReceive(e) PROVE ShownInv'
  BY <1>1, <1>5, <1>13, SentIsKept DEF ExternReceive, css
<1>14. QED
  BY <1>4, <1>6, <1>7, <1>8, <1>9, <1>10, <1>11, <1>12, <1>13 DEF Next, Operator, ClientStep,
     vars, css, clients, Enable, Disable, CallSaveCSS, WindowOpens, WindowCloses,
     NoticeDisconnect, DisplayUnloads, Drop, DoneLoad, ExternEstablished, ExternClosed

(* savecss writes what the pages show and keeps what was saved, until a    *)
(* reload has dropped the CSS.                                             *)
THEOREM SavedStaysSavedHolds == Spec => SavedStaysSaved
<1> DEFINE Keeps == hasStore =>
      \A a \in Attrs :
        /\ saved[a] # None => saved'[a] # None
        /\ CallSaveCSS => \A c \in Clients : style[c][a] # None => saved'[a] # None
<1>1. Init => Types /\ StoreInv /\ ShownInv
  <2>1. Init => Types /\ StoreInv
    BY TypesInit DEF Init, StoreInv, LoadedCSS
  <2>2. Init => ShownInv
    BY DEF Init, ShownInv, NoStyle
  <2>3. QED
    BY <2>1, <2>2
<1>2. Types /\ StoreInv /\ ShownInv /\ [Next]_vars => Types' /\ StoreInv' /\ ShownInv'
  BY TypesStep, StoreStep, ShownStep
<1>3. StoreInv /\ ShownInv /\ [Next]_vars => [Keeps]_vars
  <2> SUFFICES ASSUME StoreInv, ShownInv, Next, hasStore, NEW a \in Attrs
               PROVE  /\ saved[a] # None => saved'[a] # None
                      /\ CallSaveCSS =>
                           \A c \in Clients : style[c][a] # None => saved'[a] # None
    OBVIOUS
  <2>1. saved' = saved \/ saved' = store
    BY DEF Next, Operator, ClientStep, css, Enable, Disable, Reload, CallSetCSS, CallSaveCSS,
       WindowOpens, WindowCloses, NoticeDisconnect, DisplayLoads, DisplayUnloads, Established,
       ReceiveLoaded, Closed, Drop, Receives, DoneLoad, ExternEstablished, ExternReceive,
       ExternClosed
  <2>2. saved[a] # None => saved'[a] # None
    BY <2>1 DEF StoreInv
  <2>3. CallSaveCSS => saved' = store
    BY DEF CallSaveCSS
  <2>4. QED
    BY <2>2, <2>3 DEF ShownInv
<1>4. QED
  BY <1>1, <1>2, <1>3, PTL DEF Spec, SavedStaysSaved

-----------------------------------------------------------------------------
(* The page. *)

(* Steps after which the page is not loaded, or nothing it shows changed.  *)
LEMMA StyleFrame ==
  ASSUME StyleInv, mishaps \subseteq mishaps',
         current' # None /\ loaded' =>
           /\ UNCHANGED <<current, loaded>>
           /\ toPage'[current] = toPage[current] /\ style'[current] = style[current]
           /\ store' = store /\ blanked \subseteq blanked'
  PROVE  StyleInv'
<1>1. \A X : Unless(X)' => Unless(X)
  BY DEF Unless
<1>2. QED
  BY <1>1 DEF StyleInv

(* Only a connected client has reported that it is loaded.                 *)
LEMMA LoadedStep == Types /\ LoadedInv /\ [Next]_vars => LoadedInv'
<1> SUFFICES ASSUME Types, LoadedInv, [Next]_vars PROVE LoadedInv'
  OBVIOUS
<1>1. socket \in [Clients -> {"gone", "connecting", "open", "closing"}]
  BY DEF Types, TypeOK
<1>2. ASSUME mishaps \subseteq mishaps', loaded' => loaded,
             \A c \in Clients : Connected(c) => Connected(c)'
      PROVE  LoadedInv'
  BY <1>2 DEF LoadedInv, Unless
<1>3. ~loaded' => LoadedInv'
  BY DEF LoadedInv
<1>4. CASE WindowCloses
  <2>1. \A c \in Clients : Connected(c) => Connected(c)'
    BY <1>1, <1>4 DEF WindowCloses, Connected, ClosedByBrowser
  <2>2. QED
    BY <1>2, <1>4, <2>1 DEF WindowCloses, plugin
<1>5. CASE DisplayLoads
  <2>1. \A c \in Clients : Connected(c) => Connected(c)'
    BY <1>1, <1>5 DEF DisplayLoads, Connected
  <2>2. QED
    BY <1>2, <1>5, <2>1 DEF DisplayLoads, plugin
<1>6. CASE DisplayUnloads
  <2>1. \A c \in Clients : Connected(c) => Connected(c)'
    BY <1>1, <1>6 DEF DisplayUnloads, Connected, ClosedByBrowser
  <2>2. QED
    BY <1>2, <1>6, <2>1 DEF DisplayUnloads, plugin
<1>7. ASSUME NEW c \in Clients, Established(c) PROVE LoadedInv'
  <2>1. \A d \in Clients : Connected(d) => Connected(d)'
    BY <1>1, <1>7 DEF Established, Connected
  <2>2. QED
    BY <1>2, <1>7, <2>1 DEF Established, With
<1>8. ASSUME NEW c \in Clients, ReceiveLoaded(c) PROVE LoadedInv'
  BY <1>8 DEF ReceiveLoaded, Connected, LoadedInv
<1>9. ASSUME NEW c \in Clients, Drop(c) PROVE LoadedInv'
  <2>1. \A d \in Clients : Connected(d) => Connected(d)'
    BY <1>1, <1>9 DEF Drop, Connected
  <2>2. QED
    BY <1>2, <1>9, <2>1 DEF Drop, plugin, With
<1>10. ASSUME NEW c \in Clients, Closed(c) PROVE LoadedInv'
  BY <1>3, <1>10 DEF Closed, LoadedAfterClose
<1>11. CASE NoticeDisconnect \/ Reload
  BY <1>3, <1>11 DEF NoticeDisconnect, Reload
<1>12. ASSUME UNCHANGED <<socket, loaded>>, mishaps \subseteq mishaps' PROVE LoadedInv'
  BY <1>2, <1>12 DEF Connected
<1>13. CASE Enable \/ Disable \/ CallSaveCSS \/ WindowOpens
  BY <1>12, <1>13 DEF Enable, Disable, CallSaveCSS, WindowOpens, plugin, clients
<1>14. ASSUME NEW a \in Attrs, NEW v \in Values \cup {Blank}, CallSetCSS(a, v) PROVE LoadedInv'
  BY <1>12, <1>14 DEF CallSetCSS, plugin, With
<1>15. ASSUME NEW c \in Clients, Receives(c) \/ DoneLoad(c) PROVE LoadedInv'
  BY <1>12, <1>15 DEF Receives, DoneLoad, plugin
<1>16. ASSUME NEW e \in Externs, ExternEstablished(e) \/ ExternReceive(e) \/ ExternClosed(e)
       PROVE  LoadedInv'
  BY <1>12, <1>16 DEF ExternEstablished, ExternReceive, ExternClosed, plugin, clients, With
<1>17. CASE UNCHANGED vars
  BY <1>12, <1>17 DEF vars, plugin, clients
<1>18. QED
  BY <1>4, <1>5, <1>6, <1>7, <1>8, <1>9, <1>10, <1>11, <1>13, <1>14, <1>15, <1>16, <1>17
     DEF Next, Operator, ClientStep

(* Every step keeps what the page shows, or will show.                     *)
LEMMA StyleStep == PageIInv /\ [Next]_vars => StyleInv'
<1> SUFFICES ASSUME PageIInv, [Next]_vars PROVE StyleInv'
  OBVIOUS
<1>1. Types /\ SocketsValid /\ StoreInv /\ LoadedInv /\ StyleInv
  BY DEF PageIInv
<1>2. /\ current \in Clients \cup {None} /\ None \notin Clients
      /\ socket \in [Clients -> {"gone", "connecting", "open", "closing"}]
      /\ toPage \in [Clients -> Seq(PageMessages)]
      /\ style \in [Clients -> [Attrs -> Values \cup {None}]]
      /\ store \in [Attrs -> Values \cup {None}] /\ blanked \subseteq Attrs
  BY <1>1, PageAssumption DEF Types, TypeOK, WireTypes
<1>3. current # None => Connected(current) /\ current \in Clients
  BY <1>1, <1>2 DEF SocketsValid
<1>4. ASSUME mishaps \subseteq mishaps',
             current' # None /\ loaded' =>
               /\ UNCHANGED <<current, loaded>>
               /\ toPage'[current] = toPage[current] /\ style'[current] = style[current]
               /\ store' = store /\ blanked \subseteq blanked'
      PROVE  StyleInv'
  BY <1>1, <1>4, StyleFrame
<1>5. CASE UNCHANGED vars
  BY <1>4, <1>5 DEF vars, plugin, css, clients
<1>6. CASE Enable \/ Disable
  BY <1>4, <1>6 DEF Enable, Disable, css, clients
<1>7. CASE Reload
  BY <1>7 DEF Reload, StyleInv
<1>8. ASSUME NEW b \in Attrs, NEW v \in Values \cup {Blank}, CallSetCSS(b, v) PROVE StyleInv'
  <2> DEFINE q == toPage[current]
             m == SetCSS(b, v)
  <2>1. /\ UNCHANGED <<current, loaded, style>> /\ store' = Stored(b, v)
        /\ toPage' = Queued(current, <<m>>)
        /\ blanked' = IF v = Blank THEN blanked \cup {b} ELSE blanked \ {b}
        /\ mishaps' = With("overflow", Overflows(current, <<m>>))
    BY <1>8 DEF CallSetCSS, plugin
  <2>2. <<m>> \in Seq(PageMessages)
    BY MessageTypes
  <2> SUFFICES ASSUME current # None, loaded, Unless({"overlap", "overflow"})',
                      NEW a \in Attrs, a \notin blanked', store'[a] # None
               PROVE  EndsWith(toPage'[current], style[current], a, store'[a])
    BY <2>1 DEF StyleInv
  <2>3. Unless({"overlap", "overflow"}) /\ ~Overflows(current, <<m>>)
    BY <2>1 DEF Unless, With
  <2>4. toPage'[current] = q \o <<m>> /\ q \in Seq(PageMessages)
    BY <1>1, <1>2, <2>1, <2>2, <2>3, QueuedEffect
  <2>5. CASE a = b
    <3>1. v # Blank
      BY <2>1, <2>5
    <3>2. store'[a] = v
      BY <1>1, <1>2, <2>1, <2>5, <3>1 DEF Stored, StoreInv, NoStyle
    <3>3. <<m>>[1] = SetCSS(a, v) /\ 1 \in DOMAIN <<m>>
          /\ \A j \in DOMAIN <<m>> : Sets(<<m>>[j], a) => j = 1
      BY <2>5
    <3> HIDE DEF m, q
    <3>4. QED
      BY <2>2, <2>4, <3>2, <3>3, EndsAppend
  <2>6. CASE a # b
    <3>1. store'[a] = store[a] /\ a \notin blanked
      BY <1>2, <2>1, <2>6 DEF Stored
    <3>2. EndsWith(q, style[current], a, store[a])
      BY <1>1, <2>3, <3>1 DEF StyleInv
    <3>3. \A j \in DOMAIN <<m>> : ~Sets(<<m>>[j], a)
      BY <2>6 DEF Sets, SetCSS, Message
    <3> HIDE DEF m, q
    <3>4. QED
      BY <2>2, <2>4, <3>1, <3>2, <3>3, EndsAppend
  <2>7. QED
    BY <2>5, <2>6
<1>9. CASE CallSaveCSS
  BY <1>4, <1>9 DEF CallSaveCSS, plugin, clients
<1>10. CASE WindowOpens \/ WindowCloses
  BY <1>4, <1>10 DEF WindowOpens, WindowCloses, plugin, css, clients
<1>11. CASE NoticeDisconnect
  BY <1>4, <1>11 DEF NoticeDisconnect
<1>12. CASE DisplayLoads
  <2>1. PICK c \in Clients : /\ socket[c] = "gone" /\ toPage' = [toPage EXCEPT ![c] = <<>>]
                             /\ style' = [style EXCEPT ![c] = NoStyle]
    BY <1>12 DEF DisplayLoads
  <2>2. current # None => current # c
    BY <1>3, <2>1 DEF Connected
  <2>3. current # None => toPage'[current] = toPage[current] /\ style'[current] = style[current]
    BY <1>2, <1>3, <2>1, <2>2
  <2>4. QED
    BY <1>4, <1>12, <2>3 DEF DisplayLoads, plugin, css
<1>13. CASE DisplayUnloads
  BY <1>4, <1>13 DEF DisplayUnloads, plugin, css
<1>14. ASSUME NEW c \in Clients, Established(c) PROVE StyleInv'
  <2>1. /\ loaded' = loaded
        /\ (\E d \in Clients : Connected(d)) => "overlap" \in mishaps'
    BY <1>14 DEF Established, With
  <2>2. loaded => (\E d \in Clients : Connected(d)) \/ "overlap" \in mishaps
    BY <1>1 DEF LoadedInv, Unless
  <2>3. mishaps \subseteq mishaps'
    BY <1>14 DEF Established, With
  <2>4. QED
    BY <2>1, <2>2, <2>3 DEF StyleInv, Unless
<1>15. ASSUME NEW c \in Clients, ReceiveLoaded(c) PROVE StyleInv'
  <2> DEFINE q == toPage[current]
  <2>1. /\ UNCHANGED <<current, style, store, blanked>>
        /\ toPage' = Queued(current, SavedStyle)
        /\ mishaps' = With("overflow", Overflows(current, SavedStyle))
    BY <1>15 DEF ReceiveLoaded, css
  <2> SUFFICES ASSUME current # None, Unless({"overlap", "overflow"})',
                      NEW a \in Attrs, store[a] # None
               PROVE  EndsWith(toPage'[current], style[current], a, store[a])
    BY <2>1 DEF StyleInv
  <2>2. ~Overflows(current, SavedStyle)
    BY <2>1 DEF Unless, With
  <2>3. SavedStyle \in Seq(PageMessages)
    BY <1>1, SavedStyleSends
  <2>4. toPage'[current] = q \o SavedStyle /\ q \in Seq(PageMessages)
    BY <1>1, <1>2, <2>1, <2>2, <2>3, QueuedEffect
  <2>5. PICK i \in DOMAIN SavedStyle :
           /\ SavedStyle[i] = SetCSS(a, store[a])
           /\ \A j \in DOMAIN SavedStyle : Sets(SavedStyle[j], a) => j = i
    BY <1>1, SavedStyleSends
  <2> HIDE DEF q
  <2>6. QED
    BY <2>3, <2>4, <2>5, EndsAppend
<1>16. ASSUME NEW c \in Clients, Closed(c) PROVE StyleInv'
  BY <1>16 DEF Closed, CurrentAfterClose, StyleInv
<1>17. ASSUME NEW c \in Clients, Drop(c) PROVE StyleInv'
  BY <1>4, <1>17 DEF Drop, With, plugin, css
<1>18. ASSUME NEW c \in Clients, Receives(c) PROVE StyleInv'
  <2>1. /\ UNCHANGED <<current, loaded, store, blanked, mishaps>>
        /\ toPage[c] # <<>> /\ toPage' = [toPage EXCEPT ![c] = Tail(@)]
        /\ style' = IF toPage[c][1].kind = "setcss"
                      THEN [style EXCEPT ![c][toPage[c][1].attr] =
                              IF toPage[c][1].value = Blank THEN None ELSE toPage[c][1].value]
                      ELSE style
    BY <1>18 DEF Receives, plugin, css
  <2>2. CASE c # current
    <3>1. current # None => toPage'[current] = toPage[current] /\ style'[current] = style[current]
      BY <1>2, <1>3, <2>1, <2>2
    <3>2. QED
      BY <1>4, <2>1, <3>1
  <2>3. CASE c = current
    <3> SUFFICES ASSUME loaded, Unless({"overlap", "overflow"}),
                        NEW a \in Attrs, a \notin blanked, store[a] # None
                 PROVE  EndsWith(toPage'[c], style'[c], a, store[a])
      BY <1>2, <2>1, <2>3 DEF StyleInv, Unless
    <3>1. EndsWith(toPage[c], style[c], a, store[a]) /\ store[a] \in Values
      BY <1>1, <1>2, <2>3 DEF StyleInv
    <3>2. toPage'[c] = Tail(toPage[c]) /\ toPage[c] \in Seq(PageMessages)
      BY <1>2, <2>1
    <3>3. style[c] \in [Attrs -> Values \cup {None}]
      BY <1>2
    <3>4. style'[c] = IF toPage[c][1].kind = "setcss"
                        THEN [style[c] EXCEPT ![toPage[c][1].attr] =
                                IF toPage[c][1].value = Blank THEN None ELSE toPage[c][1].value]
                        ELSE style[c]
      BY <1>2, <2>1
    <3>5. QED
      BY <2>1, <3>1, <3>2, <3>3, <3>4, EndsReceive
  <2>4. QED
    BY <2>2, <2>3
<1>19. ASSUME NEW c \in Clients, DoneLoad(c) PROVE StyleInv'
  BY <1>4, <1>19 DEF DoneLoad, plugin, css
<1>20. ASSUME NEW e \in Externs, ExternEstablished(e) PROVE StyleInv'
  BY <1>4, <1>20 DEF ExternEstablished, css, clients, With
<1>21. ASSUME NEW e \in Externs, ExternReceive(e) PROVE StyleInv'
  <2> DEFINE q == toPage[current]
             m == Message("command", None, None)
  <2>1. /\ UNCHANGED <<current, loaded, style, store, blanked>>
        /\ toPage' = Queued(current, <<m>>)
        /\ mishaps' = With("overflow", Overflows(current, <<m>>))
    BY <1>21 DEF ExternReceive, plugin, css
  <2>2. <<m>> \in Seq(PageMessages)
    BY MessageTypes
  <2> SUFFICES ASSUME current # None, loaded, Unless({"overlap", "overflow"})',
                      NEW a \in Attrs, a \notin blanked, store[a] # None
               PROVE  EndsWith(toPage'[current], style[current], a, store[a])
    BY <2>1 DEF StyleInv
  <2>3. Unless({"overlap", "overflow"}) /\ ~Overflows(current, <<m>>)
    BY <2>1 DEF Unless, With
  <2>4. toPage'[current] = q \o <<m>> /\ q \in Seq(PageMessages)
    BY <1>1, <1>2, <2>1, <2>2, <2>3, QueuedEffect
  <2>5. EndsWith(q, style[current], a, store[a])
    BY <1>1, <2>3 DEF StyleInv
  <2>6. \A j \in DOMAIN <<m>> : ~Sets(<<m>>[j], a)
    BY DEF Sets, Message
  <2> HIDE DEF m, q
  <2>7. QED
    BY <2>2, <2>4, <2>5, <2>6, EndsAppend
<1>22. ASSUME NEW e \in Externs, ExternClosed(e) PROVE StyleInv'
  BY <1>4, <1>22 DEF ExternClosed, css, clients
<1>23. QED
  BY <1>5, <1>6, <1>7, <1>8, <1>9, <1>10, <1>11, <1>12, <1>13, <1>14, <1>15, <1>16, <1>17, <1>18,
     <1>19, <1>20, <1>21, <1>22 DEF Next, Operator, ClientStep

(* Once a page has confirmed its load and received what was on the way, it *)
(* shows the stored CSS.                                                   *)
THEOREM ShowsStoredStyleAlways == Spec => []ShowsStoredStyle
<1>1. Init => PageIInv
  BY TypesInit DEF Init, PageIInv, SocketsValid, KnownInv, StoreInv, LoadedInv, StyleInv,
     Connected, LoadedCSS
<1>2. PageIInv /\ [Next]_vars => PageIInv'
  BY TypesStep, SocketsStep, StoreStep, LoadedStep, StyleStep DEF PageIInv
<1>3. PageIInv => ShowsStoredStyle
  <2> SUFFICES ASSUME PageIInv, current # None, loaded, Unless({"overlap", "overflow"}),
                      toPage[current] = <<>>, NEW a \in Attrs \ blanked, store[a] # None
               PROVE  style[current][a] = store[a]
    BY DEF ShowsStoredStyle
  <2>1. EndsWith(toPage[current], style[current], a, store[a])
    BY DEF PageIInv, StyleInv
  <2>2. QED
    BY <2>1 DEF EndsWith
<1>4. QED
  BY <1>1, <1>2, <1>3, PTL DEF Spec
=============================================================================

------------------------------- MODULE Outbox -------------------------------
(***************************************************************************)
(* What the daemon promises the callers of PluginSocket_writeToSocket: an  *)
(* accepted message is pending until it is handed to libwebsockets once,   *)
(* on the descriptor it was written for, or is lost.  It is lost only when *)
(* a later message is accepted (which may push out one pending message) or *)
(* when the pending messages of its descriptor are discarded together.     *)
(* Nothing is promised about order.                                        *)
(***************************************************************************)
EXTENDS Naturals, Sequences

CONSTANTS Sockets,      \* the descriptors that share the outbox
          Message       \* messages: records with fields fd and id

VARIABLES pending,      \* messages accepted and not yet sent or lost
          sent          \* sent[s]: ids handed to libwebsockets on s, in order

vars == <<pending, sent>>

Init == pending = {} /\ sent = [s \in Sockets |-> <<>>]

(* A message is accepted; at most one older message makes room for it. *)
Accept ==
  \E m \in Message, lost \in {{}} \cup {{p} : p \in pending} :
    /\ \A p \in pending : p.id # m.id
    /\ \A s \in Sockets : \A i \in DOMAIN sent[s] : sent[s][i] # m.id
    /\ pending' = (pending \ lost) \cup {m}
    /\ UNCHANGED sent

(* A pending message goes out on the descriptor it names. *)
Send ==
  \E m \in pending :
    /\ sent' = [sent EXCEPT ![m.fd] = Append(@, m.id)]
    /\ pending' = pending \ {m}

(* Everything pending for one descriptor is dropped. *)
Discard ==
  \E s \in Sockets :
    /\ pending' = {m \in pending : m.fd # s}
    /\ UNCHANGED sent

Next == Accept \/ Send \/ Discard

Spec == Init /\ [][Next]_vars
=============================================================================

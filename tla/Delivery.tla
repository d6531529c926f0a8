------------------------------- MODULE Delivery -------------------------------
(***************************************************************************)
(* What the event bus promises its users: a handler is called at most once *)
(* for an event, only for an event the bus accepted, and only when the     *)
(* handler wants it.  Nothing is promised about the order of the calls or  *)
(* about how long an event waits.  EventBus implements this module.        *)
(***************************************************************************)
EXTENDS Naturals, Sequences

CONSTANTS Handlers,      \* the subscribed callbacks
          Events,        \* the events that can be published
          Wants(_, _)    \* Wants(h, e): handler h asked for event e

VARIABLES sent,          \* the accepted events, in order of acceptance
          got            \* got[h]: the positions of sent h was called for

vars == <<sent, got>>

Init == /\ sent = <<>>
        /\ got = [h \in Handlers |-> {}]

\* The bus accepts one more event.
Accept(e) == /\ sent' = Append(sent, e)
             /\ UNCHANGED got

\* Handler h is called for the i-th accepted event, for the first time.
Call(h, i) == /\ i \in DOMAIN sent \ got[h]
              /\ Wants(h, sent[i])
              /\ got' = [got EXCEPT ![h] = @ \cup {i}]
              /\ UNCHANGED sent

Next == \/ \E e \in Events : Accept(e)
        \/ \E h \in Handlers, i \in DOMAIN sent : Call(h, i)

Spec == Init /\ [][Next]_vars
===============================================================================

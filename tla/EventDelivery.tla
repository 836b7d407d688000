--------------------------- MODULE EventDelivery ---------------------------
(***************************************************************************)
(* What the event queue of subscribers/queue.go promises, without saying   *)
(* how: every event it accepts is offered to every subscriber once, in the *)
(* order of acceptance, and a shutdown that completes has offered them all *)
(* ("It waits for all pending events to be processed before returning").   *)
(* An offer may end in a delivery, in an error or in a skip while the      *)
(* subscriber is backing off: the queue never retries an event.            *)
(***************************************************************************)
EXTENDS Naturals, Sequences

CONSTANTS NumSubs,    \* how many subscribers the queue was built with
          MaxEvents   \* bound: Track calls in a behaviour

Subs == 1..NumSubs
Event == 1..MaxEvents

VARIABLES accepted,   \* the accepted events, in order
          offered,    \* offered[s]: the events offered to s so far
          phase       \* "open", "sealed" (no more events) or "drained"

vars == <<accepted, offered, phase>>

Init ==
    /\ accepted = <<>>
    /\ offered = [s \in Subs |-> <<>>]
    /\ phase = "open"

Accept ==
    /\ phase = "open"
    /\ \E e \in Event :
         /\ \A i \in DOMAIN accepted : accepted[i] # e
         /\ accepted' = Append(accepted, e)
    /\ UNCHANGED <<offered, phase>>

Offer(s) ==
    /\ Len(offered[s]) < Len(accepted)
    /\ offered' = [offered EXCEPT ![s] = Append(@, accepted[Len(@) + 1])]
    /\ UNCHANGED <<accepted, phase>>

Seal ==
    /\ phase = "open"
    /\ phase' = "sealed"
    /\ UNCHANGED <<accepted, offered>>

Drained ==
    /\ phase = "sealed"
    /\ \A s \in Subs : Len(offered[s]) = Len(accepted)
    /\ phase' = "drained"
    /\ UNCHANGED <<accepted, offered>>

Next == Accept \/ Seal \/ Drained \/ \E s \in Subs : Offer(s)

\* What happens, and may happen no other way.
Safety == Init /\ [][Next]_vars

\* Nothing obliges a caller to track or to shut down; what was accepted is
\* offered, and a shutdown that began completes.
Spec ==
    /\ Safety
    /\ \A s \in Subs : WF_vars(Offer(s))
    /\ WF_vars(Drained)
=============================================================================

---------------------------- MODULE DeadLetters ----------------------------
(***************************************************************************)
(* messaging/dlq.go: the error handler NewDLQErrorHandler returns counts   *)
(* the failures of each message and gives a message up after maxRetries of *)
(* them.  It never hears of a success, so its map of counts is bounded:    *)
(* the message that entered it first is forgotten for a new one.  The part *)
(* of a call that holds the mutex is one action, CountFailure.             *)
(***************************************************************************)
EXTENDS Integers, SequencesExt, FiniteSetsExt

CONSTANTS Messages,     \* message IDs
          MaxRetries,   \* the handler's maxRetries
          Capacities    \* the dlqRetryTrackerMaxEntries tried

ASSUME DeadLettersAssumption ==
    /\ MaxRetries \in Nat \ {0}
    /\ Capacities \subseteq Nat \ {0}

VARIABLES
    capacity,   \* dlqRetryTrackerMaxEntries
    counts,     \* the map, as a function on the messages in it
    inserted,   \* the messages in the map, first entered first
    since       \* history: since[m]: the failures of m counted since it was
                \* last given up or forgotten

trackerVars == <<capacity, counts, inserted, since>>

\* Definitions named Faulty... are variants that no action uses: each breaks a
\* property when it takes the place of the definition it stands beside.

TrackerInit ==
    /\ capacity \in Capacities
    /\ counts = <<>> /\ inserted = <<>>
    /\ since = [m \in Messages |-> 0]
-----------------------------------------------------------------------------
Counted == DOMAIN counts

FaultyFull == inserted # <<>> /\ Len(inserted) + 1 >= capacity   \* too early
Full == Len(inserted) >= capacity

\* Who makes room for m.
Forgotten(m) == IF m \notin Counted /\ Full THEN {Head(inserted)} ELSE {}

CountAfter(m) == IF m \in Counted THEN counts[m] + 1 ELSE 1

Exhausted(m) == CountAfter(m) >= MaxRetries

\* The order once m has entered it.
Entered(m) ==
    IF m \in Counted THEN inserted
    ELSE Append(IF Full THEN Tail(inserted) ELSE inserted, m)

\* s without the first occurrence of m.
FaultyStruck(s, m) == s   \* given up, it keeps its place in the order
Struck(s, m) ==
    LET first == CHOOSE i \in DOMAIN s :
                   s[i] = m /\ \A j \in DOMAIN s : s[j] = m => i <= j
    IN  [i \in 1..(Len(s) - 1) |-> IF i < first THEN s[i] ELSE s[i + 1]]

\* The map and the order after a failure of m.
CountFailure(m) ==
    LET left == IF Exhausted(m) THEN Forgotten(m) \cup {m} ELSE Forgotten(m)
        kept == (Counted \cup {m}) \ left
    IN  /\ counts' = [k \in kept |-> IF k = m THEN CountAfter(m) ELSE counts[k]]
        /\ inserted' = IF Exhausted(m) THEN Struck(Entered(m), m) ELSE Entered(m)
        /\ since' = [k \in Messages |->
                       IF k \in left THEN 0
                       ELSE IF k = m THEN since[m] + 1 ELSE since[k]]
        /\ UNCHANGED capacity
-----------------------------------------------------------------------------
TrackerTypeOK ==
    /\ capacity \in Capacities
    /\ Counted \subseteq Messages /\ \A m \in Counted : counts[m] \in 1..(MaxRetries - 1)
    /\ inserted \in Seq(Messages)
    /\ since \in [Messages -> 0..(MaxRetries - 1)]

\* The map holds the failures since each message was last given up or
\* forgotten, no more messages than its limit, and the order lists each of
\* them once: dlq.go's "bounded and evicts oldest-first".
CountsAreExact ==
    /\ Counted = {m \in Messages : since[m] > 0}
    /\ \A m \in Counted : counts[m] = since[m]
    /\ Len(inserted) <= capacity
    /\ IsInjective(inserted) /\ ToSet(inserted) = Counted
=============================================================================

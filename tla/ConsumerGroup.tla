--------------------------- MODULE ConsumerGroup ---------------------------
(***************************************************************************)
(* messaging/consumer_group.go: ConsumerGroupTracker follows what a Kafka  *)
(* client reports of its group.  "Rebalance and heartbeat callbacks are    *)
(* typically invoked from the client library's own goroutines": several    *)
(* goroutines record at once.  The state changes under the mutex; the span *)
(* and the user's callbacks get theirs after it is released.               *)
(***************************************************************************)
EXTENDS Integers, FiniteSets, Sequences

CONSTANTS Partitions,   \* topic:partition keys
          Recorders,    \* goroutines recording
          MaxGeneration,
          Nobody        \* no heartbeat has been recorded yet

ASSUME GroupAssumption == MaxGeneration \in Nat

VARIABLES
    assigned,     \* state.AssignedPartitions
    active,       \* state.IsActive
    group,        \* state.State
    generation,   \* state.Generation
    heartbeat,    \* state.LastHeartbeat, as the recorder whose time it holds
    recording,    \* recording[r]: where r's recording call is, with as history
                  \* (own) the state its own event led to
    watcher       \* the partitions a user of the callbacks holds

trackerVars == <<assigned, active, group, generation>>
groupVars == <<trackerVars, heartbeat, recording, watcher>>

\* Definitions named Faulty... are variants that no action uses: each breaks a
\* property when it takes the place of the definition it stands beside.

RebalanceTypes == {"assigned", "revoked", "lost"}
Events == [type : RebalanceTypes, partitions : SUBSET Partitions,
           generation : (-1)..MaxGeneration]

Ready == [at |-> "ready"]

GroupInit ==
    /\ assigned = {} /\ active = TRUE /\ group = "" /\ generation = -1
    /\ heartbeat = Nobody
    /\ recording = [r \in Recorders |-> Ready]
    /\ watcher = {}
-----------------------------------------------------------------------------
(* updateState, under the mutex. *)

AssignedAfter(event) ==
    IF event.type = "assigned" THEN event.partitions
    ELSE assigned \ event.partitions

GroupAfter(event) ==
    IF event.type = "assigned" THEN "stable"
    ELSE IF event.type = "lost" THEN "dead"
    ELSE IF AssignedAfter(event) = {} THEN "empty" ELSE "preparing_rebalance"

ActiveAfter(event) ==
    event.type = "assigned" \/ (event.type = "revoked" /\ active)

\* The state a recorder goes on with.
FaultyStateRead(event) == "later"
StateRead(event) == GroupAfter(event)

UpdateState(r, event) ==
    /\ recording[r] = Ready
    /\ assigned' = AssignedAfter(event)
    /\ group' = GroupAfter(event)
    /\ active' = ActiveAfter(event)
    /\ generation' = IF event.generation >= 0 THEN event.generation ELSE generation
    /\ recording' = [recording EXCEPT ![r] =
                       [at |-> "updated", event |-> event, state |-> StateRead(event),
                        own |-> group']]
    /\ UNCHANGED <<heartbeat, watcher>>

\* recordRebalanceToSpan, lock-free.
RecordToSpan(r) ==
    /\ recording[r].at = "updated"
    /\ LET read == recording[r].state
           state == IF read = "later" THEN group ELSE read
       IN  recording' = [recording EXCEPT ![r] = [@ EXCEPT !.at = "recorded",
                                                           !.state = state]]
    /\ UNCHANGED <<trackerVars, heartbeat, watcher>>

\* invokeCallbacks: onRebalance, then onPartitionsAssigned or
\* onPartitionsRevoked; here a user who follows onRebalance.
InvokeCallbacks(r) ==
    /\ recording[r].at = "recorded"
    /\ LET event == recording[r].event
       IN  watcher' = IF event.type = "assigned" THEN event.partitions
                      ELSE watcher \ event.partitions
    /\ recording' = [recording EXCEPT ![r] = Ready]
    /\ UNCHANGED <<trackerVars, heartbeat>>

\* RecordHeartbeat: the time stored under the mutex is kept for the span, which
\* is written after it is released.
RecordHeartbeat(r) ==
    /\ recording[r] = Ready
    /\ heartbeat' = r
    /\ recording' = [recording EXCEPT ![r] = [at |-> "beating", of |-> heartbeat']]
    /\ UNCHANGED <<trackerVars, watcher>>

HeartbeatToSpan(r) ==
    /\ recording[r].at = "beating"
    /\ recording' = [recording EXCEPT ![r] = Ready]
    /\ UNCHANGED <<trackerVars, heartbeat, watcher>>

GroupNext ==
    \E r \in Recorders :
      \/ \E event \in Events : UpdateState(r, event)
      \/ RecordToSpan(r) \/ InvokeCallbacks(r)
      \/ RecordHeartbeat(r) \/ HeartbeatToSpan(r)

GroupSpec == GroupInit /\ [][GroupNext]_groupVars
-----------------------------------------------------------------------------
States == {"", "stable", "empty", "preparing_rebalance", "dead"}

GroupTypeOK ==
    /\ assigned \subseteq Partitions /\ watcher \subseteq Partitions
    /\ active \in BOOLEAN /\ group \in States
    /\ generation \in (-1)..MaxGeneration
    /\ heartbeat \in Recorders \cup {Nobody}
    /\ \A r \in Recorders : recording[r].at \in {"ready", "updated", "recorded", "beating"}

\* consumer_group.go: "state is read by the caller under t.mu so this runs
\* lock-free": the state on a rebalance's span is the one that rebalance left,
\* although another recorder may have moved the tracker on in between; and a
\* heartbeat's span has the time its own recorder took.
SpanNamesOwnState ==
    \A r \in Recorders :
      /\ recording[r].at = "recorded" => recording[r].state = recording[r].own
      /\ recording[r].at = "beating" => recording[r].of = r
=============================================================================

----------------------------- MODULE ParkingLot -----------------------------
(***************************************************************************)
(* webhook/parking_lot.go: a ParkingLot keeps the trace context of an      *)
(* operation under a correlation key until its callback arrives, in a      *)
(* Store: the in-memory one, with a goroutine that clears what expired, or *)
(* another, whose calls may fail.  Each Store call is atomic; a retrieval  *)
(* is two of them.  A context is the number of the Park that stored it.    *)
(***************************************************************************)
EXTENDS Integers, FiniteSets

CONSTANTS CorrelationKeys,       \* correlation keys, each with the prefix in front
          Callers,    \* goroutines that handle callbacks
          TTLs,       \* the TTLs parked with, 0 for none
          MaxParks    \* bound: how often Park is called

ASSUME ParkingLotAssumption == TTLs \subseteq Nat /\ MaxParks \in Nat

VARIABLES
    autoDelete,   \* WithAutoDelete, which does not change
    data,         \* data[k]: the StoredContext of a key, or None
    parks,        \* how many contexts have been parked
    cleaning,     \* stopCleanup is not closed
    caller,       \* caller[c]: where c's RetrieveAndTrace is
    taken,        \* history: contexts a retrieval removed
    fate          \* history: fate[id]: what became of a context

parkingVars == <<autoDelete, data, parks, cleaning, caller, taken, fate>>

\* Definitions named Faulty... are variants that no action uses: each breaks a
\* property when it takes the place of the definition it stands beside.

None == [id |-> 0]
Idle == [at |-> "idle"]

ParkingInit ==
    /\ autoDelete \in BOOLEAN
    /\ data = [k \in CorrelationKeys |-> None] /\ parks = 0 /\ cleaning = TRUE
    /\ caller = [c \in Callers |-> Idle]
    /\ taken = {} /\ fate = <<>>
-----------------------------------------------------------------------------
(* The store. *)

IsExpired(sc) == sc.ttl # 0 /\ sc.age > sc.ttl

Holds(k) == data[k] # None
Exists(k) == Holds(k) /\ ~IsExpired(data[k])

Without(removed) == [k \in CorrelationKeys |-> IF k \in removed THEN None ELSE data[k]]

\* Delete by key, for the context `id` loaded from it.
FaultyAfterDelete(k, id) == data   \* under a key without the prefix
AfterDelete(k, id) == Without({k})

\* cleanup, under the lock.
Cleanup ==
    /\ cleaning
    /\ LET expired == {k \in CorrelationKeys : Holds(k) /\ IsExpired(data[k])}
       IN  /\ expired # {}
           /\ data' = Without(expired)
           /\ fate' = [id \in DOMAIN fate |->
                         IF \E k \in expired : data[k].id = id THEN "expired"
                         ELSE fate[id]]
    /\ UNCHANGED <<autoDelete, parks, cleaning, caller, taken>>

Close ==
    /\ cleaning' = FALSE
    /\ UNCHANGED <<autoDelete, data, parks, caller, taken, fate>>

\* Delete, by the application.
Delete(k) ==
    /\ data' = Without({k})
    /\ fate' = [id \in DOMAIN fate |-> IF id = data[k].id THEN "deleted" ELSE fate[id]]
    /\ UNCHANGED <<autoDelete, parks, cleaning, caller, taken>>
-----------------------------------------------------------------------------
\* Park: a context that could not be saved is reported, and nothing else.
Park(k, ttl) ==
    /\ parks < MaxParks
    /\ parks' = parks + 1
    /\ \/ /\ data' = [data EXCEPT ![k] = [id |-> parks + 1, age |-> 0, ttl |-> ttl]]
          /\ fate' = [id \in 1..(parks + 1) |->
                        IF id = parks + 1 THEN "parked"
                        ELSE IF id = data[k].id THEN "replaced" ELSE fate[id]]
       \/ /\ fate' = [id \in 1..(parks + 1) |->
                        IF id = parks + 1 THEN "failed" ELSE fate[id]]
          /\ UNCHANGED data
    /\ UNCHANGED <<autoDelete, cleaning, caller, taken>>

\* Retrieve up to and with Load, which may fail.  A context without auto-delete
\* is retrieved with it.
Retrieved(k, id, failed) ==
    [at |-> "retrieved", key |-> k, context |-> id, failed |-> failed]

Load(c, k) ==
    /\ caller[c] = Idle
    /\ \/ caller' = [caller EXCEPT ![c] = Retrieved(k, 0, TRUE)]
       \/ /\ ~Exists(k)   \* onMiss
          /\ caller' = [caller EXCEPT ![c] = Retrieved(k, 0, FALSE)]
       \/ /\ Exists(k) /\ ~autoDelete
          /\ caller' = [caller EXCEPT ![c] = Retrieved(k, data[k].id, FALSE)]
       \/ /\ Exists(k) /\ autoDelete
          /\ caller' = [caller EXCEPT ![c] =
                          [at |-> "loaded", key |-> k, context |-> data[k].id]]
    /\ fate' = IF caller'[c].context = 0 THEN fate
               ELSE [fate EXCEPT ![caller'[c].context] = "retrieved"]
    /\ UNCHANGED <<autoDelete, data, parks, cleaning, taken>>

\* Retrieve's Delete, whose error is ignored, and the rest of it.
DeleteLoaded(c) ==
    /\ caller[c].at = "loaded"
    /\ LET k == caller[c].key
           id == caller[c].context
       IN  /\ caller' = [caller EXCEPT ![c] = Retrieved(k, id, FALSE)]
           /\ \/ /\ data' = AfterDelete(k, id)
                 /\ taken' = taken \cup {id}
                 /\ fate' = IF Exists(k) /\ fate[data[k].id] = "parked"
                            THEN [fate EXCEPT ![data[k].id] = "lost"] ELSE fate
              \/ UNCHANGED <<data, taken, fate>>
    /\ UNCHANGED <<autoDelete, parks, cleaning>>

\* The span RetrieveAndTrace returns, whatever it found.
CallbackSpan(found) ==
    [links |-> IF found.context = 0 THEN {} ELSE {found.context},
     error |-> found.failed]

RetrieveAndTrace(c) ==
    /\ caller[c].at = "retrieved"
    /\ caller' = [caller EXCEPT ![c] = [at |-> "traced", span |-> CallbackSpan(caller[c])]]
    /\ UNCHANGED <<autoDelete, data, parks, cleaning, taken, fate>>

Returns(c) ==
    /\ caller[c].at = "traced"
    /\ caller' = [caller EXCEPT ![c] = Idle]
    /\ UNCHANGED <<autoDelete, data, parks, cleaning, taken, fate>>

Tick ==
    /\ \E k \in CorrelationKeys : Exists(k) /\ data[k].ttl # 0
    /\ data' = [k \in CorrelationKeys |-> IF Exists(k) /\ data[k].ttl # 0
                               THEN [data[k] EXCEPT !.age = @ + 1] ELSE data[k]]
    /\ UNCHANGED <<autoDelete, parks, cleaning, caller, taken, fate>>

ParkingNext ==
    \/ Cleanup \/ Close \/ Tick
    \/ \E k \in CorrelationKeys : Delete(k) \/ \E ttl \in TTLs : Park(k, ttl)
    \/ \E c \in Callers :
         \/ \E k \in CorrelationKeys : Load(c, k)
         \/ DeleteLoaded(c) \/ RetrieveAndTrace(c) \/ Returns(c)

ParkingSpec == ParkingInit /\ [][ParkingNext]_parkingVars
-----------------------------------------------------------------------------
Ids == 1..MaxParks

ParkingTypeOK ==
    /\ \A k \in CorrelationKeys : Holds(k) => data[k].id \in Ids /\ data[k].ttl \in TTLs
    /\ parks \in 0..MaxParks /\ DOMAIN fate = 1..parks
    /\ \A c \in Callers : caller[c].at \in {"idle", "loaded", "retrieved", "traced"}
    /\ taken \subseteq 1..parks

\* docs/event-driven.md: "RetrieveAndTrace removes the entry unless you pass
\* WithAutoDelete(false)": a context a retrieval has removed is never found
\* again, so only retrievals that overlap can share one, and nothing is removed
\* without auto-delete.
RetrievedOnce ==
    /\ \A k \in CorrelationKeys : data[k].id \notin taken
    /\ ~autoDelete => taken = {}

\* "Park stores the current trace context for later retrieval": a context that
\* is gone was retrieved, replaced, deleted by the application, or expired.
NothingLost == \A id \in DOMAIN fate : fate[id] # "lost"
=============================================================================

----------------------------- MODULE MCTrackers -----------------------------
(* Small instances of six components that share nothing, side by side for  *)
(* TLC: the ordering tracker, the consumer group tracker, the SLO tracker, *)
(* the target-rate sampler, the log sinks and the parking lot.  A          *)
(* behaviour exercises one.  Loggers, and writers, are interchangeable,    *)
(* and every property is an invariant.                                     *)
EXTENDS MessageOrdering, ConsumerGroup, TargetRate, LogSinks, ParkingLot, SLOTracker, TLC

VARIABLE component

vars == <<component, orderingVars, groupVars, sloVars, rateVars, logVars, parkingVars>>

LogSymmetry == Permutations(Loggers) \cup Permutations(Writers)

Init ==
    /\ component \in {"ordering", "group", "slo", "rate", "logs", "parking"}
    /\ OrderingInit /\ GroupInit /\ SLOInit /\ RateInit /\ LogInit /\ ParkingInit
    /\ component # "ordering" => duration = 0
    /\ component # "logs" => directory = {}
    /\ component # "parking" => autoDelete

Next ==
    /\ \/ /\ component = "ordering" /\ OrderingNext
          /\ UNCHANGED <<groupVars, sloVars, rateVars, logVars, parkingVars>>
       \/ /\ component = "group" /\ GroupNext
          /\ UNCHANGED <<orderingVars, sloVars, rateVars, logVars, parkingVars>>
       \/ /\ component = "slo" /\ SLONext
          /\ UNCHANGED <<orderingVars, groupVars, rateVars, logVars, parkingVars>>
       \/ /\ component = "rate" /\ RateNext
          /\ UNCHANGED <<orderingVars, groupVars, sloVars, logVars, parkingVars>>
       \/ /\ component = "logs" /\ LogNext
          /\ UNCHANGED <<orderingVars, groupVars, sloVars, rateVars, parkingVars>>
       \/ /\ component = "parking" /\ ParkingNext
          /\ UNCHANGED <<orderingVars, groupVars, sloVars, rateVars, logVars>>
    /\ UNCHANGED component

Spec == Init /\ [][Next]_vars
=============================================================================

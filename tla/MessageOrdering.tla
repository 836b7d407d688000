-------------------------- MODULE MessageOrdering --------------------------
(***************************************************************************)
(* messaging/ordering.go: OrderingTracker remembers the IDs of the last    *)
(* messages to recognise a redelivery, and the highest sequence number of  *)
(* each partition to recognise gaps and late messages.  A call holds the   *)
(* tracker's mutex from end to end, callbacks included, so it is one       *)
(* action.  Times are ages, which saturate past the window's duration.     *)
(***************************************************************************)
EXTENDS Integers, SequencesExt, FiniteSetsExt

CONSTANTS MessageIDs, NoID,   \* NoID: the empty ID
          PartitionKeys,         \* partition keys
          MaxSeq,             \* bound: the highest sequence number
          WindowSize,         \* DeduplicationWindowSize
          Durations           \* the DeduplicationWindowDurations tried, 0 for
                              \* no limit

ASSUME OrderingAssumption ==
    /\ NoID \notin MessageIDs
    /\ MaxSeq \in Nat /\ WindowSize \in Nat \ {0}
    /\ Durations \subseteq Nat /\ Durations # {}

VARIABLES
    duration,        \* the tracker's DeduplicationWindowDuration
    seen,            \* seen[id]: the age of its entry, for the IDs in the map
    seenOrder,       \* the tracked IDs, oldest first
    last,            \* last[k]: lastSequence, -1 for a new partition
    gapCount, totalGap,   \* stats.GapCount, stats.TotalGapMessages
    result,          \* what the last CheckAndTrack returned
    accepted,        \* history: the last WindowSize messages not found to be
                     \* duplicates, as [id, age] oldest first
    renewed,         \* history: the IDs accepted anew after they expired, while
                     \* their earlier entry was still in seenOrder
    first, advanced  \* history: each partition's first sequence number, and
                     \* those that moved it on

dedupVars == <<seen, seenOrder, accepted, renewed>>
sequenceVars == <<last, gapCount, totalGap, first, advanced>>
orderingVars == <<duration, dedupVars, sequenceVars, result>>

MaxDuration == Max(Durations)
Older(age) == IF age > MaxDuration THEN age ELSE age + 1

\* Definitions named Faulty... are variants that no action uses: each breaks a
\* property when it takes the place of the definition it stands beside.

NoSequence == [k \in PartitionKeys |-> -1]
NoneAdvanced == [k \in PartitionKeys |-> {}]

OrderingInit ==
    /\ duration \in Durations
    /\ seen = <<>> /\ seenOrder = <<>> /\ accepted = <<>> /\ renewed = {}
    /\ last = NoSequence /\ gapCount = 0 /\ totalGap = 0
    /\ first = NoSequence /\ advanced = NoneAdvanced
    /\ result = "ok"
-----------------------------------------------------------------------------
(* CheckAndTrack. *)

Known == DOMAIN seen
Dropping(f, ids) == [i \in (DOMAIN f) \ ids |-> f[i]]
With(f, id, age) == [i \in (DOMAIN f) \cup {id} |-> IF i = id THEN age ELSE f[i]]

FaultyExpired(id) == FALSE   \* an ID in the map is a duplicate for ever
Expired(id) == duration > 0 /\ seen[id] > duration

IsDuplicate(id) == id \in Known /\ ~Expired(id)

FaultyFull == Len(seenOrder) > WindowSize   \* keeps one ID too many
Full == Len(seenOrder) >= WindowSize

Evicted == IF Full THEN {Head(seenOrder)} ELSE {}

\* trackMessage, for a message isDuplicate let by: an expired entry has left
\* the map but not the order.
Track(id) ==
    IF id = NoID THEN UNCHANGED dedupVars ELSE
    /\ seen' = With(Dropping(seen, Evicted), id, 0)
    /\ seenOrder' = Append(IF Full THEN Tail(seenOrder) ELSE seenOrder, id)
    /\ accepted' = Append(IF Len(accepted) = WindowSize THEN Tail(accepted) ELSE accepted,
                       [id |-> id, age |-> 0])
    /\ renewed' = IF id \in ToSet(seenOrder) THEN renewed \cup {id} ELSE renewed

\* Where a message leaves its partition's last sequence number.
LastAfter(k, seq) == IF seq > last[k] THEN seq ELSE last[k]

\* How many sequence numbers a gap leaves out.
FaultyGapSize(k, seq) == seq - last[k]
GapSize(k, seq) == seq - (last[k] + 1)

\* checkSequence, and its verdict; -1 is a message without a sequence number.
CheckSequence(k, seq) ==
    /\ last' = [last EXCEPT ![k] = LastAfter(k, seq)]
    /\ \/ /\ seq = -1
          /\ result' = "ok"
          /\ UNCHANGED <<gapCount, totalGap, first, advanced>>
       \/ /\ seq >= 0 /\ last[k] = -1
          /\ first' = [first EXCEPT ![k] = seq]
          /\ advanced' = [advanced EXCEPT ![k] = {seq}]
          /\ result' = "ok"
          /\ UNCHANGED <<gapCount, totalGap>>
       \/ /\ last[k] # -1 /\ seq > last[k]
          /\ advanced' = [advanced EXCEPT ![k] = @ \cup {seq}]
          /\ IF seq = last[k] + 1
             THEN /\ result' = "ok"
                  /\ UNCHANGED <<gapCount, totalGap>>
             ELSE /\ result' = "gap"
                  /\ gapCount' = gapCount + 1
                  /\ totalGap' = totalGap + GapSize(k, seq)
          /\ UNCHANGED first
       \/ /\ seq >= 0 /\ seq <= last[k]
          /\ result' = "out_of_order"
          /\ UNCHANGED <<gapCount, totalGap, first, advanced>>

CheckAndTrack(id, k, seq) ==
    /\ IF IsDuplicate(id)
       THEN /\ result' = "duplicate"
            /\ UNCHANGED <<dedupVars, sequenceVars>>
       ELSE /\ Track(id)
            /\ CheckSequence(k, seq)
    /\ UNCHANGED duration

Reset ==
    /\ seen' = <<>> /\ seenOrder' = <<>> /\ accepted' = <<>> /\ renewed' = {}
    /\ last' = NoSequence /\ gapCount' = 0 /\ totalGap' = 0
    /\ first' = NoSequence /\ advanced' = NoneAdvanced
    /\ UNCHANGED <<duration, result>>

TimePasses ==
    /\ seen' = [id \in Known |-> Older(seen[id])]
    /\ accepted' = [i \in DOMAIN accepted |-> [accepted[i] EXCEPT !.age = Older(@)]]
    /\ UNCHANGED <<duration, seenOrder, renewed, sequenceVars, result>>

OrderingNext ==
    \/ \E id \in MessageIDs \cup {NoID}, k \in PartitionKeys, seq \in -1..MaxSeq :
         CheckAndTrack(id, k, seq)
    \/ Reset
    \/ TimePasses

OrderingSpec == OrderingInit /\ [][OrderingNext]_orderingVars
-----------------------------------------------------------------------------
Age == 0..(MaxDuration + 1)
Verdict == {"ok", "duplicate", "gap", "out_of_order"}

OrderingTypeOK ==
    /\ duration \in Durations
    /\ Known \subseteq MessageIDs /\ \A id \in Known : seen[id] \in Age
    /\ seenOrder \in Seq(MessageIDs) /\ Len(seenOrder) <= WindowSize
    /\ last \in [PartitionKeys -> -1..MaxSeq]
    /\ gapCount \in Nat /\ totalGap \in Nat
    /\ result \in Verdict
    /\ accepted \in Seq([id : MessageIDs, age : Age])
    /\ renewed \subseteq MessageIDs
    /\ first \in [PartitionKeys -> -1..MaxSeq]
    /\ advanced \in [PartitionKeys -> SUBSET (0..MaxSeq)]

\* The IDs a window of the last WindowSize messages, none older than the
\* duration, tells duplicates by.
InWindow == {accepted[i].id : i \in {j \in DOMAIN accepted :
                                    duration = 0 \/ accepted[j].age <= duration}}

\* Every entry of the map is in the order list, so the map cannot outgrow it.
MapIsBounded == Known \subseteq ToSet(seenOrder) /\ Len(seenOrder) <= WindowSize

\* The map and the order list together are that window: a message is never
\* taken for a duplicate of one outside it, and an ID in it is recognised,
\* unless it came back after it had expired and so is in the list twice.
WindowExact ==
    /\ \A id \in MessageIDs :
         /\ IsDuplicate(id) => id \in InWindow
         /\ id \in InWindow \ renewed => IsDuplicate(id)
    /\ MapIsBounded

\* The sequence numbers between a partition's first and its last that it skipped.
Missing(k) == {n \in 0..MaxSeq : first[k] <= n /\ n <= last[k] /\ n \notin advanced[k]}
Skipped == {p \in PartitionKeys \X (0..MaxSeq) : p[2] \in Missing(p[1])}

\* TotalGapMessages counts each sequence number that a partition skipped, once,
\* over all partitions and whatever came late or twice.
GapsAccounted == totalGap = Cardinality(Skipped)

\* A late or repeated message never moves a partition back: only a reset does.
SequenceMovesOn ==
    [][\A k \in PartitionKeys : last'[k] < last[k] =>
         last' = NoSequence /\ seen' = <<>> /\ totalGap' = 0]_orderingVars

\* "DeduplicationWindowSize is the number of message IDs to remember"
\* (ordering.go): every ID in the window is recognised.
RemembersTheWindow == \A id \in MessageIDs : id \in InWindow => IsDuplicate(id)
=============================================================================

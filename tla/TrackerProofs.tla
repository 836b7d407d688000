--------------------------- MODULE TrackerProofs ---------------------------
(***************************************************************************)
(* Proofs about the trackers: the ordering tracker's window and its gaps,  *)
(* the target-rate sampler's budget, the rolling log files, the consumer   *)
(* group tracker's spans, the parking lot's contexts and the counts of the *)
(* SLO tracker.  Each is about a component on its own, for any values of   *)
(* its constants, and has an inductive invariant of its own.               *)
(***************************************************************************)
EXTENDS MessageOrdering, TargetRate, LogSinks, ConsumerGroup, ParkingLot,
        SLOTracker, SequenceTheorems, FiniteSetTheorems, TLAPS

-----------------------------------------------------------------------------
(***************************************************************************)
(* MessageOrdering.  WindowExact speaks of the map and of the last messages; *)
(* it is inductive once the order list is known to be those messages' IDs  *)
(* and, but for IDs that came back after they expired, each ID of the      *)
(* window has one entry there, which the map agrees with.                  *)
(***************************************************************************)

Entries == [id : MessageIDs, age : Nat]

WindowType ==
    /\ duration \in Nat
    /\ Known \subseteq MessageIDs /\ \A id \in Known : seen[id] \in Nat
    /\ seenOrder \in Seq(MessageIDs) /\ Len(seenOrder) <= WindowSize
    /\ accepted \in Seq(Entries)

\* The order list is the window's IDs.
OrderIsWindow ==
    /\ Len(seenOrder) = Len(accepted)
    /\ \A i \in 1..Len(accepted) : seenOrder[i] = accepted[i].id

\* What the map knows of an ID is what some entry of the window says.
KnownFromWindow ==
    \A id \in Known : \E i \in 1..Len(accepted) :
      accepted[i].id = id /\ accepted[i].age = seen[id]

\* Conversely the map knows the window's IDs, each from its only entry there:
\* the next eviction can't make it forget one whose entry stays.
WindowKnown ==
    \A i \in 1..Len(accepted) : accepted[i].id \notin renewed =>
      /\ accepted[i].id \in Known /\ seen[accepted[i].id] = accepted[i].age
      /\ \A j \in 1..Len(accepted) : accepted[j].id = accepted[i].id => j = i

OrderingInv == WindowType /\ OrderIsWindow /\ KnownFromWindow /\ WindowKnown
-----------------------------------------------------------------------------
\* A bounded list that takes x and, when full, lets its first element go.
LEMMA Slide ==
  ASSUME NEW S, NEW s \in Seq(S), NEW x \in S, NEW full \in BOOLEAN,
         full => s # <<>>
  PROVE  LET t == Append(IF full THEN Tail(s) ELSE s, x)
             d == IF full THEN 1 ELSE 0
         IN  /\ t \in Seq(S) /\ Len(t) = Len(s) - d + 1
             /\ Len(s) \in Nat /\ Len(s) >= d
             /\ \A i \in 1..(Len(s) - d) : t[i] = s[i + d]
             /\ t[Len(s) - d + 1] = x
<1>1. CASE full
  <2> DEFINE r == Tail(s)
  <2>1. /\ s # <<>> /\ r \in Seq(S) /\ Len(r) = Len(s) - 1 /\ Len(s) \in Nat /\ Len(s) >= 1
        /\ \A i \in 1..(Len(s) - 1) : r[i] = s[i + 1]
    BY <1>1, HeadTailProperties, EmptySeq
  <2> HIDE DEF r
  <2>2. /\ Append(r, x) \in Seq(S) /\ Len(Append(r, x)) = Len(r) + 1
        /\ \A i \in 1..Len(r) : Append(r, x)[i] = r[i]
        /\ Append(r, x)[Len(r) + 1] = x
    BY <2>1, AppendProperties
  <2> QED BY <1>1, <2>1, <2>2 DEF r
<1>2. CASE ~full
  BY <1>2, AppendProperties
<1> QED BY <1>1, <1>2

LEMMA NotBoth == Full /\ OrderingInv => seenOrder # <<>> /\ Len(accepted) = WindowSize
BY OrderingAssumption DEF Full, OrderingInv, WindowType, OrderIsWindow

\* trackMessage, for an ID that is not empty.
LEMMA TrackKeeps ==
  ASSUME OrderingInv, NEW id \in MessageIDs, ~IsDuplicate(id), Track(id), UNCHANGED duration
  PROVE  OrderingInv'
<1> DEFINE d == IF Full THEN 1 ELSE 0
           n == Len(accepted) - d
           e == [id |-> id, age |-> 0]
<1>1. /\ seenOrder \in Seq(MessageIDs) /\ accepted \in Seq(Entries)
      /\ Len(seenOrder) = Len(accepted) /\ Len(accepted) \in Nat
      /\ Full \in BOOLEAN /\ (Full => seenOrder # <<>> /\ accepted # <<>>)
      /\ Full <=> Len(accepted) = WindowSize
      /\ WindowSize \in Nat /\ Len(accepted) <= WindowSize
  BY OrderingAssumption DEF OrderingInv, WindowType, OrderIsWindow, Full
<1>2. /\ seen' = With(Dropping(seen, Evicted), id, 0)
      /\ seenOrder' = Append(IF Full THEN Tail(seenOrder) ELSE seenOrder, id)
      /\ accepted' = Append(IF Full THEN Tail(accepted) ELSE accepted, e)
      /\ renewed' = IF id \in ToSet(seenOrder) THEN renewed \cup {id} ELSE renewed
  BY <1>1, OrderingAssumption DEF Track
<1>3. e \in Entries /\ e.id = id /\ e.age = 0
  BY DEF Entries
<1> HIDE DEF e
<1>4. /\ accepted' \in Seq(Entries) /\ n \in Nat /\ Len(accepted') = n + 1
      /\ \A i \in 1..n : accepted'[i] = accepted[i + d]
      /\ accepted'[n + 1] = e
  BY <1>1, <1>2, <1>3, Slide
<1>5. /\ seenOrder' \in Seq(MessageIDs) /\ Len(seenOrder') = n + 1
      /\ \A i \in 1..n : seenOrder'[i] = seenOrder[i + d]
      /\ seenOrder'[n + 1] = id
  BY <1>1, <1>2, Slide
<1>6. n + 1 <= WindowSize
  BY <1>1
<1>7. d \in {0, 1} /\ (\A i \in 1..n : i + d \in 1..Len(accepted))
      /\ (\A i \in 1..Len(accepted) : i - d \in 1..n \/ i = d)
  BY <1>1, <1>4
<1>8. /\ Known' = (Known \ Evicted) \cup {id}
      /\ \A y \in Known' : seen'[y] = IF y = id THEN 0 ELSE seen[y]
  BY <1>2 DEF With, Dropping, Known
<1>9. Evicted = IF Full THEN {accepted[1].id} ELSE {}
  <2>1. CASE Full
    <3>1. 1 \in 1..Len(accepted) /\ Head(seenOrder) = seenOrder[1]
      BY <1>1, <2>1, EmptySeq
    <3>2. seenOrder[1] = accepted[1].id
      BY <3>1 DEF OrderingInv, OrderIsWindow
    <3> QED BY <2>1, <3>1, <3>2 DEF Evicted
  <2>2. CASE ~Full
    BY <2>2 DEF Evicted
  <2> QED BY <2>1, <2>2
<1>10. WindowType'
  <2>1. ASSUME NEW y \in Known' PROVE y \in MessageIDs /\ seen'[y] \in Nat
    BY <1>8 DEF OrderingInv, WindowType
  <2> QED BY <1>4, <1>5, <1>6, <2>1 DEF OrderingInv, WindowType
<1>11. OrderIsWindow'
  <2>1. ASSUME NEW i \in 1..(n + 1) PROVE seenOrder'[i] = accepted'[i].id
    <3>1. CASE i = n + 1
      BY <1>3, <1>4, <1>5, <3>1
    <3>2. CASE i # n + 1
      <4>1. i \in 1..n
        BY <1>4, <3>2
      <4> QED BY <1>4, <1>5, <1>7, <4>1 DEF OrderingInv, OrderIsWindow
    <3> QED BY <3>1, <3>2
  <2> QED BY <1>4, <1>5, <2>1 DEF OrderIsWindow
<1> HIDE DEF n, d
<1>12. KnownFromWindow'
  <2>1. ASSUME NEW y \in Known'
        PROVE  \E i \in 1..(n + 1) : accepted'[i].id = y /\ accepted'[i].age = seen'[y]
    <3>1. CASE y = id
      <4>1. n + 1 \in 1..(n + 1)
        BY <1>4
      <4> QED BY <1>3, <1>4, <1>8, <3>1, <4>1
    <3>2. CASE y # id
      <4>1. y \in Known \ Evicted /\ seen'[y] = seen[y]
        BY <1>8, <3>2
      <4>2. PICK i \in 1..Len(accepted) : accepted[i].id = y /\ accepted[i].age = seen[y]
        BY <4>1 DEF OrderingInv, KnownFromWindow
      <4>3. i # d
        BY <1>1, <1>9, <4>1, <4>2 DEF d
      <4>4. i - d \in 1..n /\ (i - d) + d = i
        BY <1>1, <1>7, <4>3
      <4>5. accepted'[i - d] = accepted[i] /\ i - d \in 1..(n + 1)
        BY <1>4, <4>4
      <4> QED BY <4>1, <4>2, <4>5
    <3> QED BY <3>1, <3>2
  <2> QED BY <1>4, <2>1 DEF KnownFromWindow
<1>13. WindowKnown'
  <2>1. ASSUME NEW i \in 1..(n + 1), accepted'[i].id \notin renewed'
        PROVE  /\ accepted'[i].id \in Known' /\ seen'[accepted'[i].id] = accepted'[i].age
               /\ \A j \in 1..(n + 1) : accepted'[j].id = accepted'[i].id => j = i
    <3>1. CASE accepted'[i].id = id
      <4>1. \A k \in 1..Len(accepted) : accepted[k].id # id
        <5>1. id \notin ToSet(seenOrder)
          BY <1>2, <2>1, <3>1
        <5>2. \A k \in 1..Len(accepted) : seenOrder[k] \in ToSet(seenOrder)
          BY <1>1 DEF ToSet
        <5> QED BY <5>1, <5>2 DEF OrderingInv, OrderIsWindow
      <4>2. ASSUME NEW j \in 1..(n + 1), accepted'[j].id = id PROVE j = n + 1
        <5>1. j \in 1..n => accepted'[j] = accepted[j + d] /\ j + d \in 1..Len(accepted)
          BY <1>4, <1>7
        <5>2. j \notin 1..n
          BY <4>1, <4>2, <5>1
        <5> QED BY <1>4, <5>2
      <4>3. i = n + 1 /\ accepted'[i] = e
        BY <1>4, <3>1, <4>2
      <4> QED BY <1>3, <1>8, <4>2, <4>3
    <3>2. CASE accepted'[i].id # id
      <4>1. i \in 1..n /\ accepted'[i] = accepted[i + d] /\ i + d \in 1..Len(accepted)
        BY <1>3, <1>4, <1>7, <3>2
      <4> DEFINE y == accepted[i + d].id
      <4>2. y \notin renewed /\ y # id
        BY <1>2, <2>1, <3>2, <4>1
      <4>3. /\ y \in Known /\ seen[y] = accepted[i + d].age
            /\ \A j \in 1..Len(accepted) : accepted[j].id = y => j = i + d
        BY <4>1, <4>2 DEF OrderingInv, WindowKnown
      <4>4. y \notin Evicted
        <5>1. Full => 1 \in 1..Len(accepted) /\ i + d # 1
          BY <1>1, <4>1, EmptySeq DEF d
        <5> HIDE DEF y
        <5> QED BY <1>9, <4>3, <5>1
      <4>5. y \in Known' /\ seen'[y] = accepted'[i].age
        BY <1>8, <4>1, <4>2, <4>3, <4>4
      <4>6. ASSUME NEW j \in 1..(n + 1), accepted'[j].id = y PROVE j = i
        <5>1. j \in 1..n /\ accepted'[j] = accepted[j + d] /\ j + d \in 1..Len(accepted)
          BY <1>3, <1>4, <1>7, <4>2, <4>6
        <5>2. j + d = i + d
          BY <4>3, <4>6, <5>1
        <5> QED BY <1>7, <4>1, <5>1, <5>2
      <4> QED BY <4>1, <4>5, <4>6
    <3> QED BY <3>1, <3>2
  <2> QED BY <1>4, <2>1 DEF WindowKnown
<1> QED BY <1>10, <1>11, <1>12, <1>13 DEF OrderingInv

LEMMA OlderType == ASSUME NEW age \in Nat PROVE Older(age) \in Nat
BY DEF Older

\* Every entry ages with its entry in the map.
LEMMA TimeKeeps == ASSUME OrderingInv, TimePasses PROVE OrderingInv'
<1>1. /\ seen' = [id \in Known |-> Older(seen[id])]
      /\ accepted' = [i \in DOMAIN accepted |-> [accepted[i] EXCEPT !.age = Older(@)]]
      /\ UNCHANGED <<duration, seenOrder, renewed>>
  BY DEF TimePasses
<1>2. accepted \in Seq(Entries) /\ DOMAIN accepted = 1..Len(accepted) /\ Len(accepted) \in Nat
  BY DEF OrderingInv, WindowType
<1>3. ASSUME NEW i \in 1..Len(accepted)
      PROVE  LET older == [accepted[i] EXCEPT !.age = Older(@)]
             IN  /\ older \in Entries /\ older.id = accepted[i].id
                 /\ older.age = Older(accepted[i].age)
  <2>1. accepted[i] \in Entries
    BY <1>2
  <2>2. accepted[i].age \in Nat /\ Older(accepted[i].age) \in Nat
    BY <2>1, OlderType DEF Entries
  <2> QED BY <2>1, <2>2 DEF Entries
<1>4. /\ accepted' \in Seq(Entries) /\ Len(accepted') = Len(accepted)
      /\ \A i \in 1..Len(accepted) : /\ accepted'[i].id = accepted[i].id
                                     /\ accepted'[i].age = Older(accepted[i].age)
  <2> DEFINE older(i) == [accepted[i] EXCEPT !.age = Older(@)]
  <2>1. accepted' = [i \in 1..Len(accepted) |-> older(i)]
    BY <1>1, <1>2
  <2>2. \A i \in 1..Len(accepted) : /\ older(i) \in Entries /\ older(i).id = accepted[i].id
                                     /\ older(i).age = Older(accepted[i].age)
    BY <1>3
  <2> HIDE DEF older
  <2> QED BY <1>2, <2>1, <2>2
<1>5. Known' = Known /\ \A id \in Known : seen'[id] = Older(seen[id]) /\ seen'[id] \in Nat
  BY <1>1, OlderType DEF Known, OrderingInv, WindowType
<1>6. WindowType'
  BY <1>1, <1>4, <1>5 DEF OrderingInv, WindowType
<1>7. OrderIsWindow' /\ KnownFromWindow' /\ WindowKnown'
  BY <1>1, <1>4, <1>5 DEF OrderingInv, OrderIsWindow, KnownFromWindow, WindowKnown
<1> QED BY <1>6, <1>7 DEF OrderingInv

LEMMA EmptyWindow ==
  ASSUME seen = <<>>, seenOrder = <<>>, accepted = <<>>, duration \in Nat
  PROVE  OrderingInv
<1>1. Known = {} /\ Len(accepted) = 0 /\ Len(seenOrder) = 0
  BY DEF Known
<1> QED BY <1>1, OrderingAssumption
        DEF OrderingInv, WindowType, OrderIsWindow, KnownFromWindow, WindowKnown

LEMMA NextOrderingInv ==
  ASSUME OrderingInv, [OrderingNext]_orderingVars PROVE OrderingInv'
<1>1. CASE UNCHANGED <<duration, dedupVars>>
  BY <1>1 DEF dedupVars, OrderingInv, WindowType, OrderIsWindow, KnownFromWindow,
              WindowKnown, Known
<1>2. CASE Reset
  <2>1. seen' = <<>> /\ seenOrder' = <<>> /\ accepted' = <<>> /\ duration' \in Nat
    BY <1>2 DEF Reset, OrderingInv, WindowType
  <2>2. Known' = {} /\ Len(accepted') = 0 /\ Len(seenOrder') = 0
    BY <2>1 DEF Known
  <2> QED BY <2>1, <2>2, OrderingAssumption
          DEF OrderingInv, WindowType, OrderIsWindow, KnownFromWindow, WindowKnown
<1>3. ASSUME NEW id \in MessageIDs \cup {NoID}, NEW k \in PartitionKeys,
             NEW seq \in -1..MaxSeq, CheckAndTrack(id, k, seq)
      PROVE  OrderingInv'
  <2>1. CASE IsDuplicate(id) \/ id = NoID
    BY <1>1, <1>3, <2>1 DEF CheckAndTrack, Track
  <2>2. CASE ~IsDuplicate(id) /\ id # NoID
    BY <1>3, <2>2, TrackKeeps DEF CheckAndTrack
  <2> QED BY <2>1, <2>2
<1> QED BY <1>1, <1>2, <1>3, TimeKeeps DEF OrderingNext, orderingVars

\* ordering.go: the bounded map and the order list together recognise exactly
\* the IDs of the last WindowSize messages that are not too old, but for those
\* that came back after they had expired; and the map is no larger than the
\* list.  For any messages, partitions, sizes and durations.
THEOREM TheWindowIsExact == OrderingSpec => []WindowExact
<1>1. OrderingInv => WindowExact
  <2> SUFFICES ASSUME OrderingInv PROVE WindowExact
    OBVIOUS
  <2>1. accepted \in Seq(Entries) /\ DOMAIN accepted = 1..Len(accepted) /\ duration \in Nat
    BY DEF OrderingInv, WindowType
  <2>2. ASSUME NEW id \in Known, IsDuplicate(id) PROVE id \in InWindow
    <3>1. PICK i \in 1..Len(accepted) : accepted[i].id = id /\ accepted[i].age = seen[id]
      BY DEF OrderingInv, KnownFromWindow
    <3>2. duration = 0 \/ accepted[i].age <= duration
      <4>1. seen[id] \in Nat
        BY DEF OrderingInv, WindowType
      <4> QED BY <2>1, <2>2, <3>1, <4>1 DEF IsDuplicate, Expired
    <3> QED BY <2>1, <3>1, <3>2 DEF InWindow
  <2>3. ASSUME NEW id \in InWindow \ renewed PROVE IsDuplicate(id)
    <3>1. PICK i \in 1..Len(accepted) :
            accepted[i].id = id /\ (duration = 0 \/ accepted[i].age <= duration)
      BY <2>1 DEF InWindow
    <3>2. id \in Known /\ seen[id] = accepted[i].age
      BY <3>1 DEF OrderingInv, WindowKnown
    <3>3. seen[id] \in Nat
      BY <3>2 DEF OrderingInv, WindowType
    <3> QED BY <2>1, <3>1, <3>2, <3>3 DEF IsDuplicate, Expired
  <2>4. MapIsBounded
    <3>1. ASSUME NEW id \in Known PROVE id \in ToSet(seenOrder)
      <4>1. PICK i \in 1..Len(accepted) : accepted[i].id = id
        BY DEF OrderingInv, KnownFromWindow
      <4>2. seenOrder[i] = id /\ i \in DOMAIN seenOrder
        BY <4>1 DEF OrderingInv, OrderIsWindow, WindowType
      <4> QED BY <4>2 DEF ToSet
    <3> QED BY <3>1 DEF MapIsBounded, OrderingInv, WindowType
  <2> QED BY <2>2, <2>3, <2>4 DEF WindowExact, IsDuplicate
<1>2. OrderingInit => OrderingInv
  BY EmptyWindow, OrderingAssumption DEF OrderingInit
<1>3. OrderingInv /\ [OrderingNext]_orderingVars => OrderingInv'
  BY NextOrderingInv
<1> QED BY <1>1, <1>2, <1>3, PTL DEF OrderingSpec
-----------------------------------------------------------------------------
(***************************************************************************)
(* MessageOrdering, the gaps.  A partition's sequence numbers have all been *)
(* within its first and its last, so what a new one skips nobody has       *)
(* skipped before.                                                         *)
(***************************************************************************)

SequenceType ==
    /\ last \in [PartitionKeys -> -1..MaxSeq] /\ first \in [PartitionKeys -> -1..MaxSeq]
    /\ advanced \in [PartitionKeys -> SUBSET (0..MaxSeq)]
    /\ totalGap \in Nat

GapInv ==
    /\ SequenceType
    /\ IsFiniteSet(Skipped) /\ GapsAccounted
    /\ \A k \in PartitionKeys : 
         /\ last[k] # -1 => first[k] \in 0..last[k]
         /\ \A n \in advanced[k] : n <= last[k]

LEMMA SkippedFrom ==
  ASSUME NEW k \in PartitionKeys, NEW n \in 0..MaxSeq
  PROVE  /\ <<k, n>> \in Skipped <=> first[k] <= n /\ n <= last[k] /\ n \notin advanced[k]
         /\ (<<k, n>> \in Skipped)' <=> first'[k] <= n /\ n <= last'[k] /\ n \notin advanced'[k]
BY DEF Skipped, Missing

\* A first message skips nothing, and one that moves its partition on skips what
\* lies between.
LEMMA FirstSkipsNothing ==
  ASSUME GapInv, NEW k \in PartitionKeys, NEW seq \in 0..MaxSeq, last[k] = -1,
         last' = [last EXCEPT ![k] = seq], first' = [first EXCEPT ![k] = seq],
         advanced' = [advanced EXCEPT ![k] = {seq}]
  PROVE  Skipped' = Skipped
<1>1. ASSUME NEW j \in PartitionKeys, NEW n \in 0..MaxSeq
      PROVE  (<<j, n>> \in Skipped)' <=> <<j, n>> \in Skipped
  <2>1. CASE j = k
    BY <2>1, SkippedFrom, OrderingAssumption DEF GapInv, SequenceType
  <2>2. CASE j # k
    BY <2>2, SkippedFrom DEF GapInv, SequenceType
  <2> QED BY <2>1, <2>2
<1> QED BY <1>1 DEF Skipped

LEMMA AdvanceSkips ==
  ASSUME GapInv, NEW k \in PartitionKeys, NEW seq \in 0..MaxSeq,
         last[k] # -1, seq > last[k], UNCHANGED first,
         last' = [last EXCEPT ![k] = seq],
         advanced' = [advanced EXCEPT ![k] = @ \cup {seq}]
  PROVE  /\ IsFiniteSet(Skipped')
         /\ Cardinality(Skipped') = Cardinality(Skipped) + GapSize(k, seq)
<1> DEFINE between == (last[k] + 1)..(seq - 1)
           new == {k} \X between
<1>1. last[k] \in 0..MaxSeq /\ first[k] \in 0..last[k] /\ MaxSeq \in Nat
  BY OrderingAssumption DEF GapInv, SequenceType
<1>2. IsFiniteSet(between) /\ Cardinality(between) = seq - 1 - last[k]
  <2>1. last[k] + 1 \in Int /\ seq - 1 \in Int
    BY <1>1
  <2>2. /\ IsFiniteSet(between)
        /\ Cardinality(between) = IF last[k] + 1 > seq - 1 THEN 0
                                  ELSE (seq - 1) - (last[k] + 1) + 1
    BY <2>1, FS_Interval
  <2> HIDE DEF between
  <2> QED BY <1>1, <2>2
<1>3. IsFiniteSet(new) /\ Cardinality(new) = seq - 1 - last[k]
  <2>1. IsFiniteSet({k}) /\ Cardinality({k}) = 1
    BY FS_Singleton
  <2> HIDE DEF between
  <2>2. IsFiniteSet(new) /\ Cardinality(new) = 1 * Cardinality(between)
    BY <1>2, <2>1, FS_Product
  <2> HIDE DEF new
  <2> QED BY <1>1, <1>2, <2>2
<1>4. ASSUME NEW j \in PartitionKeys, NEW n \in 0..MaxSeq
      PROVE  /\ (<<j, n>> \in Skipped)' <=> <<j, n>> \in Skipped \/ <<j, n>> \in new
             /\ ~(<<j, n>> \in Skipped /\ <<j, n>> \in new)
  <2>1. <<j, n>> \in new <=> j = k /\ last[k] < n /\ n < seq
    BY <1>1
  <2>2. CASE j = k
    <3>1. last'[k] = seq /\ first'[k] = first[k] /\ advanced'[k] = advanced[k] \cup {seq}
      BY DEF GapInv, SequenceType
    <3>2. n \in advanced[k] => n <= last[k]
      BY DEF GapInv
    <3> QED BY <1>1, <2>1, <2>2, <3>1, <3>2, SkippedFrom
  <2>3. CASE j # k
    BY <2>1, <2>3, SkippedFrom DEF GapInv, SequenceType
  <2> QED BY <2>2, <2>3
<1>5. new \subseteq PartitionKeys \X (0..MaxSeq)
  BY <1>1
<1> HIDE DEF new
<1>6. Skipped' = Skipped \cup new /\ Skipped \cap new = {}
  BY <1>4, <1>5 DEF Skipped
<1>7. Cardinality(Skipped \cap new) = 0
  BY <1>6, FS_EmptySet
<1>8. IsFiniteSet(Skipped) /\ Cardinality(Skipped) \in Nat
  BY FS_CardinalityType DEF GapInv
<1>9. /\ IsFiniteSet(Skipped \cup new)
      /\ Cardinality(Skipped \cup new) =
           Cardinality(Skipped) + Cardinality(new) - Cardinality(Skipped \cap new)
  BY <1>3, <1>8, FS_Union
<1>10. Cardinality(Skipped \cup new) = Cardinality(Skipped) + (seq - 1 - last[k])
  BY <1>1, <1>3, <1>7, <1>8, <1>9
<1> QED BY <1>1, <1>6, <1>9, <1>10 DEF GapSize

LEMMA CheckKeepsGaps ==
  ASSUME GapInv, NEW k \in PartitionKeys, NEW seq \in -1..MaxSeq, CheckSequence(k, seq)
  PROVE  GapInv'
<1> USE OrderingAssumption
<1>1. SequenceType /\ MaxSeq \in Nat
  BY DEF GapInv
<1>2. last[k] \in -1..MaxSeq /\ last' = [last EXCEPT ![k] = IF seq > last[k] THEN seq ELSE last[k]]
  BY <1>1 DEF CheckSequence, LastAfter, SequenceType
<1>3. CASE seq <= last[k]
  <2>1. last' = last /\ UNCHANGED <<totalGap, first, advanced>>
    BY <1>1, <1>2, <1>3 DEF CheckSequence, SequenceType
  <2>2. Skipped' = Skipped
    BY <2>1 DEF Skipped, Missing
  <2> QED BY <2>1, <2>2 DEF GapInv, SequenceType, GapsAccounted
<1>4. CASE seq > last[k] /\ last[k] = -1
  <2>1. /\ last' = [last EXCEPT ![k] = seq] /\ first' = [first EXCEPT ![k] = seq]
        /\ advanced' = [advanced EXCEPT ![k] = {seq}] /\ UNCHANGED totalGap
        /\ seq \in 0..MaxSeq
    <3>1. seq \in 0..MaxSeq /\ seq # -1 /\ ~(seq <= last[k])
      BY <1>1, <1>2, <1>4
    <3> QED BY <1>2, <1>4, <3>1 DEF CheckSequence
  <2>2. Skipped' = Skipped
    BY <1>4, <2>1, FirstSkipsNothing
  <2>3. SequenceType'
    BY <1>1, <2>1 DEF SequenceType
  <2>4. \A j \in PartitionKeys : /\ last'[j] # -1 => first'[j] \in 0..last'[j]
                                 /\ \A n \in advanced'[j] : n <= last'[j]
    BY <1>1, <2>1 DEF GapInv, SequenceType
  <2> QED BY <2>1, <2>2, <2>3, <2>4 DEF GapInv, GapsAccounted
<1>5. CASE seq > last[k] /\ last[k] # -1
  <2>1. /\ last' = [last EXCEPT ![k] = seq] /\ UNCHANGED first
        /\ advanced' = [advanced EXCEPT ![k] = @ \cup {seq}]
        /\ totalGap' = totalGap + GapSize(k, seq)
        /\ seq \in 0..MaxSeq
    BY <1>1, <1>2, <1>5 DEF CheckSequence, GapSize, SequenceType
  <2>2. IsFiniteSet(Skipped') /\ Cardinality(Skipped') = Cardinality(Skipped) + GapSize(k, seq)
    BY <1>5, <2>1, AdvanceSkips
  <2>3. SequenceType'
    <3>1. GapSize(k, seq) \in Nat
      BY <1>2, <1>5, <2>1 DEF GapSize
    <3> QED BY <1>1, <2>1, <3>1 DEF SequenceType
  <2>4. \A j \in PartitionKeys : /\ last'[j] # -1 => first'[j] \in 0..last'[j]
                                 /\ \A n \in advanced'[j] : n <= last'[j]
    BY <1>1, <1>5, <2>1 DEF GapInv, SequenceType
  <2> QED BY <2>1, <2>2, <2>3, <2>4 DEF GapInv, GapsAccounted
<1> QED BY <1>2, <1>3, <1>4, <1>5

LEMMA NothingSkipped ==
  ASSUME last = NoSequence, first = NoSequence, advanced = NoneAdvanced, totalGap = 0
  PROVE  GapInv
<1>1. MaxSeq \in Nat /\ Skipped = {}
  BY OrderingAssumption DEF Skipped, Missing, NoSequence
<1>2. IsFiniteSet(Skipped) /\ GapsAccounted
  BY <1>1, FS_EmptySet DEF GapsAccounted
<1> QED BY <1>1, <1>2 DEF GapInv, SequenceType, NoSequence, NoneAdvanced

LEMMA NextGapInv == ASSUME GapInv, [OrderingNext]_orderingVars PROVE GapInv'
<1>1. CASE UNCHANGED sequenceVars
  <2>1. Skipped' = Skipped
    BY <1>1 DEF sequenceVars, Skipped, Missing
  <2> QED BY <1>1, <2>1 DEF sequenceVars, GapInv, SequenceType, GapsAccounted
<1>2. CASE Reset
  <2>1. last' = NoSequence /\ first' = NoSequence /\ advanced' = NoneAdvanced /\ totalGap' = 0
    BY <1>2 DEF Reset, NoSequence, NoneAdvanced
  <2>2. MaxSeq \in Nat /\ Skipped' = {}
    BY <2>1, OrderingAssumption DEF Skipped, Missing, NoSequence
  <2>3. IsFiniteSet(Skipped') /\ GapsAccounted'
    BY <2>1, <2>2, FS_EmptySet DEF GapsAccounted
  <2> QED BY <2>1, <2>2, <2>3 DEF GapInv, SequenceType, NoSequence, NoneAdvanced
<1>3. ASSUME NEW id \in MessageIDs \cup {NoID}, NEW k \in PartitionKeys,
             NEW seq \in -1..MaxSeq, CheckAndTrack(id, k, seq)
      PROVE  GapInv'
  BY <1>1, <1>3, CheckKeepsGaps DEF CheckAndTrack
<1> QED BY <1>1, <1>2, <1>3 DEF OrderingNext, TimePasses, orderingVars

\* ordering.go, checkSequence: TotalGapMessages is the number of sequence numbers
\* that partitions have skipped, each counted once, whatever comes late or twice.
\* For any partitions, messages and order of arrival.
THEOREM GapsAreCounted == OrderingSpec => []GapsAccounted
<1>1. OrderingInit => GapInv
  BY NothingSkipped DEF OrderingInit
<1>2. GapInv /\ [OrderingNext]_orderingVars => GapInv'
  BY NextGapInv
<1>3. GapInv => GapsAccounted
  BY DEF GapInv
<1> QED BY <1>1, <1>2, <1>3, PTL DEF OrderingSpec
-----------------------------------------------------------------------------
(***************************************************************************)
(* TargetRate.  RatesHold is about rates and counts of different windows:  *)
(* the invariant says which count, over which time, each rate came from.   *)
(***************************************************************************)

Counted(c) == DOMAIN c \subseteq Keys /\ \A k \in DOMAIN c : c[k] \in Nat \ {0}

\* A key's rate is the one its count in the window before earned, over the time
\* that window was really open.
RatesAreEarned ==
    \A k \in DOMAIN rates :
      /\ k \in DOMAIN closed.counts /\ closed.elapsed \in Nat \ {0}
      /\ rates[k] = IF closed.counts[k] <= PerTick * closed.elapsed THEN <<1, 1>>
                    ELSE <<PerTick * closed.elapsed, closed.counts[k]>>

RateInv ==
    /\ Counted(counts) /\ Counted(closed.counts) /\ elapsed \in Nat
    /\ RatesAreEarned /\ RatesAreBounded
-----------------------------------------------------------------------------
\* n spans in e ticks against c spans in the E ticks of the window before.
LEMMA BudgetArithmetic ==
  ASSUME NEW n \in Nat, NEW c \in Nat, NEW e \in Nat, NEW E \in Nat \ {0}, NEW P \in Nat
  PROVE  /\ c <= P * E /\ n * E <= c * e => n * 1 <= P * e * 1
         /\ n * E <= c * e => n * (P * E) <= P * e * c
         /\ n * E = c * e => n * (P * E) = P * e * c
<1>1. ASSUME c <= P * E, n * E <= c * e PROVE n <= P * e
  <2>1. c * e <= (P * E) * e
    BY <1>1
  <2>2. (P * E) * e = (P * e) * E
    OBVIOUS
  <2>3. n * E <= (P * e) * E
    BY <1>1, <2>1, <2>2
  <2> DEFINE b == P * e
  <2>4. b \in Nat /\ n * E <= b * E
    BY <2>3
  <2> HIDE DEF b
  <2>5. n <= b
    BY <2>4
  <2> QED BY <2>5 DEF b
<1>2. n * (P * E) = P * (n * E) /\ P * e * c = P * (c * e)
  OBVIOUS
<1>3. ASSUME NEW a \in Nat, NEW b \in Nat, a <= b PROVE P * a <= P * b
  BY <1>3
<1>4. n * E \in Nat /\ c * e \in Nat
  OBVIOUS
<1> QED BY <1>1, <1>2, <1>3, <1>4

\* A trim keeps some of the keys, no more than the limit, and the busiest.
LEMMA TrimmedFacts ==
  ASSUME NEW c, Counted(c), NEW kept \in Trimmed(c)
  PROVE  /\ kept \subseteq DOMAIN c /\ Cardinality(kept) <= MaxKeys
         /\ \A k \in kept, d \in (DOMAIN c) \ kept : c[k] >= c[d]
BY TargetRateAssumption DEF Trimmed

LEMMA CountedOnceFacts ==
  ASSUME NEW c, Counted(c), NEW k \in Keys PROVE Counted(CountedOnce(c, k))
BY DEF Counted, CountedOnce

LEMMA NoneCounted == Counted(<<>>) /\ DOMAIN <<>> = {}
BY DEF Counted

\* The rates of a window's end.
LEMMA WindowCloses ==
  ASSUME RateInv, elapsed >= Interval, NEW kept \in Trimmed(counts),
         rates' = [x \in kept |-> RateFor(counts[x])],
         closed' = [counts |-> counts, elapsed |-> elapsed]
  PROVE  Counted(closed.counts)' /\ RatesAreEarned' /\ RatesAreBounded'
<1>1. /\ kept \subseteq DOMAIN counts /\ Cardinality(kept) <= MaxKeys
      /\ \A k \in kept, d \in (DOMAIN counts) \ kept : counts[k] >= counts[d]
  BY TrimmedFacts DEF RateInv
<1>2. elapsed \in Nat \ {0}
  BY TargetRateAssumption DEF RateInv
<1>3. closed'.counts = counts /\ closed'.elapsed = elapsed /\ DOMAIN rates' = kept
  OBVIOUS
<1>4. \A k \in kept : rates'[k] = IF counts[k] <= PerTick * elapsed THEN <<1, 1>>
                                  ELSE <<PerTick * elapsed, counts[k]>>
  BY DEF RateFor, WindowLength, KeepAll
<1>5. Counted(closed.counts)'
  BY <1>3 DEF RateInv, Counted
<1>6. RatesAreEarned'
  BY <1>1, <1>2, <1>3, <1>4 DEF RatesAreEarned
<1>7. RatesAreBounded'
  BY <1>1, <1>3 DEF RatesAreBounded
<1> QED BY <1>5, <1>6, <1>7

LEMMA NextRateInv == ASSUME RateInv, [RateNext]_rateVars PROVE RateInv'
<1>1. CASE UNCHANGED rateVars
  BY <1>1 DEF rateVars, RateInv, Counted, RatesAreEarned, RatesAreBounded
<1>2. CASE TimeElapses
  <2>1. elapsed' \in Nat /\ UNCHANGED <<counts, rates, closed>>
    BY <1>2 DEF TimeElapses, RateInv
  <2> QED BY <2>1 DEF RateInv, Counted, RatesAreEarned, RatesAreBounded
<1>3. ASSUME NEW k \in Keys, ShouldSample(k) PROVE RateInv'
  <2>1. CASE elapsed < Interval
    <3>1. /\ elapsed \in Nat /\ Interval \in Nat
          /\ counts' = CountedOnce(counts, k) /\ UNCHANGED <<rates, elapsed, closed>>
      BY <1>3, <2>1, TargetRateAssumption DEF ShouldSample, RateInv
    <3>2. Counted(counts)'
      <4>1. Counted(CountedOnce(counts, k))
        BY CountedOnceFacts DEF RateInv
      <4> QED BY <3>1, <4>1 DEF Counted
    <3> QED BY <3>1, <3>2 DEF RateInv, Counted, RatesAreEarned, RatesAreBounded
  <2>2. CASE ~(elapsed < Interval)
    <3>1. /\ elapsed >= Interval
          /\ \E kept \in Trimmed(counts) :
               /\ rates' = [x \in kept |-> RateFor(counts[x])]
               /\ closed' = [counts |-> counts, elapsed |-> elapsed]
          /\ counts' = CountedOnce(<<>>, k) /\ elapsed' = 0
      BY <1>3, <2>2 DEF ShouldSample
    <3>2. Counted(closed.counts)' /\ RatesAreEarned' /\ RatesAreBounded'
      BY <3>1, WindowCloses
    <3>3. Counted(counts)'
      <4>1. Counted(CountedOnce(<<>>, k))
        BY NoneCounted, CountedOnceFacts
      <4> QED BY <3>1, <4>1 DEF Counted
    <3> QED BY <3>1, <3>2, <3>3 DEF RateInv
  <2> QED BY <2>1, <2>2
<1> QED BY <1>1, <1>2, <1>3 DEF RateNext

LEMMA InitRateInv == ASSUME RateInit PROVE RateInv
<1>1. counts = <<>> /\ closed.counts = <<>> /\ elapsed = 0 /\ rates = <<>>
  BY DEF RateInit
<1>2. Counted(counts) /\ Counted(closed.counts)
  BY <1>1, NoneCounted
<1>3. DOMAIN rates = {} /\ Cardinality(DOMAIN rates) = 0
  BY <1>1, NoneCounted, FS_EmptySet
<1> QED BY <1>1, <1>2, <1>3, TargetRateAssumption
        DEF RateInv, RatesAreEarned, RatesAreBounded

\* targetrate.go: however late the call that closes a window, traffic no denser
\* than in that window keeps no more than the budget, and traffic as dense no
\* less; and the rates stay within the limit, with the busiest keys.  For any
\* keys, budget, interval, limit and traffic.
THEOREM RatesKeepTheBudget == RateSpec => []RatesHold
<1>1. RateInv => RatesHold
  <2> SUFFICES ASSUME RateInv, NEW k \in (DOMAIN rates) \cap DOMAIN counts
               PROVE  LET dense == counts[k] * closed.elapsed
                          before == closed.counts[k] * elapsed
                          kept == counts[k] * rates[k][1]
                          budget == PerTick * elapsed * rates[k][2]
                      IN  /\ dense <= before => kept <= budget
                          /\ dense = before /\ rates[k] # KeepAll => kept = budget
    BY DEF RatesHold, BudgetHeld, RateInv
  <2> DEFINE n == counts[k]
             c == closed.counts[k]
             e == elapsed
             E == closed.elapsed
             P == PerTick
  <2>1. /\ n \in Nat /\ c \in Nat /\ e \in Nat /\ E \in Nat \ {0} /\ P \in Nat
        /\ rates[k] = IF c <= P * E THEN <<1, 1>> ELSE <<P * E, c>>
    BY TargetRateAssumption DEF RateInv, Counted, RatesAreEarned
  <2> HIDE DEF n, c, e, E, P
  <2>2. /\ c <= P * E /\ n * E <= c * e => n * 1 <= P * e * 1
        /\ n * E <= c * e => n * (P * E) <= P * e * c
        /\ n * E = c * e => n * (P * E) = P * e * c
    BY <2>1, BudgetArithmetic
  <2>3. CASE c <= P * E
    <3>1. rates[k][1] = 1 /\ rates[k][2] = 1 /\ rates[k] = KeepAll
      BY <2>1, <2>3 DEF KeepAll
    <3> QED BY <2>2, <2>3, <3>1 DEF n, c, e, E, P
  <2>4. CASE ~(c <= P * E)
    <3>1. rates[k][1] = P * E /\ rates[k][2] = c
      BY <2>1, <2>4
    <3> QED BY <2>2, <3>1 DEF n, c, e, E, P
  <2> QED BY <2>3, <2>4
<1>2. RateInit => RateInv
  BY InitRateInv
<1>3. RateInv /\ [RateNext]_rateVars => RateInv'
  BY NextRateInv
<1> QED BY <1>1, <1>2, <1>3, PTL DEF RateSpec
-----------------------------------------------------------------------------
(***************************************************************************)
(* LogSinks.  LiveFileStays needs that whoever rolls goes to a period that *)
(* has come, so that stamps only grow; what a writer that prunes has in    *)
(* hand by now: never its own file and, unless the clock was set back,     *)
(* only files older than some writer's; and whose file Init and Shutdown   *)
(* may close.                                                              *)
(***************************************************************************)

Sinks == {"stderr", "file", "otlp"}
OnItsWay == [at : Places \ {"write", "rolling"}, delivered : SUBSET Sinks]
AboutToWrite == [at : {"write", "rolling"}, delivered : SUBSET Sinks, to : Writers]
WriterRecord == [open : BOOLEAN, stamp : 1..MaxNow, step : RollSteps,
                 target : 1..MaxNow, doomed : SUBSET Stamps]

FileType == /\ now \in 1..MaxNow /\ directory \subseteq Stamps
            /\ writer \in [Writers -> WriterRecord]
InstallType == /\ logFileSink \in Writers \cup {NoWriter}
               /\ install \in [Writers -> Installs]
               /\ ousted \in [Writers -> Writers \cup {NoWriter}]
HandlingType == handling \in [Loggers -> OnItsWay \cup AboutToWrite]

\* A roll goes forward, to a period that has come; only a writer that is
\* removing files has files to remove, and its own is not one of them.
InOrder(w) ==
    /\ writer[w].stamp <= writer[w].target /\ writer[w].target <= now
    /\ writer[w].step # "removing" => writer[w].doomed = {}
    /\ writer[w].step = "listing" => MaxFiles > 0
    /\ writer[w].stamp \notin writer[w].doomed
    /\ install[w] = "none" => writer[w].step = "idle" /\ ~writer[w].open

\* Some writer has come to s, or passed it.
Reached(s) == \E v \in Writers : s <= writer[v].stamp
Passed(s) == \E v \in Writers : s < writer[v].stamp

\* Unless the clock was set back, no file is ahead of every writer, and a prune
\* takes only files that some writer has left behind.
Behind == ~setBack => /\ \A s \in directory : Reached(s)
                      /\ \A w \in Writers : \A s \in writer[w].doomed : Passed(s)

\* The file of w is there.
Kept(w) == writer[w].open /\ (Alone(w) \/ (~setBack /\ Leads(w)))
             => writer[w].stamp \in directory

FileInv == \A w \in Writers : InOrder(w) /\ Kept(w)

\* The sink is one that Init has put there and Shutdown has not taken away.  It
\* is open, and no Init that swapped another one out is about to close it.
Swapped == {"swapped", "installed", "closing", "retired", "closed"}
Installation ==
    /\ \A w \in Writers : install[w] \in {"opened", "flagged"} => writer[w].open
    /\ \A w \in Writers : ousted[w] # NoWriter =>
         install[ousted[w]] \in Swapped /\ ousted[w] # logFileSink
    /\ logFileSink # NoWriter =>
         /\ writer[logFileSink].open
         /\ install[logFileSink] \in {"swapped", "installed", "closing"}

LogInv == FileType /\ InstallType /\ HandlingType /\ FileInv /\ Behind /\ Installation
-----------------------------------------------------------------------------
\* A file is doomed only for a newer one, and never the live file.
LEMMA DoomedFacts ==
  ASSUME NEW d \in SUBSET Stamps, NEW live \in Stamps, MaxFiles > 0
  PROVE  /\ Doomed(d, live) \subseteq d /\ live \notin Doomed(d, live)
         /\ \A s \in Doomed(d, live) : \E t \in d : t > s
<1>1. Doomed(d, live) \subseteq d /\ live \notin Doomed(d, live)
  BY DEF Doomed
<1>2. ASSUME NEW s \in Doomed(d, live), ~\E t \in d : t > s
      PROVE  FALSE
  <2> DEFINE e == d \ {live}
  <2>1. {t \in e : t > s} = {}
    BY <1>2
  <2>2. Cardinality({t \in e : t > s}) = 0
    BY <2>1, FS_EmptySet
  <2>3. 0 < MaxFiles - 1
    BY LogSinksAssumption
  <2>4. s \in e /\ s \notin Newest(e, MaxFiles - 1)
    BY DEF Doomed
  <2> QED BY <2>2, <2>3, <2>4 DEF Newest
<1> QED BY <1>1, <1>2

LEMMA InitLogInv == ASSUME LogInit PROVE LogInv
<1> USE LogSinksAssumption DEF LogInit
<1>1. now \in 1..MaxNow /\ now = 1
  OBVIOUS
<1>2. directory \subseteq Stamps /\ (~setBack => directory \subseteq {0})
  BY DEF Stamps
<1> DEFINE rec == [open |-> FALSE, stamp |-> now, step |-> "idle", target |-> now,
                   doomed |-> {}]
<1>3. rec \in WriterRecord
  BY <1>1 DEF WriterRecord, RollSteps, Stamps
<1>4. writer \in [Writers -> WriterRecord] /\ \A w \in Writers : writer[w] = rec
  BY <1>3
<1>5. \A w \in Writers : ~writer[w].open /\ writer[w].stamp = now /\ writer[w].target = now
                         /\ writer[w].step = "idle" /\ writer[w].doomed = {}
  BY <1>4
<1>6. HandlingType
  <2>1. NotHandling \in OnItsWay
    BY DEF NotHandling, OnItsWay, Places
  <2> QED BY <2>1 DEF HandlingType
<1>7. InstallType /\ Installation
  BY DEF InstallType, Installation, Installs
<1>8. FileInv
  BY <1>1, <1>5 DEF FileInv, InOrder, Kept
<1>9. Behind
  <2> SUFFICES ASSUME ~setBack, NEW s \in directory PROVE Reached(s)
    BY <1>5 DEF Behind
  <2>1. PICK w \in Writers : TRUE
    OBVIOUS
  <2>2. s <= writer[w].stamp
    BY <1>1, <1>2, <1>5
  <2> QED BY <2>2 DEF Reached
<1> QED BY <1>1, <1>2, <1>4, <1>6, <1>7, <1>8, <1>9 DEF LogInv, FileType
-----------------------------------------------------------------------------
(* What the writers may do, whoever makes them: a step of one writer that    *)
(* keeps its type and order, moves its stamp forward only to a file that is  *)
(* there, and dooms only what some writer has passed.                        *)

\* The other writers, and time, are left alone.
OnlyMoves(w) == /\ writer' \in [Writers -> WriterRecord]
                /\ \A v \in Writers \ {w} : writer'[v] = writer[v]
                /\ UNCHANGED <<now, setBack>>

LEMMA MoveKeeps ==
  ASSUME LogInv, NEW w \in Writers, OnlyMoves(w), InOrder(w)',
         directory' \subseteq Stamps, directory \subseteq directory',
         \A v \in Writers : install'[v] = "none" => install[v] = "none",
         writer[w].stamp <= writer'[w].stamp,
         \A s \in directory' \ directory : s = writer'[w].stamp,
         writer'[w].stamp # writer[w].stamp \/ (writer'[w].open /\ ~writer[w].open) =>
           writer'[w].stamp \in directory',
         ~setBack => \A s \in writer'[w].doomed : Passed(s)
  PROVE  FileType' /\ FileInv' /\ Behind'
<1>1. /\ now \in 1..MaxNow /\ MaxNow \in Nat
      /\ writer \in [Writers -> WriterRecord]
      /\ \A v \in Writers : writer[v].stamp \in 1..MaxNow /\ writer'[v].stamp \in 1..MaxNow
  BY LogSinksAssumption DEF LogInv, FileType, WriterRecord, OnlyMoves
<1>2. FileType'
  BY DEF OnlyMoves, FileType, LogInv
<1>3. \A v \in Writers : writer[v].stamp <= writer'[v].stamp
  BY <1>1 DEF OnlyMoves
<1>4. \A v \in Writers : InOrder(v)'
  <2> SUFFICES ASSUME NEW v \in Writers, v # w PROVE InOrder(v)'
    OBVIOUS
  <2> QED BY DEF OnlyMoves, LogInv, FileInv, InOrder
<1>5. ASSUME NEW v \in Writers, writer'[v].open, Alone(v)' \/ (~setBack' /\ Leads(v)')
      PROVE  writer'[v].stamp \in directory'
  <2>1. CASE writer'[v].stamp # writer[v].stamp \/ ~writer[v].open
    BY <1>5, <2>1 DEF OnlyMoves
  <2>2. CASE writer'[v].stamp = writer[v].stamp /\ writer[v].open
    <3>1. Alone(v)' => Alone(v)
      BY DEF Alone
    <3>2. Leads(v)' => Leads(v)
      <4> SUFFICES ASSUME Leads(v)', NEW u \in Writers
                   PROVE  writer[u].stamp <= writer[v].stamp
        BY DEF Leads
      <4>1. writer'[u].stamp <= writer'[v].stamp
        BY DEF Leads
      <4> QED BY <1>1, <1>3, <2>2, <4>1
    <3>3. writer[v].stamp \in directory
      BY <1>5, <2>2, <3>1, <3>2 DEF LogInv, FileInv, Kept, OnlyMoves
    <3> QED BY <2>2, <3>3
  <2> QED BY <2>1, <2>2
<1>6. Behind'
  <2> SUFFICES ASSUME ~setBack
               PROVE  /\ \A s \in directory' : Reached(s)'
                      /\ \A v \in Writers : \A s \in writer'[v].doomed : Passed(s)'
    BY DEF Behind, OnlyMoves
  <2>1. ASSUME NEW s \in directory' PROVE Reached(s)'
    <3>1. CASE s \in directory
      <4>1. PICK u \in Writers : s <= writer[u].stamp
        BY <3>1 DEF LogInv, Behind, Reached
      <4>2. s \in Stamps
        BY <3>1 DEF LogInv, FileType
      <4>3. s <= writer'[u].stamp
        BY <1>1, <1>3, <4>1, <4>2 DEF Stamps
      <4> QED BY <4>3 DEF Reached
    <3>2. CASE s \notin directory
      <4>1. s = writer'[w].stamp
        BY <2>1, <3>2
      <4> QED BY <1>1, <4>1 DEF Reached
    <3> QED BY <3>1, <3>2
  <2>2. ASSUME NEW v \in Writers, NEW s \in writer'[v].doomed PROVE Passed(s)'
    <3>1. Passed(s)
      <4>1. CASE v = w
        BY <2>2, <4>1
      <4>2. CASE v # w
        BY <2>2, <4>2 DEF OnlyMoves, LogInv, Behind
      <4> QED BY <4>1, <4>2
    <3>2. PICK u \in Writers : s < writer[u].stamp
      BY <3>1 DEF Passed
    <3>3. s \in Stamps
      BY <2>2 DEF OnlyMoves, WriterRecord
    <3>4. s < writer'[u].stamp
      BY <1>1, <1>3, <3>2, <3>3 DEF Stamps
    <3> QED BY <3>4 DEF Passed
  <2> QED BY <2>1, <2>2
<1> QED BY <1>2, <1>4, <1>5, <1>6 DEF FileInv, Kept

\* A step that takes or gives back the mutex, or closes the file.
LEMMA HandKeeps ==
  ASSUME LogInv, NEW w \in Writers, UNCHANGED <<now, directory, setBack>>,
         (BeginRoll(w) /\ Free(w)) \/ (Unlock(w) /\ writer[w].step = "rolled") \/ CloseWriter(w),
         \A v \in Writers : install'[v] = "none" => install[v] = "none",
         install'[w] = "none" => writer'[w].step = "idle" /\ ~writer'[w].open
  PROVE  /\ FileType' /\ FileInv' /\ Behind'
         /\ \A v \in Writers \ {w} : writer'[v] = writer[v]
         /\ writer'[w].open = IF CloseWriter(w) THEN FALSE ELSE writer[w].open
<1>1. /\ now \in 1..MaxNow /\ MaxNow \in Nat /\ writer \in [Writers -> WriterRecord]
      /\ writer[w] \in WriterRecord /\ writer[w].stamp \in 1..MaxNow
      /\ writer[w].target \in 1..MaxNow /\ writer[w].doomed \in SUBSET Stamps
      /\ InOrder(w)
  BY LogSinksAssumption DEF LogInv, FileType, WriterRecord, FileInv
<1>2. CASE BeginRoll(w) /\ Free(w)
  <2>1. /\ writer' = [writer EXCEPT ![w] = [writer[w] EXCEPT !.step = "opening", !.target = now]]
        /\ writer[w].step = "idle"
    BY <1>2 DEF BeginRoll, Free
  <2>2. /\ OnlyMoves(w) /\ writer'[w].stamp = writer[w].stamp
        /\ writer'[w].open = writer[w].open /\ writer'[w].doomed = writer[w].doomed
        /\ writer'[w].step = "opening" /\ writer'[w].target = now
    BY <1>1, <2>1 DEF OnlyMoves, WriterRecord, RollSteps
  <2>3. InOrder(w)'
    BY <1>1, <2>1, <2>2 DEF InOrder
  <2>4. ~setBack => \A s \in writer'[w].doomed : Passed(s)
    BY <2>2 DEF LogInv, Behind
  <2>5. FileType' /\ FileInv' /\ Behind'
    BY <1>1, <2>2, <2>3, <2>4, MoveKeeps DEF LogInv, FileType
  <2>6. ~CloseWriter(w)
    BY <2>1, <2>2 DEF CloseWriter, LogInv, FileType, WriterRecord
  <2> QED BY <2>2, <2>5, <2>6 DEF OnlyMoves
<1>3. CASE Unlock(w) /\ writer[w].step = "rolled"
  <2>1. writer' = [writer EXCEPT ![w] = [writer[w] EXCEPT !.step = "idle"]]
    BY <1>3 DEF Unlock
  <2>2. /\ OnlyMoves(w) /\ writer'[w].stamp = writer[w].stamp
        /\ writer'[w].open = writer[w].open /\ writer'[w].doomed = writer[w].doomed
        /\ writer'[w].step = "idle" /\ writer'[w].target = writer[w].target
    BY <1>1, <2>1 DEF OnlyMoves, WriterRecord, RollSteps
  <2>3. InOrder(w)'
    BY <1>1, <1>3, <2>2 DEF InOrder
  <2>4. ~setBack => \A s \in writer'[w].doomed : Passed(s)
    BY <2>2 DEF LogInv, Behind
  <2>5. FileType' /\ FileInv' /\ Behind'
    BY <1>1, <2>2, <2>3, <2>4, MoveKeeps DEF LogInv, FileType
  <2>6. ~CloseWriter(w)
    BY <1>3 DEF CloseWriter, Free
  <2> QED BY <2>2, <2>5, <2>6 DEF OnlyMoves
<1>4. CASE CloseWriter(w)
  <2>1. writer' = [writer EXCEPT ![w] = [writer[w] EXCEPT !.open = FALSE]]
    BY <1>4 DEF CloseWriter
  <2>2. /\ OnlyMoves(w) /\ writer'[w].stamp = writer[w].stamp
        /\ ~writer'[w].open /\ writer'[w].open = FALSE /\ writer'[w].doomed = writer[w].doomed
        /\ writer'[w].step = writer[w].step /\ writer'[w].target = writer[w].target
    BY <1>1, <2>1 DEF OnlyMoves, WriterRecord
  <2>3. InOrder(w)'
    BY <1>1, <2>2 DEF InOrder
  <2>4. ~setBack => \A s \in writer'[w].doomed : Passed(s)
    BY <2>2 DEF LogInv, Behind
  <2>5. FileType' /\ FileInv' /\ Behind'
    BY <1>1, <2>2, <2>3, <2>4, MoveKeeps DEF LogInv, FileType
  <2> QED BY <1>4, <2>2, <2>5 DEF OnlyMoves
<1> QED BY <1>2, <1>3, <1>4

\* A file goes only if it is not the writer's own and, unless the clock was set
\* back, another writer has passed it.
LEMMA RemoveKeeps ==
  ASSUME LogInv, NEW w \in Writers, RemoveFile(w), UNCHANGED <<now, setBack, install>>
  PROVE  /\ FileType' /\ FileInv' /\ Behind'
         /\ \A v \in Writers : writer'[v].open = writer[v].open
<1>1. PICK s \in writer[w].doomed :
        /\ directory' \in {directory, directory \ {s}}
        /\ writer' = [writer EXCEPT
             ![w] = [writer[w] EXCEPT !.doomed = writer[w].doomed \ {s},
                       !.step = IF writer[w].doomed = {s} THEN "rolled" ELSE writer[w].step]]
  BY DEF RemoveFile
<1>2. /\ writer \in [Writers -> WriterRecord] /\ writer[w] \in WriterRecord
      /\ writer[w].step = "removing" /\ InOrder(w) /\ s # writer[w].stamp
      /\ writer[w].doomed \in SUBSET Stamps
      /\ \A v \in Writers : writer[v].stamp \in 1..MaxNow /\ MaxNow \in Nat
  BY <1>1, LogSinksAssumption DEF RemoveFile, LogInv, FileType, FileInv, InOrder, WriterRecord
<1>3. /\ writer' \in [Writers -> WriterRecord]
      /\ \A v \in Writers \ {w} : writer'[v] = writer[v]
      /\ writer'[w].open = writer[w].open /\ writer'[w].stamp = writer[w].stamp
      /\ writer'[w].target = writer[w].target
      /\ writer'[w].doomed = writer[w].doomed \ {s}
      /\ writer'[w].step = IF writer[w].doomed = {s} THEN "rolled" ELSE "removing"
  BY <1>1, <1>2 DEF WriterRecord, RollSteps
<1>4. /\ \A v \in Writers : writer'[v].stamp = writer[v].stamp /\ writer'[v].open = writer[v].open
      /\ \A v \in Writers : writer'[v].doomed \subseteq writer[v].doomed
  BY <1>3
<1>5. \A v \in Writers : InOrder(v)'
  <2>1. InOrder(w)'
    BY <1>2, <1>3 DEF InOrder
  <2>2. ASSUME NEW v \in Writers, v # w PROVE InOrder(v)'
    BY <1>3, <2>2 DEF LogInv, FileInv, InOrder
  <2> QED BY <2>1, <2>2
<1>6. ASSUME NEW v \in Writers, writer[v].open, Alone(v) \/ (~setBack /\ Leads(v))
      PROVE  writer[v].stamp # s
  <2>1. CASE v = w
    BY <1>2, <2>1
  <2>2. CASE v # w /\ Alone(v)
    BY <1>2, <2>2 DEF Alone, InOrder
  <2>3. CASE ~setBack /\ Leads(v)
    <3>1. PICK u \in Writers : s < writer[u].stamp
      BY <1>1, <2>3 DEF LogInv, Behind, Passed
    <3>2. writer[u].stamp <= writer[v].stamp
      BY <2>3 DEF Leads
    <3> QED BY <1>2, <3>1, <3>2
  <2> QED BY <1>6, <2>1, <2>2, <2>3
<1>7. \A v \in Writers : Kept(v)'
  <2> SUFFICES ASSUME NEW v \in Writers, writer'[v].open, Alone(v)' \/ (~setBack' /\ Leads(v)')
               PROVE  writer'[v].stamp \in directory'
    BY DEF Kept
  <2>1. writer[v].open /\ (Alone(v) \/ (~setBack /\ Leads(v)))
    BY <1>4 DEF Alone, Leads
  <2>2. writer[v].stamp \in directory /\ writer[v].stamp # s
    BY <1>6, <2>1 DEF LogInv, FileInv, Kept
  <2> QED BY <1>1, <1>4, <2>2
<1>8. Behind'
  BY <1>1, <1>4 DEF LogInv, Behind, Reached, Passed
<1>9. FileType'
  BY <1>1, <1>3 DEF LogInv, FileType
<1> QED BY <1>4, <1>5, <1>7, <1>8, <1>9 DEF FileInv

LEMMA RollKeeps == ASSUME LogInv, NEW w \in Writers, Roll(w) PROVE LogInv'
<1>1. /\ UNCHANGED <<now, setBack, install, ousted, logsStayLocal, logFileSink, handling>>
      /\ OpenStamp(w) \/ ListFiles(w) \/ RemoveFile(w)
  BY DEF Roll, sinkVars, installVars
<1>2. /\ now \in 1..MaxNow /\ MaxNow \in Nat /\ writer \in [Writers -> WriterRecord]
      /\ writer[w] \in WriterRecord /\ writer[w].stamp \in 1..MaxNow
      /\ writer[w].target \in 1..MaxNow
      /\ writer[w].doomed \in SUBSET Stamps /\ directory \in SUBSET Stamps
      /\ InOrder(w)
  BY LogSinksAssumption DEF LogInv, FileType, WriterRecord, FileInv
<1> DEFINE Gone == writer' = [writer EXCEPT ![w] = [writer[w] EXCEPT
                              !.open = TRUE, !.stamp = writer[w].target,
                              !.step = IF MaxFiles <= 0 THEN "rolled" ELSE "listing"]]
           Stayed == writer' = [writer EXCEPT ![w] = [writer[w] EXCEPT
                              !.step = "rolled", !.target = writer[w].stamp]]
           Result == /\ FileType' /\ FileInv' /\ Behind'
                     /\ \A v \in Writers : writer[v].open => writer'[v].open
<1>3. ASSUME OpenStamp(w) /\ Gone /\ directory' = directory \cup {writer[w].target} PROVE Result
  <2>1. writer[w].step = "opening"
    BY <1>3 DEF OpenStamp
  <2>2. /\ OnlyMoves(w) /\ writer'[w].stamp = writer[w].target /\ writer'[w].open
        /\ writer'[w].doomed = writer[w].doomed /\ writer'[w].target = writer[w].target
        /\ writer'[w].step = IF MaxFiles <= 0 THEN "rolled" ELSE "listing"
    BY <1>1, <1>2, <1>3 DEF OnlyMoves, WriterRecord, RollSteps
  <2>3. InOrder(w)'
    BY <1>1, <1>2, <2>1, <2>2, LogSinksAssumption DEF InOrder
  <2>4. ~setBack => \A s \in writer'[w].doomed : Passed(s)
    BY <2>2 DEF LogInv, Behind
  <2>5. directory' \subseteq Stamps /\ directory \subseteq directory'
        /\ writer'[w].stamp \in directory'
        /\ \A s \in directory' \ directory : s = writer'[w].stamp
    BY <1>2, <1>3, <2>2 DEF Stamps
  <2>6. writer[w].stamp <= writer'[w].stamp
    BY <1>2, <2>2 DEF InOrder
  <2>7. FileType' /\ FileInv' /\ Behind'
    BY <1>1, <2>2, <2>3, <2>4, <2>5, <2>6, MoveKeeps
  <2> QED BY <2>2, <2>7 DEF OnlyMoves
<1>4. ASSUME OpenStamp(w) /\ Stayed /\ UNCHANGED directory PROVE Result
  <2>1. writer[w].step = "opening"
    BY <1>4 DEF OpenStamp
  <2>2. /\ OnlyMoves(w) /\ writer'[w].stamp = writer[w].stamp
        /\ writer'[w].open = writer[w].open /\ writer'[w].doomed = writer[w].doomed
        /\ writer'[w].step = "rolled" /\ writer'[w].target = writer[w].stamp
    BY <1>1, <1>2, <1>4 DEF OnlyMoves, WriterRecord, RollSteps
  <2>3. InOrder(w)'
    BY <1>1, <1>2, <2>1, <2>2 DEF InOrder
  <2>4. ~setBack => \A s \in writer'[w].doomed : Passed(s)
    BY <2>2 DEF LogInv, Behind
  <2>5. FileType' /\ FileInv' /\ Behind'
    BY <1>1, <1>2, <1>4, <2>2, <2>3, <2>4, MoveKeeps
  <2> QED BY <2>2, <2>5 DEF OnlyMoves
<1>5. ASSUME ListFiles(w) PROVE Result
  <2>1. PICK doomed \in {Doomed(directory, writer[w].stamp), {}} :
          writer' = [writer EXCEPT ![w] = [writer[w] EXCEPT !.doomed = doomed,
                       !.step = IF doomed = {} THEN "rolled" ELSE "removing"]]
    BY <1>5 DEF ListFiles
  <2>2. writer[w].step = "listing" /\ UNCHANGED directory
    BY <1>5 DEF ListFiles
  <2>3. /\ doomed \subseteq directory /\ writer[w].stamp \notin doomed
        /\ \A s \in doomed : \E t \in directory : t > s
    <3>1. MaxFiles > 0 /\ writer[w].stamp \in Stamps
      BY <1>2, <2>2 DEF InOrder, Stamps
    <3> QED BY <1>2, <2>1, <3>1, DoomedFacts
  <2>4. /\ OnlyMoves(w) /\ writer'[w].stamp = writer[w].stamp
        /\ writer'[w].open = writer[w].open /\ writer'[w].doomed = doomed
        /\ writer'[w].step = IF doomed = {} THEN "rolled" ELSE "removing"
        /\ writer'[w].target = writer[w].target
    <3>1. doomed \in SUBSET Stamps
      BY <1>2, <2>3
    <3> QED BY <1>1, <1>2, <2>1, <3>1 DEF OnlyMoves, WriterRecord, RollSteps
  <2>5. InOrder(w)'
    BY <1>1, <1>2, <2>2, <2>3, <2>4 DEF InOrder
  <2>6. ~setBack => \A s \in writer'[w].doomed : Passed(s)
    <3> SUFFICES ASSUME ~setBack, NEW s \in doomed PROVE Passed(s)
      BY <2>4
    <3>1. PICK t \in directory : t > s
      BY <2>3
    <3>2. PICK v \in Writers : t <= writer[v].stamp
      BY DEF LogInv, Behind, Reached
    <3>3. writer[v].stamp \in 1..MaxNow /\ s \in Stamps /\ t \in Stamps
      BY <1>2, <2>3 DEF WriterRecord
    <3> QED BY <1>2, <3>1, <3>2, <3>3 DEF Passed, Stamps
  <2>7. FileType' /\ FileInv' /\ Behind'
    BY <1>1, <1>2, <2>2, <2>4, <2>5, <2>6, MoveKeeps
  <2> QED BY <2>4, <2>7 DEF OnlyMoves
<1>6. Result
  <2>1. CASE OpenStamp(w)
    <3>1. (Gone /\ directory' = directory \cup {writer[w].target})
            \/ (Stayed /\ UNCHANGED directory)
      BY <2>1 DEF OpenStamp
    <3> QED BY <1>3, <1>4, <2>1, <3>1
  <2>2. CASE RemoveFile(w)
    BY <1>1, <2>2, RemoveKeeps
  <2> QED BY <1>1, <1>5, <2>1, <2>2
<1>7. InstallType' /\ HandlingType' /\ Installation'
  BY <1>1, <1>6 DEF LogInv, InstallType, HandlingType, Installation
<1> QED BY <1>6, <1>7 DEF LogInv
-----------------------------------------------------------------------------
(* The steps of Init and of a pipeline's close. *)

\* What moves an Init or a close on leaves the others where they were.
LEMMA OnwardFacts ==
  ASSUME LogInv, NEW w \in Writers, NEW from, NEW to \in Installs, Onward(w, from, to),
         to # "none"
  PROVE  /\ install' \in [Writers -> Installs] /\ install[w] = from /\ install'[w] = to
         /\ \A v \in Writers \ {w} : install'[v] = install[v]
         /\ \A v \in Writers : install'[v] = "none" => install[v] = "none"
BY DEF LogInv, InstallType, Onward

\* A step that leaves the files alone.
LEMMA FilesStay ==
  ASSUME LogInv, UNCHANGED fileVars,
         \A v \in Writers : install'[v] = "none" => install[v] = "none"
  PROVE  FileType' /\ FileInv' /\ Behind'
BY DEF LogInv, fileVars, FileType, FileInv, InOrder, Kept, Alone, Leads, Behind, Reached, Passed

LEMMA OpenFileKeeps == ASSUME LogInv, NEW w \in Writers, OpenFile(w) PROVE LogInv'
<1>1. /\ UNCHANGED <<logsStayLocal, logFileSink, now, directory, setBack, ousted, handling>>
      /\ Onward(w, "none", "opening") /\ BeginRoll(w)
  BY DEF OpenFile, sinkVars
<1>2. /\ install' \in [Writers -> Installs] /\ install[w] = "none" /\ install'[w] = "opening"
      /\ \A v \in Writers \ {w} : install'[v] = install[v]
      /\ \A v \in Writers : install'[v] = "none" => install[v] = "none"
  BY <1>1, OnwardFacts DEF Installs
<1>3. Free(w) /\ ~CloseWriter(w)
  <2>1. Free(w)
    BY <1>2 DEF LogInv, FileInv, InOrder, Free
  <2>2. writer'[w].step = "opening" /\ writer[w].step = "idle"
    BY <1>1, <2>1 DEF BeginRoll, Free, LogInv, FileType, WriterRecord
  <2>3. CloseWriter(w) => writer'[w].step = writer[w].step
    BY DEF CloseWriter, LogInv, FileType, WriterRecord
  <2> QED BY <2>1, <2>2, <2>3
<1>4. /\ FileType' /\ FileInv' /\ Behind'
      /\ \A v \in Writers : writer'[v].open = writer[v].open
  BY <1>1, <1>2, <1>3, HandKeeps
<1>5. InstallType' /\ HandlingType'
  BY <1>1, <1>2 DEF LogInv, InstallType, HandlingType
<1>6. Installation'
  BY <1>1, <1>2, <1>4 DEF LogInv, InstallType, Installation, Swapped
<1> QED BY <1>4, <1>5, <1>6 DEF LogInv

LEMMA FileOpenedKeeps == ASSUME LogInv, NEW w \in Writers, FileOpened(w) PROVE LogInv'
<1> DEFINE to == IF writer[w].open THEN "opened" ELSE "failed"
<1>1. /\ UNCHANGED <<logsStayLocal, logFileSink, now, directory, setBack, ousted, handling>>
      /\ Onward(w, "opening", to) /\ Unlock(w) /\ writer[w].step = "rolled"
  BY DEF FileOpened, sinkVars
<1>2. /\ install' \in [Writers -> Installs] /\ install[w] = "opening" /\ install'[w] = to
      /\ \A v \in Writers \ {w} : install'[v] = install[v]
      /\ \A v \in Writers : install'[v] = "none" => install[v] = "none"
  <2>1. to \in Installs /\ to # "none"
    BY DEF Installs
  <2> HIDE DEF to
  <2> QED BY <1>1, <2>1, OnwardFacts
<1>3. ~CloseWriter(w)
  BY <1>1 DEF CloseWriter, Free
<1>4. /\ FileType' /\ FileInv' /\ Behind'
      /\ \A v \in Writers : writer'[v].open = writer[v].open
  BY <1>1, <1>2, <1>3, HandKeeps
<1>5. InstallType' /\ HandlingType'
  BY <1>1, <1>2 DEF LogInv, InstallType, HandlingType
<1>6. Installation'
  BY <1>1, <1>2, <1>4 DEF LogInv, InstallType, Installation, Swapped
<1> QED BY <1>4, <1>5, <1>6 DEF LogInv

LEMMA StoreFlagKeeps ==
  ASSUME LogInv, NEW w \in Writers, NEW stayLocal \in BOOLEAN, StoreFlag(w, stayLocal)
  PROVE  LogInv'
<1>1. /\ UNCHANGED <<logFileSink, fileVars, ousted, handling>>
      /\ Onward(w, "opened", "flagged")
  BY DEF StoreFlag
<1>2. /\ install' \in [Writers -> Installs] /\ install[w] = "opened" /\ install'[w] = "flagged"
      /\ \A v \in Writers \ {w} : install'[v] = install[v]
      /\ \A v \in Writers : install'[v] = "none" => install[v] = "none"
  BY <1>1, OnwardFacts DEF Installs
<1>3. FileType' /\ FileInv' /\ Behind'
  BY <1>1, <1>2, FilesStay
<1>4. InstallType' /\ HandlingType'
  BY <1>1, <1>2 DEF LogInv, InstallType, HandlingType
<1>5. Installation'
  BY <1>1, <1>2 DEF LogInv, InstallType, Installation, Swapped, fileVars
<1> QED BY <1>3, <1>4, <1>5 DEF LogInv

LEMMA SwapSinkKeeps == ASSUME LogInv, NEW w \in Writers, SwapSink(w) PROVE LogInv'
<1>1. /\ UNCHANGED <<fileVars, handling>> /\ writer' = writer
      /\ Onward(w, "flagged", "swapped")
      /\ logFileSink' = w /\ ousted' = [ousted EXCEPT ![w] = logFileSink]
  BY DEF SwapSink, fileVars
<1>2. /\ install' \in [Writers -> Installs] /\ install[w] = "flagged" /\ install'[w] = "swapped"
      /\ \A v \in Writers \ {w} : install'[v] = install[v]
      /\ \A v \in Writers : install'[v] = "none" => install[v] = "none"
  BY <1>1, OnwardFacts DEF Installs
<1>3. FileType' /\ FileInv' /\ Behind'
  BY <1>1, <1>2, FilesStay
<1>4. InstallType' /\ HandlingType'
  BY <1>1, <1>2 DEF LogInv, InstallType, HandlingType
<1>5. Installation'
  <2>1. writer'[w].open /\ logFileSink # w
    BY <1>1, <1>2, LogSinksAssumption DEF LogInv, Installation
  <2>2. ASSUME NEW v \in Writers, ousted'[v] # NoWriter
        PROVE  install'[ousted'[v]] \in Swapped /\ ousted'[v] # logFileSink'
    <3>1. CASE v = w
      <4>1. ousted'[v] = logFileSink /\ logFileSink \in Writers
        BY <1>1, <2>2, <3>1 DEF LogInv, InstallType
      <4> QED BY <1>1, <1>2, <2>1, <2>2, <4>1 DEF LogInv, Installation, Swapped
    <3>2. CASE v # w
      <4>1. ousted'[v] = ousted[v] /\ ousted[v] \in Writers
        BY <1>1, <2>2, <3>2 DEF LogInv, InstallType
      <4>2. install[ousted[v]] \in Swapped
        BY <2>2, <4>1 DEF LogInv, Installation
      <4>3. ousted[v] # w
        BY <1>2, <4>2 DEF Swapped
      <4> QED BY <1>1, <1>2, <4>1, <4>2, <4>3
    <3> QED BY <3>1, <3>2
  <2>3. \A v \in Writers : install'[v] \in {"opened", "flagged"} => writer'[v].open
    BY <1>1, <1>2 DEF LogInv, Installation
  <2> QED BY <1>1, <1>2, <2>1, <2>2, <2>3 DEF Installation
<1> QED BY <1>3, <1>4, <1>5 DEF LogInv

LEMMA ClosePreviousKeeps == ASSUME LogInv, NEW w \in Writers, ClosePrevious(w) PROVE LogInv'
<1>1. /\ UNCHANGED <<logsStayLocal, logFileSink, now, directory, setBack, ousted, handling>>
      /\ Onward(w, "swapped", "installed")
  BY DEF ClosePrevious, sinkVars
<1>2. /\ install' \in [Writers -> Installs] /\ install[w] = "swapped" /\ install'[w] = "installed"
      /\ \A v \in Writers \ {w} : install'[v] = install[v]
      /\ \A v \in Writers : install'[v] = "none" => install[v] = "none"
  BY <1>1, OnwardFacts DEF Installs
<1>3. /\ FileType' /\ FileInv' /\ Behind'
      /\ \A v \in Writers : v # ousted[w] => writer'[v] = writer[v]
  <2>1. CASE ousted[w] = NoWriter
    <3>1. UNCHANGED fileVars
      BY <1>1, <2>1 DEF ClosePrevious, fileVars
    <3> QED BY <1>2, <3>1, FilesStay DEF fileVars
  <2>2. CASE ousted[w] # NoWriter
    <3>1. PICK u \in Writers : u = ousted[w]
      BY <2>2 DEF LogInv, InstallType
    <3>2. CloseWriter(u)
      BY <2>2, <3>1 DEF ClosePrevious
    <3>3. install'[u] # "none"
      BY <1>2, <2>2, <3>1 DEF LogInv, Installation, Swapped
    <3> QED BY <1>1, <1>2, <3>1, <3>2, <3>3, HandKeeps
  <2> QED BY <2>1, <2>2
<1>4. InstallType' /\ HandlingType'
  BY <1>1, <1>2 DEF LogInv, InstallType, HandlingType
<1>5. Installation'
  <2>1. ASSUME NEW v \in Writers, install'[v] \in {"opened", "flagged"}
        PROVE  writer'[v].open
    <3>1. v # w /\ install[v] = install'[v] /\ v # NoWriter
      BY <1>2, <2>1, LogSinksAssumption
    <3>2. v # ousted[w]
      BY <2>1, <3>1 DEF LogInv, Installation, Swapped
    <3> QED BY <1>3, <2>1, <3>1, <3>2 DEF LogInv, Installation
  <2>2. logFileSink' # NoWriter =>
          /\ writer'[logFileSink'].open
          /\ install'[logFileSink'] \in {"swapped", "installed", "closing"}
    <3> SUFFICES ASSUME logFileSink # NoWriter
                 PROVE  /\ writer'[logFileSink].open
                        /\ install'[logFileSink] \in {"swapped", "installed", "closing"}
      BY <1>1
    <3>1. logFileSink \in Writers /\ logFileSink # ousted[w]
      BY DEF LogInv, InstallType, Installation
    <3> QED BY <1>2, <1>3, <3>1 DEF LogInv, Installation
  <2>3. \A v \in Writers : ousted'[v] # NoWriter =>
          install'[ousted'[v]] \in Swapped /\ ousted'[v] # logFileSink'
    BY <1>1, <1>2 DEF LogInv, InstallType, Installation, Swapped
  <2> QED BY <2>1, <2>2, <2>3 DEF Installation
<1> QED BY <1>3, <1>4, <1>5 DEF LogInv

LEMMA StayLocalKeeps == ASSUME LogInv, NEW w \in Writers, StayLocal(w) PROVE LogInv'
<1>1. /\ UNCHANGED <<logFileSink, fileVars, ousted, handling>>
      /\ Onward(w, "installed", "closing")
  BY DEF StayLocal
<1>2. /\ install' \in [Writers -> Installs] /\ install[w] = "installed" /\ install'[w] = "closing"
      /\ \A v \in Writers \ {w} : install'[v] = install[v]
      /\ \A v \in Writers : install'[v] = "none" => install[v] = "none"
  BY <1>1, OnwardFacts DEF Installs
<1>3. FileType' /\ FileInv' /\ Behind'
  BY <1>1, <1>2, FilesStay
<1>4. InstallType' /\ HandlingType'
  BY <1>1, <1>2 DEF LogInv, InstallType, HandlingType
<1>5. Installation'
  BY <1>1, <1>2 DEF LogInv, InstallType, Installation, Swapped, fileVars
<1> QED BY <1>3, <1>4, <1>5 DEF LogInv

LEMMA RetireSinkKeeps == ASSUME LogInv, NEW w \in Writers, RetireSink(w) PROVE LogInv'
<1>1. /\ UNCHANGED <<fileVars, ousted, handling>> /\ Onward(w, "closing", "retired")
      /\ logFileSink' = IF logFileSink = w THEN NoWriter ELSE logFileSink
  BY DEF RetireSink, SinkAfter
<1>2. /\ install' \in [Writers -> Installs] /\ install[w] = "closing" /\ install'[w] = "retired"
      /\ \A v \in Writers \ {w} : install'[v] = install[v]
      /\ \A v \in Writers : install'[v] = "none" => install[v] = "none"
  BY <1>1, OnwardFacts DEF Installs
<1>3. FileType' /\ FileInv' /\ Behind'
  BY <1>1, <1>2, FilesStay
<1>4. InstallType' /\ HandlingType'
  BY <1>1, <1>2 DEF LogInv, InstallType, HandlingType
<1>5. Installation'
  <2>1. \A v \in Writers : ousted'[v] # NoWriter =>
          install'[ousted'[v]] \in Swapped /\ ousted'[v] # logFileSink'
    BY <1>1, <1>2 DEF LogInv, InstallType, Installation, Swapped
  <2>2. logFileSink' # NoWriter => logFileSink' = logFileSink /\ logFileSink \in Writers \ {w}
    BY <1>1 DEF LogInv, InstallType
  <2> QED BY <1>1, <1>2, <2>1, <2>2 DEF LogInv, Installation, fileVars
<1> QED BY <1>3, <1>4, <1>5 DEF LogInv

LEMMA CloseFileKeeps == ASSUME LogInv, NEW w \in Writers, CloseFile(w) PROVE LogInv'
<1>1. /\ UNCHANGED <<logsStayLocal, logFileSink, now, directory, setBack, ousted, handling>>
      /\ Onward(w, "retired", "closed") /\ CloseWriter(w)
  BY DEF CloseFile, sinkVars
<1>2. /\ install' \in [Writers -> Installs] /\ install[w] = "retired" /\ install'[w] = "closed"
      /\ \A v \in Writers \ {w} : install'[v] = install[v]
      /\ \A v \in Writers : install'[v] = "none" => install[v] = "none"
  BY <1>1, OnwardFacts DEF Installs
<1>3. /\ FileType' /\ FileInv' /\ Behind'
      /\ \A v \in Writers \ {w} : writer'[v] = writer[v]
  BY <1>1, <1>2, HandKeeps
<1>4. InstallType' /\ HandlingType'
  BY <1>1, <1>2 DEF LogInv, InstallType, HandlingType
<1>5. Installation'
  <2>1. logFileSink # NoWriter => logFileSink \in Writers \ {w}
    BY <1>2 DEF LogInv, InstallType, Installation
  <2>2. \A v \in Writers : ousted'[v] # NoWriter =>
          install'[ousted'[v]] \in Swapped /\ ousted'[v] # logFileSink'
    BY <1>1, <1>2 DEF LogInv, InstallType, Installation, Swapped
  <2>3. \A v \in Writers : install'[v] \in {"opened", "flagged"} => writer'[v].open
    BY <1>2, <1>3 DEF LogInv, Installation
  <2> QED BY <1>1, <1>2, <1>3, <2>1, <2>2, <2>3 DEF LogInv, Installation
<1> QED BY <1>3, <1>4, <1>5 DEF LogInv
-----------------------------------------------------------------------------
(* The steps of Handle, and time. *)

\* Where a handler may be next.
LEMMA HandlerType ==
  ASSUME HandlingType, InstallType, NEW l \in Loggers,
         Begins(l) \/ AsksForFile(l) \/ Console(l) \/ File(l) \/ LoadSink(l)
           \/ Otlp(l) \/ HandleReturns(l)
  PROVE  HandlingType'
<1> USE DEF HandlingType, OnItsWay, AboutToWrite, Places, Sinks, At, Goes, Delivers
<1>1. CASE Begins(l)
  BY <1>1 DEF Begins
<1>2. CASE AsksForFile(l)
  BY <1>2 DEF AsksForFile
<1>3. CASE Console(l)
  BY <1>3 DEF Console
<1>4. CASE File(l)
  BY <1>4 DEF File
<1>5. CASE LoadSink(l)
  BY <1>5 DEF LoadSink, InstallType
<1>6. CASE Otlp(l)
  BY <1>6 DEF Otlp
<1>7. CASE HandleReturns(l)
  BY <1>7 DEF HandleReturns, NotHandling
<1> QED BY <1>1, <1>2, <1>3, <1>4, <1>5, <1>6, <1>7

\* A line that was written, or refused.
LEMMA LineType ==
  ASSUME HandlingType, NEW l \in Loggers, NEW to \in SUBSET Sinks, LineGoes(l, to),
         handling[l] \in AboutToWrite
  PROVE  HandlingType'
<1>1. [at |-> "otlp", delivered |-> handling[l].delivered \cup to] \in OnItsWay
  BY DEF OnItsWay, AboutToWrite, Places
<1> QED BY <1>1 DEF HandlingType, LineGoes

LEMMA WriteKeeps ==
  ASSUME LogInv, NEW l \in Loggers, FindsClosed(l) \/ WriteLine(l) \/ WriteAfterRoll(l),
         UNCHANGED <<sinkVars, now, directory, setBack, installVars>>
  PROVE  LogInv'
<1>1. handling[l] \in AboutToWrite
  BY DEF LogInv, HandlingType, FindsClosed, WriteLine, WriteAfterRoll, At, OnItsWay
<1>2. PICK w \in Writers : w = handling[l].to
  BY <1>1 DEF AboutToWrite
<1>3. Written(w) \in SUBSET Sinks /\ {} \in SUBSET Sinks
  BY DEF Written, Sinks
<1>4. UNCHANGED <<logFileSink, now, directory, setBack, install, ousted>>
  BY DEF sinkVars, installVars
<1>5. InstallType'
  BY <1>4 DEF LogInv, InstallType
<1>6. CASE UNCHANGED writer /\ \E to \in SUBSET Sinks : LineGoes(l, to)
  <2>1. FileType' /\ FileInv' /\ Behind'
    BY <1>4, <1>6, FilesStay DEF fileVars
  <2>2. HandlingType'
    BY <1>1, <1>6, LineType DEF LogInv
  <2>3. Installation'
    BY <1>4, <1>6 DEF LogInv, Installation
  <2> QED BY <1>5, <2>1, <2>2, <2>3 DEF LogInv
<1>7. ASSUME (BeginRoll(w) /\ Free(w)) \/ (Unlock(w) /\ writer[w].step = "rolled"),
             writer[w].open \/ writer[w].step = "rolled", ~CloseWriter(w), HandlingType'
      PROVE  LogInv'
  <2>1. install'[w] # "none"
    BY <1>4, <1>7 DEF LogInv, FileInv, InOrder
  <2>2. /\ FileType' /\ FileInv' /\ Behind'
        /\ \A v \in Writers : writer'[v].open = writer[v].open
    BY <1>4, <1>7, <2>1, HandKeeps
  <2>3. Installation'
    BY <1>4, <2>2 DEF LogInv, InstallType, Installation
  <2> QED BY <1>5, <1>7, <2>2, <2>3 DEF LogInv
<1>8. CASE WriteLine(l) /\ writer[w].stamp # now
  <2>1. BeginRoll(w) /\ Free(w) /\ writer[w].open /\ Goes(l, "rolling")
    BY <1>2, <1>8 DEF WriteLine
  <2>2. HandlingType'
    BY <1>1, <2>1 DEF LogInv, HandlingType, Goes, AboutToWrite
  <2>3. ~CloseWriter(w)
    <3>1. writer'[w].step = "opening" /\ writer[w].step = "idle"
      BY <2>1 DEF BeginRoll, Free, LogInv, FileType, WriterRecord
    <3>2. CloseWriter(w) => writer'[w].step = writer[w].step
      BY DEF CloseWriter, LogInv, FileType, WriterRecord
    <3> QED BY <3>1, <3>2
  <2> QED BY <1>7, <2>1, <2>2, <2>3
<1>9. CASE WriteAfterRoll(l)
  <2>1. Unlock(w) /\ writer[w].step = "rolled" /\ LineGoes(l, Written(w))
    BY <1>2, <1>9 DEF WriteAfterRoll
  <2>2. HandlingType'
    BY <1>1, <1>3, <2>1, LineType DEF LogInv
  <2>3. ~CloseWriter(w)
    BY <2>1 DEF CloseWriter, Free
  <2> QED BY <1>7, <2>1, <2>2, <2>3
<1>10. CASE FindsClosed(l) \/ (WriteLine(l) /\ writer[w].stamp = now)
  <2>1. UNCHANGED writer /\ (LineGoes(l, {}) \/ LineGoes(l, Written(w)))
    BY <1>2, <1>10 DEF FindsClosed, WriteLine
  <2> QED BY <1>3, <1>6, <2>1
<1> QED BY <1>8, <1>9, <1>10

LEMMA HandleKeeps ==
  ASSUME LogInv, NEW l \in Loggers, Handle(l), UNCHANGED <<sinkVars, installVars>>
  PROVE  LogInv'
<1>1. CASE (FindsClosed(l) \/ WriteLine(l) \/ WriteAfterRoll(l))
             /\ UNCHANGED <<now, directory, setBack>>
  BY <1>1, WriteKeeps
<1>2. CASE UNCHANGED fileVars /\ HandlingType'
  <2>1. FileType' /\ FileInv' /\ Behind'
    BY <1>2, FilesStay DEF installVars
  <2> QED BY <1>2, <2>1 DEF LogInv, InstallType, Installation, sinkVars, installVars, fileVars
<1> QED BY <1>1, <1>2, HandlerType DEF Handle, LogInv

LEMMA PeriodKeeps == ASSUME LogInv, PeriodPasses PROVE LogInv'
<1>1. /\ now < MaxNow /\ now' = now + 1
      /\ UNCHANGED <<logFileSink, directory, writer, setBack, install, ousted, handling>>
  BY DEF PeriodPasses, sinkVars, installVars
<1>2. now \in 1..MaxNow /\ now' \in 1..MaxNow /\ MaxNow \in Nat
  BY <1>1, LogSinksAssumption DEF LogInv, FileType
<1>3. \A w \in Writers : InOrder(w)'
  <2> SUFFICES ASSUME NEW w \in Writers PROVE InOrder(w)'
    OBVIOUS
  <2>1. writer[w].target \in 1..MaxNow /\ InOrder(w)
    BY DEF LogInv, FileType, WriterRecord, FileInv
  <2> QED BY <1>1, <1>2, <2>1 DEF InOrder
<1>4. \A w \in Writers : Kept(w)'
  BY <1>1 DEF LogInv, FileInv, Kept, Alone, Leads
<1> QED BY <1>1, <1>2, <1>3, <1>4 DEF LogInv, FileType, FileInv, InstallType, HandlingType,
           Behind, Reached, Passed, Installation

LEMMA NextLogInv == ASSUME LogInv, [LogNext]_logVars PROVE LogInv'
<1>1. CASE UNCHANGED logVars
  <2>1. FileType' /\ FileInv' /\ Behind'
    BY <1>1, FilesStay DEF logVars, installVars
  <2> QED BY <1>1, <2>1 DEF logVars, sinkVars, fileVars, installVars, LogInv, InstallType,
                            HandlingType, Installation
<1>2. CASE LogNext
  BY <1>2, OpenFileKeeps, FileOpenedKeeps, StoreFlagKeeps, SwapSinkKeeps, ClosePreviousKeeps,
     StayLocalKeeps, RetireSinkKeeps, CloseFileKeeps, RollKeeps, HandleKeeps, PeriodKeeps
     DEF LogNext
<1> QED BY <1>1, <1>2

\* rotatefile.go: "The live file always stays".  However many Inits share the
\* directory and whatever the limit on files, one at a time calls to the file
\* system by any number of writers leave the file of a writer that is alone
\* there, and of the newest ones if the clock was not set back; and the
\* installed sink is open.
THEOREM TheLiveFileStays == LogSpec => []LiveFileStays
<1>1. LogInit => LogInv
  BY InitLogInv
<1>2. LogInv /\ [LogNext]_logVars => LogInv'
  BY NextLogInv
<1>3. LogInv => LiveFileStays
  BY DEF LogInv, FileInv, Kept, Installation, LiveFileStays
<1> QED BY <1>1, <1>2, <1>3, PTL DEF LogSpec
-----------------------------------------------------------------------------
(***************************************************************************)
(* ConsumerGroup.  SpanNamesOwnState speaks of calls that have written     *)
(* their span; it is inductive once the same is said of a call that has    *)
(* yet to.                                                                 *)
(***************************************************************************)

\* What a recording call has in hand at each place it can be.
Updated == [at : {"updated"}, event : Events, state : States, own : States]
Recorded == [at : {"recorded"}, event : Events, state : States, own : States]
Beating == [at : {"beating"}, of : Recorders]
Recordings == {Ready} \cup Updated \cup Recorded \cup Beating

StateType ==
    /\ assigned \subseteq Partitions /\ watcher \subseteq Partitions
    /\ active \in BOOLEAN /\ group \in States
    /\ generation \in (-1)..MaxGeneration
    /\ heartbeat \in Recorders \cup {Nobody}
RecordingType == recording \in [Recorders -> Recordings]

\* A recorder goes on with the state of its own update, and with its own time.
OwnState ==
    \A r \in Recorders :
      /\ recording[r].at \in {"updated", "recorded"} =>
           recording[r].state = recording[r].own
      /\ recording[r].at = "beating" => recording[r].of = r

GroupInv == StateType /\ RecordingType /\ OwnState
-----------------------------------------------------------------------------
\* The state an event leads to is one of the tracker's.
LEMMA GroupIsAState ==
    ASSUME NEW event \in Events
    PROVE  GroupAfter(event) \in States
BY DEF GroupAfter, States, Events, RebalanceTypes

\* Initially no call is under way.
LEMMA InitGroupInv == ASSUME GroupInit PROVE GroupInv
<1>1. StateType
  <2>1. group \in States
    BY DEF GroupInit, States
  <2>2. generation \in (-1)..MaxGeneration
    <3>1. generation = -1
      BY DEF GroupInit
    <3>2. MaxGeneration \in Nat
      BY GroupAssumption DEF GroupAssumption
    <3>3. -1 \in (-1)..MaxGeneration
      BY <3>2
    <3> QED BY <3>1, <3>3
  <2> QED BY <2>1, <2>2 DEF GroupInit, StateType
<1>2. RecordingType
  BY DEF GroupInit, RecordingType, Recordings
<1>3. \A r \in Recorders : recording[r].at = "ready"
  BY DEF GroupInit, Ready
<1> QED BY <1>1, <1>2, <1>3 DEF GroupInv, OwnState

\* A step by one recorder keeps what holds of the others' calls.
LEMMA OneRecorder ==
    ASSUME RecordingType, OwnState, NEW r \in Recorders, NEW call \in Recordings,
           recording' = [recording EXCEPT ![r] = call],
           call.at \in {"updated", "recorded"} => call.state = call.own,
           call.at = "beating" => call.of = r
    PROVE  RecordingType' /\ OwnState'
<1>1. RecordingType'
  BY DEF RecordingType
<1>2. \A s \in Recorders : recording'[s] = IF s = r THEN call ELSE recording[s]
  BY DEF RecordingType
<1>3. OwnState'
  BY <1>2 DEF OwnState
<1> QED BY <1>1, <1>3

LEMMA UpdateKeeps ==
    ASSUME GroupInv, NEW r \in Recorders, NEW event \in Events, UpdateState(r, event)
    PROVE  GroupInv'
<1> DEFINE call == [at |-> "updated", event |-> event, state |-> StateRead(event),
                    own |-> GroupAfter(event)]
<1>1. recording' = [recording EXCEPT ![r] = call]
  BY DEF UpdateState
<1>2. call \in Recordings /\ call.at = "updated" /\ call.state = call.own
  BY GroupIsAState DEF Recordings, Updated, StateRead
<1>3. RecordingType' /\ OwnState'
  <2> HIDE DEF call
  <2> QED BY <1>1, <1>2, OneRecorder DEF GroupInv
<1>4. AssignedAfter(event) \subseteq Partitions /\ ActiveAfter(event) \in BOOLEAN
  BY DEF GroupInv, StateType, AssignedAfter, ActiveAfter, Events, RebalanceTypes
<1>5. event.generation \in (-1)..MaxGeneration
  BY DEF Events
<1>6. StateType'
  BY <1>4, <1>5, GroupIsAState DEF GroupInv, StateType, UpdateState
<1> QED BY <1>3, <1>6 DEF GroupInv

\* The state read under the lock is what the span gets.
LEMMA RecordKeeps ==
    ASSUME GroupInv, NEW r \in Recorders, RecordToSpan(r)
    PROVE  GroupInv'
<1> DEFINE call == [recording[r] EXCEPT !.at = "recorded",
                      !.state = IF recording[r].state = "later" THEN group
                                ELSE recording[r].state]
<1>1. recording' = [recording EXCEPT ![r] = call]
  BY DEF RecordToSpan
<1>2. recording[r] \in Updated /\ recording[r].state = recording[r].own
  BY DEF GroupInv, RecordingType, OwnState, RecordToSpan, Recordings, Ready, Updated,
         Recorded, Beating
<1>3. call = [recording[r] EXCEPT !.at = "recorded"]
  BY <1>2 DEF Updated, States
<1>4. call \in Recorded /\ call.at = "recorded" /\ call.state = call.own
  BY <1>2, <1>3 DEF Updated, Recorded
<1>5. RecordingType' /\ OwnState'
  <2> HIDE DEF call
  <2> QED BY <1>1, <1>4, OneRecorder DEF GroupInv, Recordings
<1>6. StateType'
  BY DEF GroupInv, StateType, RecordToSpan, trackerVars
<1> QED BY <1>5, <1>6 DEF GroupInv

LEMMA CallbacksKeep ==
    ASSUME GroupInv, NEW r \in Recorders, InvokeCallbacks(r)
    PROVE  GroupInv'
<1>1. Ready \in Recordings /\ Ready.at = "ready"
  BY DEF Recordings, Ready
<1>2. RecordingType' /\ OwnState'
  BY <1>1, OneRecorder DEF GroupInv, InvokeCallbacks
<1>3. recording[r].event \in Events
  BY DEF GroupInv, RecordingType, InvokeCallbacks, Recordings, Ready, Updated,
         Recorded, Beating
<1>4. watcher' \subseteq Partitions
  BY <1>3 DEF GroupInv, StateType, InvokeCallbacks, Events
<1>5. StateType'
  BY <1>4 DEF GroupInv, StateType, InvokeCallbacks, trackerVars
<1> QED BY <1>2, <1>5 DEF GroupInv

LEMMA HeartbeatKeeps ==
    ASSUME GroupInv, NEW r \in Recorders, RecordHeartbeat(r) \/ HeartbeatToSpan(r)
    PROVE  GroupInv'
<1>1. CASE RecordHeartbeat(r)
  <2> DEFINE call == [at |-> "beating", of |-> r]
  <2>1. recording' = [recording EXCEPT ![r] = call]
    BY <1>1 DEF RecordHeartbeat
  <2>2. call \in Recordings /\ call.at = "beating" /\ call.of = r
    BY DEF Recordings, Beating
  <2>3. RecordingType' /\ OwnState'
    <3> HIDE DEF call
    <3> QED BY <2>1, <2>2, OneRecorder DEF GroupInv
  <2>4. StateType'
    BY <1>1 DEF GroupInv, StateType, RecordHeartbeat, trackerVars
  <2> QED BY <2>3, <2>4 DEF GroupInv
<1>2. CASE HeartbeatToSpan(r)
  <2>1. Ready \in Recordings /\ Ready.at = "ready"
    BY DEF Recordings, Ready
  <2>2. RecordingType' /\ OwnState'
    BY <1>2, <2>1, OneRecorder DEF GroupInv, HeartbeatToSpan
  <2>3. StateType'
    BY <1>2 DEF GroupInv, StateType, HeartbeatToSpan, trackerVars
  <2> QED BY <2>2, <2>3 DEF GroupInv
<1> QED BY <1>1, <1>2

LEMMA NextGroupInv == ASSUME GroupInv, [GroupNext]_groupVars PROVE GroupInv'
<1>1. CASE UNCHANGED groupVars
  BY <1>1 DEF GroupInv, StateType, RecordingType, OwnState, groupVars, trackerVars
<1>2. CASE GroupNext
  BY <1>2, UpdateKeeps, RecordKeeps, CallbacksKeep, HeartbeatKeeps DEF GroupNext
<1> QED BY <1>1, <1>2

\* consumer_group.go: a rebalance's span names the state that rebalance left,
\* and a heartbeat's span its own time, for any number of recorders.
THEOREM OwnStates == GroupSpec => []SpanNamesOwnState
<1>1. GroupInit => GroupInv
  BY InitGroupInv
<1>2. GroupInv /\ [GroupNext]_groupVars => GroupInv'
  BY NextGroupInv
<1>3. GroupInv => SpanNamesOwnState
  BY DEF GroupInv, OwnState, SpanNamesOwnState
<1> QED BY <1>1, <1>2, <1>3, PTL DEF GroupSpec
-----------------------------------------------------------------------------
(***************************************************************************)
(* ParkingLot.  RetrievedOnce is not inductive: a caller between Load and  *)
(* Delete holds a context by its number and removes it by its key.  It     *)
(* needs that a number is under one key, that a loaded number can be under *)
(* no key but the one it was loaded from, and that numbers not yet given   *)
(* are nowhere.                                                            *)
(***************************************************************************)

Contexts == {None} \cup [id : Nat \ {0}, age : Nat, ttl : TTLs]

Returned == [at : {"retrieved"}, key : CorrelationKeys, context : Nat, failed : BOOLEAN]
Loaded == [at : {"loaded"}, key : CorrelationKeys, context : Nat]
Traced == {[at |-> "traced", span |-> CallbackSpan(found)] : found \in Returned}

StoreType ==
    /\ autoDelete \in BOOLEAN /\ parks \in Nat
    /\ data \in [CorrelationKeys -> Contexts]
CallerType == caller \in [Callers -> {Idle} \cup Returned \cup Loaded \cup Traced]

\* Numbers are given once: what is stored, loaded or taken has been parked.
Given ==
    /\ \A k \in CorrelationKeys : data[k].id <= parks
    /\ taken \subseteq 1..parks
    /\ \A c \in Callers : caller[c].at = "loaded" => caller[c].context \in 1..parks

\* A number is under one key, and a loaded one under no other than its caller's.
OneKey ==
    /\ \A j, k \in CorrelationKeys : data[j].id = data[k].id /\ data[j].id # 0 => j = k
    /\ \A c \in Callers, k \in CorrelationKeys :
         caller[c].at = "loaded" /\ data[k].id = caller[c].context => k = caller[c].key

OnlyWithAutoDelete == \A c \in Callers : caller[c].at = "loaded" => autoDelete

ParkingInv == StoreType /\ CallerType /\ Given /\ OneKey /\ OnlyWithAutoDelete /\ RetrievedOnce
-----------------------------------------------------------------------------
(* The store's helpers. *)

LEMMA ContextFacts ==
    ASSUME NEW sc \in Contexts
    PROVE  /\ sc.id \in Nat
           /\ sc.id = 0 <=> sc = None
    BY DEF Contexts, None

\* Removing entries makes no number stored that was not.
LEMMA WithoutFacts ==
    ASSUME data \in [CorrelationKeys -> Contexts], NEW removed
    PROVE  /\ Without(removed) \in [CorrelationKeys -> Contexts]
           /\ \A k \in CorrelationKeys :
                \/ Without(removed)[k].id = 0
                \/ k \notin removed /\ Without(removed)[k].id = data[k].id
    BY DEF Without, Contexts, None

\* What a step that only removes entries, or only ages them, keeps.
LEMMA Fewer ==
    ASSUME ParkingInv, NEW stored \in [CorrelationKeys -> Contexts], data' = stored,
           \A k \in CorrelationKeys : stored[k].id = 0 \/ stored[k].id = data[k].id,
           UNCHANGED <<autoDelete, parks, caller, taken>>
    PROVE  ParkingInv'
<1>1. \A k \in CorrelationKeys : data'[k].id \in Nat
  BY ContextFacts
<1>2. StoreType' /\ CallerType' /\ OnlyWithAutoDelete'
  BY DEF ParkingInv, StoreType, CallerType, OnlyWithAutoDelete
<1>3. Given'
  BY DEF ParkingInv, Given, StoreType
<1>4. OneKey'
  <2>1. \A c \in Callers : caller[c].at = "loaded" => caller[c].context # 0
    BY DEF ParkingInv, Given, StoreType
  <2> QED BY <2>1 DEF ParkingInv, OneKey
<1>5. RetrievedOnce'
  <2>1. 0 \notin taken
    BY DEF ParkingInv, Given, StoreType
  <2> QED BY <2>1 DEF ParkingInv, RetrievedOnce
<1> QED BY <1>2, <1>3, <1>4, <1>5 DEF ParkingInv

\* What a step that changes nothing but where callers are keeps, if it leaves
\* none with a context loaded that was not.
LEMMA Elsewhere ==
    ASSUME ParkingInv, CallerType', UNCHANGED <<autoDelete, parks, data, taken>>,
           \A c \in Callers : caller'[c].at = "loaded" => caller'[c] = caller[c]
    PROVE  ParkingInv'
<1>1. StoreType' /\ RetrievedOnce'
  BY DEF ParkingInv, StoreType, RetrievedOnce
<1>2. Given' /\ OneKey' /\ OnlyWithAutoDelete'
  BY DEF ParkingInv, Given, OneKey, OnlyWithAutoDelete
<1> QED BY <1>1, <1>2 DEF ParkingInv
-----------------------------------------------------------------------------
LEMMA InitParkingInv == ParkingInit => ParkingInv
<1> SUFFICES ASSUME ParkingInit PROVE ParkingInv
  OBVIOUS
<1>1. StoreType /\ CallerType
  BY DEF ParkingInit, StoreType, CallerType, Contexts, None, Idle
<1>2. Given /\ OneKey /\ OnlyWithAutoDelete /\ RetrievedOnce
  BY DEF ParkingInit, Given, OneKey, OnlyWithAutoDelete, RetrievedOnce, None, Idle
<1> QED BY <1>1, <1>2 DEF ParkingInv

LEMMA RemovalKeeps ==
    ASSUME ParkingInv, Cleanup \/ (\E k \in CorrelationKeys : Delete(k))
    PROVE  ParkingInv'
<1>1. PICK removed : data' = Without(removed)
  BY DEF Cleanup, Delete
<1>2. UNCHANGED <<autoDelete, parks, caller, taken>>
  BY DEF Cleanup, Delete
<1>3. data \in [CorrelationKeys -> Contexts]
  BY DEF ParkingInv, StoreType
<1> QED BY <1>1, <1>2, <1>3, WithoutFacts, Fewer

LEMMA TickKeeps == ASSUME ParkingInv, Tick PROVE ParkingInv'
<1> DEFINE aged == [k \in CorrelationKeys |-> IF Exists(k) /\ data[k].ttl # 0
                                   THEN [data[k] EXCEPT !.age = @ + 1] ELSE data[k]]
<1>1. data \in [CorrelationKeys -> Contexts]
  BY DEF ParkingInv, StoreType
<1>2. ASSUME NEW k \in CorrelationKeys
      PROVE  aged[k] \in Contexts /\ aged[k].id = data[k].id
  BY <1>1 DEF Exists, Holds, Contexts
<1>3. data' = aged /\ UNCHANGED <<autoDelete, parks, caller, taken>>
  BY DEF Tick
<1>4. aged \in [CorrelationKeys -> Contexts]
  BY <1>2
<1> QED BY <1>2, <1>3, <1>4, Fewer

\* A new context has a number that nothing had before.
LEMMA ParkKeeps ==
    ASSUME ParkingInv, NEW k \in CorrelationKeys, NEW ttl \in TTLs, Park(k, ttl)
    PROVE  ParkingInv'
<1> DEFINE new == [id |-> parks + 1, age |-> 0, ttl |-> ttl]
<1> USE DEF Park
<1>1. /\ parks \in Nat /\ data \in [CorrelationKeys -> Contexts]
      /\ \A j \in CorrelationKeys : data[j].id \in Nat /\ data[j].id <= parks
  BY ContextFacts DEF ParkingInv, StoreType, Given
<1>2. CASE data' = [data EXCEPT ![k] = new]
  <2>1. /\ data' \in [CorrelationKeys -> Contexts] /\ parks' = parks + 1
        /\ \A j \in CorrelationKeys : data'[j] = IF j = k THEN new ELSE data[j]
    BY <1>1, <1>2 DEF Contexts
  <2>2. StoreType' /\ CallerType' /\ OnlyWithAutoDelete'
    BY <2>1, <1>1 DEF ParkingInv, StoreType, CallerType, OnlyWithAutoDelete
  <2>3. Given'
    BY <2>1, <1>1 DEF ParkingInv, Given
  <2>4. \A i, j \in CorrelationKeys : data'[i].id = data'[j].id /\ data'[i].id # 0 => i = j
    BY <2>1, <1>1 DEF ParkingInv, OneKey
  <2>5. ASSUME NEW c \in Callers, NEW j \in CorrelationKeys,
               caller'[c].at = "loaded", data'[j].id = caller'[c].context
        PROVE  j = caller'[c].key
    BY <2>1, <2>5, <1>1 DEF ParkingInv, OneKey, Given
  <2>6. OneKey'
    BY <2>4, <2>5 DEF OneKey
  <2>7. RetrievedOnce'
    BY <2>1, <1>1 DEF ParkingInv, RetrievedOnce, Given
  <2> QED BY <2>2, <2>3, <2>6, <2>7 DEF ParkingInv
<1>3. CASE UNCHANGED data
  <2>1. StoreType' /\ CallerType' /\ OnlyWithAutoDelete' /\ OneKey' /\ RetrievedOnce'
    BY <1>1, <1>3 DEF ParkingInv, StoreType, CallerType, OnlyWithAutoDelete, OneKey, RetrievedOnce
  <2>2. Given'
    BY <1>1, <1>3 DEF ParkingInv, Given
  <2> QED BY <2>1, <2>2 DEF ParkingInv
<1> QED BY <1>2, <1>3

\* A context that is loaded was stored, under the key it is loaded from.
LEMMA LoadKeeps ==
    ASSUME ParkingInv, NEW c \in Callers, NEW k \in CorrelationKeys, Load(c, k)
    PROVE  ParkingInv'
<1> USE DEF Load
<1>1. /\ parks \in Nat /\ data \in [CorrelationKeys -> Contexts]
      /\ data[k].id \in Nat /\ data[k].id <= parks
      /\ UNCHANGED <<autoDelete, parks, data, taken>>
  BY ContextFacts DEF ParkingInv, StoreType, Given
<1>2. caller \in [Callers -> {Idle} \cup Returned \cup Loaded \cup Traced]
  BY DEF ParkingInv, CallerType
<1>3. ASSUME NEW id \in Nat, NEW failed \in BOOLEAN,
             caller' = [caller EXCEPT ![c] = Retrieved(k, id, failed)]
      PROVE  ParkingInv'
  <2>1. Retrieved(k, id, failed) \in Returned
    BY <1>3 DEF Retrieved, Returned
  <2>2. CallerType'
    BY <2>1, <1>2, <1>3 DEF CallerType
  <2>3. \A d \in Callers : caller'[d].at = "loaded" => caller'[d] = caller[d]
    BY <1>2, <1>3 DEF Retrieved
  <2> QED BY <2>2, <2>3, <1>1, Elsewhere
<1>4. ASSUME Exists(k), autoDelete,
             caller' = [caller EXCEPT ![c] =
                          [at |-> "loaded", key |-> k, context |-> data[k].id]]
      PROVE  ParkingInv'
  <2> DEFINE holding == [at |-> "loaded", key |-> k, context |-> data[k].id]
  <2>1. data[k].id # 0
    BY <1>1, <1>4, ContextFacts DEF Exists, Holds
  <2>2. \A d \in Callers : caller'[d] = IF d = c THEN holding ELSE caller[d]
    BY <1>2, <1>4
  <2>3. holding \in Loaded
    BY <1>1 DEF Loaded
  <2>4. CallerType'
    BY <2>3, <1>2, <1>4 DEF CallerType
  <2>5. Given' /\ OnlyWithAutoDelete'
    BY <2>1, <2>2, <1>1, <1>4 DEF ParkingInv, Given, OnlyWithAutoDelete
  <2>6. OneKey'
    BY <2>1, <2>2, <1>1 DEF ParkingInv, OneKey
  <2>7. StoreType' /\ RetrievedOnce'
    BY <1>1 DEF ParkingInv, StoreType, RetrievedOnce
  <2> QED BY <2>4, <2>5, <2>6, <2>7 DEF ParkingInv
<1> QED BY <1>1, <1>3, <1>4

\* The number that Delete takes is under no other key than the one it empties.
LEMMA DeleteLoadedKeeps ==
    ASSUME ParkingInv, NEW c \in Callers, DeleteLoaded(c)
    PROVE  ParkingInv'
<1> DEFINE k == caller[c].key
           id == caller[c].context
<1>1. /\ parks \in Nat /\ data \in [CorrelationKeys -> Contexts] /\ parks' = parks
      /\ autoDelete /\ autoDelete' = autoDelete /\ caller[c].at = "loaded"
      /\ id \in 1..parks /\ autoDelete \in BOOLEAN
  BY DEF ParkingInv, StoreType, Given, OnlyWithAutoDelete, DeleteLoaded
<1>2. caller \in [Callers -> {Idle} \cup Returned \cup Loaded \cup Traced]
  BY DEF ParkingInv, CallerType
<1>3. caller[c] \in Loaded
  BY <1>1, <1>2 DEF Idle, Returned, Traced, Loaded
<1>4. k \in CorrelationKeys /\ caller' = [caller EXCEPT ![c] = Retrieved(k, id, FALSE)]
  BY <1>3 DEF Loaded, DeleteLoaded
<1>5. Retrieved(k, id, FALSE) \in Returned
  BY <1>1, <1>4 DEF Retrieved, Returned
<1>6. CallerType'
  BY <1>2, <1>4, <1>5 DEF CallerType
<1>7. \A d \in Callers : caller'[d].at = "loaded" => d # c /\ caller'[d] = caller[d]
  BY <1>2, <1>4 DEF Retrieved
<1>8. CASE UNCHANGED <<data, taken>>
  BY <1>1, <1>6, <1>7, <1>8, Elsewhere
<1>9. CASE data' = AfterDelete(k, id) /\ taken' = taken \cup {id}
  <2>1. /\ data' \in [CorrelationKeys -> Contexts]
        /\ \A j \in CorrelationKeys : data'[j].id = 0 \/ (j # k /\ data'[j].id = data[j].id)
    BY <1>1, <1>9, WithoutFacts DEF AfterDelete
  <2>2. \A j \in CorrelationKeys : data[j].id \in Nat /\ data[j].id <= parks
    BY <1>1, ContextFacts DEF ParkingInv, Given
  <2>3. StoreType' /\ OnlyWithAutoDelete'
    BY <2>1, <1>1, <1>7 DEF ParkingInv, StoreType, OnlyWithAutoDelete
  <2>4. Given'
    <3>1. \A j \in CorrelationKeys : data'[j].id <= parks'
      BY <2>1, <2>2, <1>1
    <3>2. taken' \subseteq 1..parks'
      BY <1>1, <1>9 DEF ParkingInv, Given
    <3>3. \A d \in Callers : caller'[d].at = "loaded" => caller'[d].context \in 1..parks'
      BY <1>1, <1>7 DEF ParkingInv, Given
    <3> QED BY <3>1, <3>2, <3>3 DEF Given
  <2>5. OneKey'
    BY <2>1, <1>1, <1>7 DEF ParkingInv, OneKey, Given
  <2>6. \A j \in CorrelationKeys : data'[j].id # id
    BY <2>1, <1>1 DEF ParkingInv, OneKey
  <2>7. 0 \notin taken'
    BY <1>1, <1>9 DEF ParkingInv, Given
  <2>8. RetrievedOnce'
    BY <2>1, <2>6, <2>7, <1>1, <1>9 DEF ParkingInv, RetrievedOnce
  <2> QED BY <2>3, <2>4, <2>5, <2>8, <1>6 DEF ParkingInv
<1> QED BY <1>8, <1>9 DEF DeleteLoaded

LEMMA CallbackKeeps ==
    ASSUME ParkingInv, NEW c \in Callers, RetrieveAndTrace(c) \/ Returns(c)
    PROVE  ParkingInv'
<1>1. caller \in [Callers -> {Idle} \cup Returned \cup Loaded \cup Traced]
  BY DEF ParkingInv, CallerType
<1>2. UNCHANGED <<autoDelete, parks, data, taken>>
  BY DEF RetrieveAndTrace, Returns
<1>3. CASE RetrieveAndTrace(c)
  <2>1. caller[c] \in Returned
    BY <1>1, <1>3 DEF RetrieveAndTrace, Idle, Returned, Loaded, Traced
  <2>2. [at |-> "traced", span |-> CallbackSpan(caller[c])] \in Traced
    BY <2>1 DEF Traced
  <2>3. CallerType'
    BY <1>1, <1>3, <2>2 DEF RetrieveAndTrace, CallerType
  <2>4. \A d \in Callers : caller'[d].at = "loaded" => caller'[d] = caller[d]
    BY <1>1, <1>3 DEF RetrieveAndTrace
  <2> QED BY <1>2, <2>3, <2>4, Elsewhere
<1>4. CASE Returns(c)
  <2>1. CallerType'
    BY <1>1, <1>4 DEF Returns, CallerType
  <2>2. \A d \in Callers : caller'[d].at = "loaded" => caller'[d] = caller[d]
    BY <1>1, <1>4 DEF Returns, Idle
  <2> QED BY <1>2, <2>1, <2>2, Elsewhere
<1> QED BY <1>3, <1>4

LEMMA NextParkingInv == ParkingInv /\ [ParkingNext]_parkingVars => ParkingInv'
<1> SUFFICES ASSUME ParkingInv, [ParkingNext]_parkingVars PROVE ParkingInv'
  OBVIOUS
<1>1. CASE Close \/ UNCHANGED parkingVars
  <2>1. UNCHANGED <<autoDelete, parks, data, taken, caller>>
    BY <1>1 DEF Close, parkingVars
  <2>2. CallerType'
    BY <2>1 DEF ParkingInv, CallerType
  <2> QED BY <2>1, <2>2, Elsewhere
<1>2. CASE Cleanup \/ (\E k \in CorrelationKeys : Delete(k))
  BY <1>2, RemovalKeeps
<1>3. CASE Tick
  BY <1>3, TickKeeps
<1>4. CASE \E k \in CorrelationKeys, ttl \in TTLs : Park(k, ttl)
  BY <1>4, ParkKeeps
<1>5. CASE \E c \in Callers, k \in CorrelationKeys : Load(c, k)
  BY <1>5, LoadKeeps
<1>6. CASE \E c \in Callers : DeleteLoaded(c)
  BY <1>6, DeleteLoadedKeeps
<1>7. CASE \E c \in Callers : RetrieveAndTrace(c) \/ Returns(c)
  BY <1>7, CallbackKeeps
<1> QED BY <1>1, <1>2, <1>3, <1>4, <1>5, <1>6, <1>7 DEF ParkingNext

\* However retrievals, parks, deletions, expiry and failing stores interleave, a
\* context that a retrieval removed is in the store under no key, and nothing is
\* removed without auto-delete.
THEOREM NeverFoundAgain == ParkingSpec => []RetrievedOnce
<1>1. ParkingInv => RetrievedOnce
  BY DEF ParkingInv
<1> QED BY <1>1, InitParkingInv, NextParkingInv, PTL DEF ParkingSpec
-----------------------------------------------------------------------------
(***************************************************************************)
(* SLOTracker.  Ages fall along the slice, so what is past the window is   *)
(* its beginning, and the window's observations are the rest: those the    *)
(* history has, a number of places further on.  Pruning never goes beyond  *)
(* that place, and the live counts are of what it has left.                *)
(***************************************************************************)

Observation == [outcome : {"good", "bad"}, age : Nat]

\* The observations before the cutoff are the first d.
Boundary(obs, d) ==
    /\ d \in 0..Len(obs)
    /\ \A i \in 1..Len(obs) : BeforeCutoff(obs[i]) <=> i <= d

\* The sequence t is obs without the first d.
RestOf(t, obs, d) ==
    /\ Len(obs) = Len(t) + d
    /\ \A i \in 1..Len(t) : t[i] = obs[i + d]

Falling(obs) == \A i, j \in 1..Len(obs) : i <= j => obs[j].age <= obs[i].age

SliceIsWindow(obs, t, live) ==
    \E d \in Nat : live <= d /\ Boundary(obs, d) /\ RestOf(t, obs, d)

LiveCount(obs, live, outcome) == Cardinality(Of(obs, (live + 1)..Len(obs), outcome))

SLOInv ==
    /\ observations \in Seq(Observation) /\ recent \in Seq(Observation) /\ firstLive \in Nat
    /\ Falling(observations) /\ SliceIsWindow(observations, recent, firstLive)
    /\ liveGood = LiveCount(observations, firstLive, "good")
    /\ liveBad = LiveCount(observations, firstLive, "bad")
    /\ WindowIsExact
-----------------------------------------------------------------------------
\* A set of places that has every place before each of its own is a beginning.
LEMMA BeginningIsCounted ==
  ASSUME NEW L \in Nat, NEW S \in SUBSET (1..L),
         \A i \in S : \A j \in 1..i : j \in S
  PROVE  IsFiniteSet(S) /\ Cardinality(S) \in 0..L /\ S = 1..Cardinality(S)
<1>1. IsFiniteSet(1..L) /\ Cardinality(1..L) = L
  BY FS_Interval
<1>2. IsFiniteSet(S) /\ Cardinality(S) <= L
  BY <1>1, FS_Subset
<1>3. PICK n \in Nat : n = Cardinality(S)
  BY <1>2, FS_CardinalityType
<1>4. IsFiniteSet(1..n) /\ Cardinality(1..n) = n
  BY FS_Interval
<1>5. n + 1 \notin S
  <2>1. SUFFICES ASSUME n + 1 \in S PROVE FALSE
    OBVIOUS
  <2>2. 1..(n + 1) \subseteq S
    BY <2>1
  <2>3. Cardinality(1..(n + 1)) = n + 1
    BY FS_Interval
  <2> QED BY <1>2, <1>3, <2>2, <2>3, FS_Subset
<1>6. S \subseteq 1..n
  <2>1. ASSUME NEW i \in S, ~(i <= n) PROVE FALSE
    <3>1. n + 1 \in 1..i
      BY <2>1
    <3> QED BY <1>5, <3>1
  <2> QED BY <2>1
<1>7. S = 1..n
  BY <1>3, <1>4, <1>6, FS_Subset
<1> QED BY <1>2, <1>3, <1>7

\* Moving a set of places leaves its size.
LEMMA MovedPlaces ==
  ASSUME NEW A \in SUBSET Nat, IsFiniteSet(A), NEW d \in Nat, NEW B, B = {i + d : i \in A}
  PROVE  IsFiniteSet(B) /\ Cardinality(B) = Cardinality(A)
<1> DEFINE f == [i \in A |-> i + d]
<1>1. f \in [A -> B]
  OBVIOUS
<1>2. \A i, j \in A : f[i] = f[j] => i = j
  OBVIOUS
<1>3. \A b \in B : \E i \in A : f[i] = b
  OBVIOUS
<1> HIDE DEF f
<1>4. f \in Bijection(A, B)
  BY <1>1, <1>2, <1>3 DEF Bijection, Injection, Surjection, IsInjective
<1>5. ExistsBijection(A, B)
  BY <1>4 DEF ExistsBijection
<1> QED BY <1>5, FS_Bijection

LEMMA PlacesAreFinite ==
  ASSUME NEW a \in Nat, NEW n \in Nat, NEW S \in SUBSET ((a + 1)..n)
  PROVE  IsFiniteSet(S) /\ Cardinality(S) \in Nat
<1>1. IsFiniteSet((a + 1)..n)
  BY FS_Interval
<1> QED BY <1>1, FS_Subset, FS_CardinalityType

\* Counting a run of places in two parts.
LEMMA InTwoParts ==
  ASSUME NEW obs, NEW a \in Nat, NEW d \in Nat, NEW n \in Nat, a <= d, d <= n, NEW outcome
  PROVE  /\ Cardinality(Of(obs, (a + 1)..n, outcome)) =
              Cardinality(Of(obs, (a + 1)..d, outcome)) + Cardinality(Of(obs, (d + 1)..n, outcome))
         /\ Cardinality(Of(obs, (a + 1)..n, outcome)) \in Nat
         /\ Cardinality(Of(obs, (a + 1)..d, outcome)) \in Nat
         /\ Cardinality(Of(obs, (d + 1)..n, outcome)) \in Nat
<1> DEFINE all == Of(obs, (a + 1)..n, outcome)
           low == Of(obs, (a + 1)..d, outcome)
           high == Of(obs, (d + 1)..n, outcome)
<1>1. all = low \cup high /\ low \cap high = {}
  BY DEF Of
<1>2. /\ all \subseteq (a + 1)..n /\ low \subseteq (a + 1)..d /\ high \subseteq (d + 1)..n
  BY DEF Of
<1> HIDE DEF all, low, high
<1>3. /\ IsFiniteSet(low) /\ IsFiniteSet(high) /\ Cardinality(all) \in Nat
      /\ Cardinality(low) \in Nat /\ Cardinality(high) \in Nat
  BY <1>2, PlacesAreFinite
<1>4. Cardinality(low \cap high) = 0
  BY <1>1, FS_EmptySet
<1>5. Cardinality(low \cup high) = Cardinality(low) + Cardinality(high) - Cardinality(low \cap high)
  BY <1>3, FS_Union
<1>6. Cardinality(all) = Cardinality(low) + Cardinality(high)
  BY <1>1, <1>3, <1>4, <1>5
<1> QED BY <1>3, <1>6 DEF all, low, high

\* The places of obs from the d-th on with an observation of some kind.
PlacesOf(obs, d, Kind) == {i \in (d + 1)..Len(obs) : obs[i] \in Kind}

\* There are as many in a sequence as in the one it is the rest of.
LEMMA CountsInRest ==
  ASSUME NEW t \in Seq(Observation), NEW obs \in Seq(Observation), NEW d \in Nat,
         RestOf(t, obs, d), NEW Kind
  PROVE  Cardinality(PlacesOf(obs, d, Kind)) = Cardinality(PlacesOf(t, 0, Kind))
<1> DEFINE here == PlacesOf(t, 0, Kind)
           there == PlacesOf(obs, d, Kind)
<1>1. Len(t) \in Nat /\ Len(obs) = Len(t) + d
  BY DEF RestOf
<1>2. here \subseteq Nat /\ IsFiniteSet(here)
  <2>1. here \subseteq (0 + 1)..Len(t) /\ here \subseteq Nat /\ 0 \in Nat
    BY DEF PlacesOf
  <2> HIDE DEF here
  <2> QED BY <1>1, <2>1, PlacesAreFinite
<1>3. there = {i + d : i \in here}
  <2>1. ASSUME NEW i \in here PROVE i + d \in there
    BY <1>1 DEF RestOf, PlacesOf
  <2>2. ASSUME NEW j \in there PROVE \E i \in here : j = i + d
    <3>1. j - d \in 1..Len(t) /\ (j - d) + d = j
      BY <1>1 DEF PlacesOf
    <3>2. t[j - d] = obs[j]
      BY <3>1 DEF RestOf
    <3> QED BY <3>1, <3>2 DEF PlacesOf
  <2> QED BY <2>1, <2>2
<1> HIDE DEF here, there
<1>4. Cardinality(there) = Cardinality(here)
  BY <1>2, <1>3, MovedPlaces
<1> QED BY <1>4 DEF here, there
-----------------------------------------------------------------------------
(* prune. *)

LEMMA LeavingIsBoundary ==
  ASSUME NEW obs, Len(obs) \in Nat, NEW d, Boundary(obs, d), firstLive \in Nat, firstLive <= d
  PROVE  Leaving(obs) = (firstLive + 1)..d /\ firstLive + Cardinality(Leaving(obs)) = d
<1>1. d \in Nat /\ d <= Len(obs)
  BY DEF Boundary
<1>2. ASSUME NEW i \in (firstLive + 1)..Len(obs)
      PROVE  (\A j \in (firstLive + 1)..i : BeforeCutoff(obs[j])) <=> i <= d
  <2>1. \A j \in (firstLive + 1)..i : j \in 1..Len(obs)
    OBVIOUS
  <2> QED BY <1>1, <2>1 DEF Boundary
<1>3. Leaving(obs) = (firstLive + 1)..d
  BY <1>1, <1>2 DEF Leaving
<1>4. Cardinality((firstLive + 1)..d) = d - firstLive
  <2>1. firstLive + 1 \in Int /\ d \in Int
    BY <1>1
  <2>2. Cardinality((firstLive + 1)..d) =
          IF firstLive + 1 > d THEN 0 ELSE d - (firstLive + 1) + 1
    BY <2>1, FS_Interval
  <2> QED BY <1>1, <2>2
<1> QED BY <1>1, <1>3, <1>4

\* prune leaves the window and its counts, compacted or not.
LEMMA Prunes ==
  ASSUME NEW obs \in Seq(Observation), NEW t \in Seq(Observation), NEW d \in Nat,
         NEW good, NEW bad, firstLive \in Nat, firstLive <= d,
         Falling(obs), Boundary(obs, d), RestOf(t, obs, d),
         good = LiveCount(obs, firstLive, "good"), bad = LiveCount(obs, firstLive, "bad"),
         Prune(obs, good, bad)
  PROVE  /\ observations' \in Seq(Observation) /\ Falling(observations') /\ firstLive' \in Nat
         /\ Boundary(observations', firstLive') /\ RestOf(t, observations', firstLive')
         /\ liveGood' = LiveCount(observations', firstLive', "good")
         /\ liveBad' = LiveCount(observations', firstLive', "bad")
<1>1. Len(obs) \in Nat /\ d <= Len(obs) /\ Len(t) \in Nat /\ Len(obs) = Len(t) + d
  BY DEF Boundary, RestOf
<1>2. Leaving(obs) = (firstLive + 1)..d /\ firstLive + Cardinality(Leaving(obs)) = d
  BY <1>1, LeavingIsBoundary
<1>3. /\ liveGood' = good - Cardinality(Of(obs, (firstLive + 1)..d, "good"))
      /\ liveBad' = bad - Cardinality(Of(obs, (firstLive + 1)..d, "bad"))
      /\ \/ observations' = SubSeq(obs, d + 1, Len(obs)) /\ firstLive' = 0
         \/ observations' = obs /\ firstLive' = d
  BY <1>2 DEF Prune, FirstAfter
<1>4. liveGood' = LiveCount(obs, d, "good") /\ liveBad' = LiveCount(obs, d, "bad")
  <2>1. ASSUME NEW outcome
        PROVE  LiveCount(obs, firstLive, outcome) - Cardinality(Of(obs, (firstLive + 1)..d, outcome))
                 = LiveCount(obs, d, outcome)
    BY <1>1, InTwoParts DEF LiveCount, Boundary
  <2> QED BY <1>3, <2>1
<1>5. CASE observations' = obs /\ firstLive' = d
  BY <1>4, <1>5
<1>6. CASE observations' = SubSeq(obs, d + 1, Len(obs)) /\ firstLive' = 0
  <2> DEFINE s == SubSeq(obs, d + 1, Len(obs))
  <2>1. /\ s \in Seq(Observation) /\ Len(s) = Len(t)
        /\ \A i \in 1..Len(t) : s[i] = obs[i + d] /\ i + d \in 1..Len(obs)
    <3>1. d + 1 \in 1..(Len(obs) + 1) /\ Len(obs) \in d..Len(obs)
      BY <1>1
    <3>2. /\ s \in Seq(Observation)
          /\ Len(s) = IF d + 1 <= Len(obs) THEN Len(obs) - (d + 1) + 1 ELSE 0
          /\ \A i \in 1..(Len(obs) - (d + 1) + 1) : s[i] = obs[(d + 1) + i - 1]
      BY <1>1, SubSeqProperties
    <3> HIDE DEF s
    <3>3. Len(obs) - (d + 1) + 1 = Len(t) /\ Len(s) = Len(t)
      BY <1>1, <3>2
    <3>4. ASSUME NEW i \in 1..Len(t) PROVE s[i] = obs[i + d] /\ i + d \in 1..Len(obs)
      <4>1. s[i] = obs[(d + 1) + i - 1] /\ (d + 1) + i - 1 = i + d
        BY <3>2, <3>3
      <4> QED BY <1>1, <4>1
    <3> QED BY <3>2, <3>3, <3>4
  <2> HIDE DEF s
  <2>2. Falling(s)
    <3>1. ASSUME NEW i \in 1..Len(s), NEW j \in 1..Len(s), i <= j PROVE s[j].age <= s[i].age
      <4>1. i + d \in 1..Len(obs) /\ j + d \in 1..Len(obs) /\ i + d <= j + d
            /\ s[i] = obs[i + d] /\ s[j] = obs[j + d]
        BY <1>1, <2>1, <3>1
      <4> QED BY <4>1 DEF Falling
    <3> QED BY <3>1 DEF Falling
  <2>3. Boundary(s, 0)
    <3>1. ASSUME NEW i \in 1..Len(s) PROVE BeforeCutoff(s[i]) <=> i <= 0
      <4>1. s[i] = obs[i + d] /\ i + d \in 1..Len(obs) /\ ~(i + d <= d)
        BY <1>1, <2>1
      <4>2. ~BeforeCutoff(obs[i + d])
        BY <4>1 DEF Boundary
      <4> QED BY <4>1, <4>2
    <3> QED BY <1>1, <2>1, <3>1 DEF Boundary
  <2>4. RestOf(t, s, 0) /\ RestOf(s, obs, d)
    BY <1>1, <2>1 DEF RestOf
  <2>5. ASSUME NEW outcome \in {"good", "bad"} PROVE LiveCount(s, 0, outcome) = LiveCount(obs, d, outcome)
    <3> DEFINE Kind == {o \in Observation : o.outcome = outcome}
    <3>1. Of(obs, (d + 1)..Len(obs), outcome) = PlacesOf(obs, d, Kind)
      <4>1. \A i \in (d + 1)..Len(obs) : obs[i] \in Observation
        BY <1>1
      <4> QED BY <4>1 DEF Of, PlacesOf
    <3>2. Of(s, (0 + 1)..Len(s), outcome) = PlacesOf(s, 0, Kind)
      BY <1>1, <2>1 DEF Of, PlacesOf
    <3> HIDE DEF Kind
    <3>3. Cardinality(PlacesOf(obs, d, Kind)) = Cardinality(PlacesOf(s, 0, Kind))
      BY <2>1, <2>4, CountsInRest
    <3> QED BY <3>1, <3>2, <3>3 DEF LiveCount
  <2>6. observations' = s /\ firstLive' = 0
    BY <1>6 DEF s
  <2> QED BY <1>4, <2>1, <2>2, <2>3, <2>4, <2>5, <2>6
<1> QED BY <1>3, <1>5, <1>6

-----------------------------------------------------------------------------
(* The actions. *)

\* The places after the d-th of what is no older than so many ticks.
Younger(obs, d, ticks) == {i \in (d + 1)..Len(obs) : obs[i].age <= ticks}

\* What a slice pruned to its window counts is what the history does.
LEMMA AnswersAreExact ==
  ASSUME NEW obs \in Seq(Observation), NEW t \in Seq(Observation), NEW d \in Nat,
         RestOf(t, obs, d), NEW ticks \in Int
  PROVE  /\ Cardinality(Younger(obs, d, ticks)) = Cardinality(Younger(t, 0, ticks))
         /\ Cardinality(Of(obs, Younger(obs, d, ticks), "bad"))
              = Cardinality(Of(t, Younger(t, 0, ticks), "bad"))
<1> DEFINE kept == Younger(obs, d, ticks)
           held == Younger(t, 0, ticks)
           Young == {o \in Observation : o.age <= ticks}
           Bad == {o \in Observation : o.age <= ticks /\ o.outcome = "bad"}
<1>1. \A i \in (d + 1)..Len(obs) : obs[i] \in Observation
  BY DEF RestOf
<1>2. \A i \in 1..Len(t) : t[i] \in Observation
  OBVIOUS
<1>3. kept = PlacesOf(obs, d, Young) /\ held = PlacesOf(t, 0, Young)
  BY <1>1, <1>2 DEF PlacesOf, Younger
<1>4. Of(obs, kept, "bad") = PlacesOf(obs, d, Bad) /\ Of(t, held, "bad") = PlacesOf(t, 0, Bad)
  BY <1>1, <1>2 DEF Of, PlacesOf, Younger
<1> HIDE DEF kept, held, Young, Bad
<1>5. Cardinality(kept) = Cardinality(held)
  BY <1>3, CountsInRest
<1>6. Cardinality(Of(obs, kept, "bad")) = Cardinality(Of(t, held, "bad"))
  BY <1>4, CountsInRest
<1> QED BY <1>5, <1>6 DEF kept, held

LEMMA CountsAreExact ==
  ASSUME NEW obs \in Seq(Observation), NEW t \in Seq(Observation), NEW d \in Nat,
         RestOf(t, obs, d), Boundary(obs, d)
  PROVE  LET held == {i \in 1..Len(t) : t[i].age <= Window}
         IN  /\ LiveCount(obs, d, "good") + LiveCount(obs, d, "bad") = Cardinality(held)
             /\ LiveCount(obs, d, "bad") = Cardinality(Of(t, held, "bad"))
<1> DEFINE held == {i \in 1..Len(t) : t[i].age <= Window}
           live == (d + 1)..Len(obs)
           kept == {i \in live : obs[i].age <= Window}
           good == Of(obs, live, "good")
           bad == Of(obs, live, "bad")
<1>1. Window \in Nat /\ Len(obs) \in Nat /\ \A i \in live : obs[i] \in Observation
  BY SLOAssumption DEF RestOf
<1>2. kept = live
  <2>1. ASSUME NEW i \in live PROVE obs[i].age <= Window
    <3>1. ~BeforeCutoff(obs[i]) /\ obs[i].age \in Nat
      BY <1>1 DEF Boundary, Observation
    <3> QED BY <1>1, <3>1 DEF BeforeCutoff
  <2> QED BY <2>1
<1>3. Cardinality(kept) = Cardinality(held) /\ Cardinality(Of(obs, kept, "bad")) = Cardinality(Of(t, held, "bad"))
  <2>1. kept = Younger(obs, d, Window) /\ held = Younger(t, 0, Window)
    BY DEF Younger
  <2>2. Window \in Int
    BY <1>1
  <2> HIDE DEF kept, held
  <2> QED BY <2>1, <2>2, AnswersAreExact
<1>4. /\ good \subseteq live /\ bad \subseteq live
      /\ live = good \cup bad /\ good \cap bad = {}
  BY <1>1 DEF Of, Observation
<1> HIDE DEF good, bad
<1>5. /\ IsFiniteSet(good) /\ IsFiniteSet(bad)
      /\ Cardinality(good) \in Nat /\ Cardinality(bad) \in Nat
  BY <1>1, <1>4, PlacesAreFinite
<1> HIDE DEF held, kept, live
<1>6. Cardinality(good \cap bad) = 0
  BY <1>4, FS_EmptySet
<1>7. Cardinality(good \cup bad) = Cardinality(good) + Cardinality(bad) - Cardinality(good \cap bad)
  BY <1>5, FS_Union
<1>8. Cardinality(live) = Cardinality(good) + Cardinality(bad)
  BY <1>4, <1>5, <1>6, <1>7
<1> QED BY <1>2, <1>3, <1>8 DEF held, live, good, bad, LiveCount

\* The history's places, as Within counts them.
LEMMA WithinIs ==
  ASSUME NEW ticks, recent' \in Seq(Observation)
  PROVE  Within(ticks)' = {i \in 1..Len(recent') : recent'[i].age <= ticks}
BY DEF Within

\* A call that prunes and then answers from the counts.
LEMMA SnapshotKeeps ==
  ASSUME NEW obs \in Seq(Observation), NEW d \in Nat, recent' \in Seq(Observation),
         NEW good, NEW bad, firstLive \in Nat, firstLive <= d,
         Falling(obs), Boundary(obs, d), RestOf(recent', obs, d),
         good = LiveCount(obs, firstLive, "good"), bad = LiveCount(obs, firstLive, "bad"),
         Prune(obs, good, bad),
         answer' = SnapshotOf(liveGood', liveBad')
  PROVE  SLOInv'
<1>1. PICK t \in Seq(Observation) : t = recent'
  OBVIOUS
<1>2. /\ observations' \in Seq(Observation) /\ Falling(observations') /\ firstLive' \in Nat
      /\ Boundary(observations', firstLive') /\ RestOf(t, observations', firstLive')
      /\ liveGood' = LiveCount(observations', firstLive', "good")
      /\ liveBad' = LiveCount(observations', firstLive', "bad")
  BY <1>1, Prunes
<1>3. PICK o \in Seq(Observation), e \in Nat : o = observations' /\ e = firstLive'
  BY <1>2
<1> DEFINE held == {i \in 1..Len(t) : t[i].age <= Window}
<1>4. liveGood' + liveBad' = Cardinality(held) /\ liveBad' = Cardinality(Of(t, held, "bad"))
  BY <1>2, <1>3, CountsAreExact
<1>5. Within(Window)' = held
  BY <1>1, WithinIs
<1>6. BadWithin(Window)' = Of(t, held, "bad")
  BY <1>1, <1>5 DEF BadWithin
<1> HIDE DEF held
<1>7. answer'.kind = "snapshot" /\ answer'.total = liveGood' + liveBad' /\ answer'.bad = liveBad'
  BY DEF SnapshotOf
<1>8. WindowIsExact'
  BY <1>4, <1>5, <1>6, <1>7 DEF WindowIsExact
<1>9. SliceIsWindow(observations', recent', firstLive')
  BY <1>1, <1>2 DEF SliceIsWindow
<1> QED BY <1>2, <1>8, <1>9 DEF SLOInv

LEMMA ForecastKeeps ==
  ASSUME SLOInv, NEW baseline \in Baselines, NEW lookahead \in Lookaheads,
         Forecast(baseline, lookahead)
  PROVE  SLOInv'
<1>1. PICK t \in Seq(Observation) : t = recent' /\ t = recent
  BY DEF SLOInv, Forecast
<1>2. PICK d \in Nat : /\ firstLive <= d /\ Boundary(observations, d) /\ RestOf(t, observations, d)
  BY <1>1 DEF SLOInv, SliceIsWindow
<1>3. Prune(observations, liveGood, liveBad)
  BY DEF Forecast
<1>4. /\ observations' \in Seq(Observation) /\ Falling(observations') /\ firstLive' \in Nat
      /\ Boundary(observations', firstLive') /\ RestOf(t, observations', firstLive')
      /\ liveGood' = LiveCount(observations', firstLive', "good")
      /\ liveBad' = LiveCount(observations', firstLive', "bad")
  BY <1>2, <1>3, Prunes DEF SLOInv
<1>5. PICK o \in Seq(Observation), e \in Nat : o = observations' /\ e = firstLive'
  BY <1>4
<1>6. Window \in Nat /\ baseline \in Int /\ lookahead \in Int
  BY SLOAssumption
<1> DEFINE live == (e + 1)..Len(o)
           base == {i \in live : o[i].age < baseline}
           young == {i \in live : o[i].age <= baseline - 1}
           kept == {i \in live : o[i].age <= Window - lookahead}
<1>7. answer' = ForecastOf(Cardinality(base), Cardinality(Of(o, base, "bad")),
                           Cardinality(kept), Cardinality(Of(o, kept, "bad")), baseline, lookahead)
  BY <1>5 DEF Forecast, Retained
<1>8. base = young
  <2>1. \A i \in live : o[i].age \in Nat
    <3>1. ASSUME NEW i \in (e + 1)..Len(o) PROVE o[i] \in Observation
      <4>1. e \in Nat /\ Len(o) \in Nat
        OBVIOUS
      <4>2. i \in 1..Len(o)
        BY <4>1
      <4> QED BY <4>2
    <3> QED BY <3>1 DEF Observation
  <2> QED BY <1>6, <2>1
<1>9. ASSUME NEW ticks \in Int
      PROVE  /\ Cardinality(Younger(o, e, ticks)) = Cardinality(Within(ticks)')
             /\ Cardinality(Of(o, Younger(o, e, ticks), "bad")) = Cardinality(BadWithin(ticks)')
  <2>1. Within(ticks)' = Younger(t, 0, ticks)
    BY <1>1, WithinIs DEF Younger
  <2>2. BadWithin(ticks)' = Of(t, Younger(t, 0, ticks), "bad")
    BY <1>1, <2>1 DEF BadWithin
  <2>3. RestOf(t, o, e)
    BY <1>4, <1>5
  <2> QED BY <2>1, <2>2, <2>3, AnswersAreExact
<1>10. /\ answer'.kind = "forecast" /\ answer'.baseline = baseline /\ answer'.lookahead = lookahead
       /\ answer'.total = Cardinality(base) /\ answer'.bad = Cardinality(Of(o, base, "bad"))
       /\ answer'.kept = Cardinality(kept) /\ answer'.keptBad = Cardinality(Of(o, kept, "bad"))
  BY <1>7 DEF ForecastOf
<1>11. /\ Cardinality(young) = Cardinality(Within(baseline - 1)')
       /\ Cardinality(Of(o, young, "bad")) = Cardinality(BadWithin(baseline - 1)')
       /\ Cardinality(kept) = Cardinality(Within(Window - lookahead)')
       /\ Cardinality(Of(o, kept, "bad")) = Cardinality(BadWithin(Window - lookahead)')
  <2>1. baseline - 1 \in Int /\ Window - lookahead \in Int
    BY <1>6
  <2>2. young = Younger(o, e, baseline - 1) /\ kept = Younger(o, e, Window - lookahead)
    BY DEF Younger
  <2> HIDE DEF young, kept
  <2> QED BY <1>9, <2>1, <2>2
<1> HIDE DEF young, base, kept, live
<1>12. WindowIsExact'
  BY <1>8, <1>10, <1>11 DEF WindowIsExact
<1>13. SliceIsWindow(observations', recent', firstLive')
  BY <1>1, <1>4 DEF SliceIsWindow
<1> QED BY <1>1, <1>4, <1>12, <1>13 DEF SLOInv

LEMMA ObservationKeeps ==
  ASSUME SLOInv, NEW outcome \in {"good", "bad"}, Record(outcome) PROVE SLOInv'
<1> DEFINE x == Observed(outcome)
           obs == Append(observations, x)
           n == Len(observations)
<1>1. x \in Observation /\ x.outcome = outcome /\ x.age = 0 /\ n \in Nat /\ Window \in Nat
  BY SLOAssumption DEF Observed, Observation, SLOInv
<1> HIDE DEF x
<1>2. /\ obs \in Seq(Observation) /\ Len(obs) = n + 1 /\ obs[n + 1] = x
      /\ \A i \in 1..n : obs[i] = observations[i]
  BY <1>1, AppendProperties DEF SLOInv
<1>3. /\ recent' \in Seq(Observation) /\ Len(recent') = Len(recent) + 1 /\ recent'[Len(recent) + 1] = x
      /\ \A i \in 1..Len(recent) : recent'[i] = recent[i]
      /\ Len(recent) \in Nat
  BY <1>1, AppendProperties DEF SLOInv, Record, x
<1>4. PICK d \in Nat : firstLive <= d /\ Boundary(observations, d) /\ RestOf(recent, observations, d)
  BY DEF SLOInv, SliceIsWindow
<1>5. firstLive \in Nat /\ d <= n /\ n = Len(recent) + d
  BY <1>4 DEF SLOInv, Boundary, RestOf
<1>6. Prune(obs, IF outcome = "good" THEN liveGood + 1 ELSE liveGood,
                 IF outcome = "bad" THEN liveBad + 1 ELSE liveBad)
      /\ answer' = SnapshotOf(liveGood', liveBad')
  BY DEF Record, x
<1> HIDE DEF obs
<1>7. Falling(obs)
  <2>1. ASSUME NEW i \in 1..(n + 1), NEW j \in 1..(n + 1), i <= j PROVE obs[j].age <= obs[i].age
    <3>1. CASE j = n + 1
      <4>1. obs[i] \in Observation
        BY <1>1, <1>2
      <4> QED BY <1>1, <1>2, <3>1, <4>1 DEF Observation
    <3>2. CASE j # n + 1
      <4>1. i \in 1..n /\ j \in 1..n
        BY <1>1, <2>1, <3>2
      <4> QED BY <1>2, <2>1, <4>1 DEF SLOInv, Falling
    <3> QED BY <3>1, <3>2
  <2> QED BY <1>2, <2>1 DEF Falling
<1>8. Boundary(obs, d)
  <2>1. ASSUME NEW i \in 1..(n + 1) PROVE BeforeCutoff(obs[i]) <=> i <= d
    <3>1. CASE i = n + 1
      BY <1>1, <1>2, <1>5, <3>1 DEF BeforeCutoff
    <3>2. CASE i # n + 1
      BY <1>1, <1>2, <1>4, <3>2 DEF Boundary
    <3> QED BY <3>1, <3>2
  <2> QED BY <1>2, <1>5, <2>1 DEF Boundary
<1>9. RestOf(recent', obs, d)
  <2>1. ASSUME NEW i \in 1..(Len(recent) + 1) PROVE recent'[i] = obs[i + d]
    <3>1. CASE i = Len(recent) + 1
      BY <1>2, <1>3, <1>5, <3>1
    <3>2. CASE i # Len(recent) + 1
      <4>1. i \in 1..Len(recent) /\ i + d \in 1..n
        BY <1>3, <1>5, <3>2
      <4> QED BY <1>2, <1>3, <1>4, <4>1 DEF RestOf
    <3> QED BY <3>1, <3>2
  <2> QED BY <1>2, <1>3, <1>5, <2>1 DEF RestOf
<1>10. ASSUME NEW o \in {"good", "bad"}
       PROVE  LiveCount(obs, firstLive, o) =
                IF outcome = o THEN LiveCount(observations, firstLive, o) + 1
                ELSE LiveCount(observations, firstLive, o)
  <2> DEFINE before == Of(observations, (firstLive + 1)..n, o)
             after == Of(obs, (firstLive + 1)..(n + 1), o)
  <2>1. after = IF outcome = o THEN before \cup {n + 1} ELSE before
    <3>1. ASSUME NEW i \in (firstLive + 1)..n PROVE obs[i] = observations[i]
      BY <1>2, <1>5
    <3>2. (firstLive + 1)..(n + 1) = ((firstLive + 1)..n) \cup {n + 1}
      <4>1. firstLive <= n
        BY <1>1, <1>4, <1>5
      <4> QED BY <1>1, <1>5, <4>1
    <3> QED BY <1>1, <1>2, <3>1, <3>2 DEF Of
  <2>2. before \subseteq (firstLive + 1)..n /\ n + 1 \notin before
    BY <1>1 DEF Of
  <2> HIDE DEF before, after
  <2>3. IsFiniteSet(before)
    BY <1>1, <1>5, <2>2, PlacesAreFinite
  <2>4. Cardinality(before \cup {n + 1}) = Cardinality(before) + 1
    BY <2>2, <2>3, FS_AddElement
  <2>5. Cardinality(after) = IF outcome = o THEN Cardinality(before) + 1 ELSE Cardinality(before)
    BY <2>1, <2>4
  <2> QED BY <1>2, <2>5 DEF before, after, LiveCount
<1>11. /\ (IF outcome = "good" THEN liveGood + 1 ELSE liveGood) = LiveCount(obs, firstLive, "good")
       /\ (IF outcome = "bad" THEN liveBad + 1 ELSE liveBad) = LiveCount(obs, firstLive, "bad")
  BY <1>10 DEF SLOInv
<1> QED BY <1>2, <1>3, <1>4, <1>5, <1>6, <1>7, <1>8, <1>9, <1>11, SnapshotKeeps

\* Every observation grows older, in the slice and in the history, from whose
\* beginning go those that are past.
LEMMA AgesKeep == ASSUME SLOInv, TickPasses PROVE SLOInv'
<1> DEFINE older == AllAged(recent)
           past == {i \in DOMAIN older : BeforeCutoff(older[i])}
           e == Cardinality(past)
           n == Len(observations)
           m == Len(recent)
<1>1. PICK d \in Nat : firstLive <= d /\ Boundary(observations, d) /\ RestOf(recent, observations, d)
  BY DEF SLOInv, SliceIsWindow
<1>2. /\ observations \in Seq(Observation) /\ recent \in Seq(Observation) /\ firstLive \in Nat
      /\ n \in Nat /\ m \in Nat /\ n = m + d /\ Window \in Nat
  BY <1>1, SLOAssumption DEF SLOInv, RestOf
<1>3. ASSUME NEW o \in Observation
      PROVE  /\ Aged(o) \in Observation /\ Aged(o).outcome = o.outcome
             /\ Aged(o).age = IF o.age > Window THEN o.age ELSE o.age + 1
  <2>1. PICK a : a = IF o.age > Window THEN o.age ELSE o.age + 1
    OBVIOUS
  <2>2. a \in Nat /\ Aged(o) = [o EXCEPT !.age = a]
    BY <2>1 DEF Aged, Observation
  <2> QED BY <2>1, <2>2 DEF Observation
<1>4. /\ observations' = [i \in 1..n |-> Aged(observations[i])]
      /\ older = [i \in 1..m |-> Aged(recent[i])]
  BY <1>2 DEF TickPasses, AllAged
<1>5. /\ observations' \in Seq(Observation) /\ Len(observations') = n
      /\ older \in Seq(Observation) /\ Len(older) = m
  BY <1>2, <1>3, <1>4
<1>6. /\ \A i \in 1..m : older[i] = observations'[i + d] /\ i + d \in 1..n
      /\ \A i \in 1..n : /\ observations'[i] = Aged(observations[i])
                         /\ observations[i] \in Observation
  <2>1. \A i \in 1..m : recent[i] = observations[i + d] /\ i + d \in 1..n
    BY <1>1, <1>2 DEF RestOf
  <2> QED BY <1>2, <1>4, <2>1
<1> HIDE DEF older
<1>7. Falling(observations')
  <2>1. ASSUME NEW i \in 1..n, NEW j \in 1..n, i <= j
        PROVE  observations'[j].age <= observations'[i].age
    <3>1. observations[j].age <= observations[i].age
      BY <2>1 DEF SLOInv, Falling
    <3>2. observations[i].age \in Nat /\ observations[j].age \in Nat
      BY <1>6 DEF Observation
    <3>3. /\ Aged(observations[i]).age = IF observations[i].age > Window
               THEN observations[i].age ELSE observations[i].age + 1
          /\ Aged(observations[j]).age = IF observations[j].age > Window
               THEN observations[j].age ELSE observations[j].age + 1
      BY <1>3, <1>6
    <3>4. /\ observations'[i] = Aged(observations[i])
          /\ observations'[j] = Aged(observations[j])
      BY <1>6
    <3>5. PICK a \in Nat, b \in Nat : a = observations[i].age /\ b = observations[j].age
      BY <3>2
    <3> QED BY <1>2, <3>1, <3>3, <3>4, <3>5
  <2> QED BY <1>5, <2>1 DEF Falling
<1>8. \A i \in past : \A j \in 1..i : j \in past
  <2>1. ASSUME NEW i \in past, NEW j \in 1..i PROVE j \in past
    <3>1. i \in 1..m /\ j \in 1..m /\ older[i].age > Window
      BY <1>2, <1>5 DEF BeforeCutoff
    <3>2. older[i].age <= older[j].age
      <4>1. i + d \in 1..n /\ j + d \in 1..n /\ j + d <= i + d
        BY <1>2, <1>6, <3>1
      <4>2. observations'[i + d].age <= observations'[j + d].age
        BY <1>5, <1>7, <4>1 DEF Falling
      <4> QED BY <1>6, <3>1, <4>2
    <3>3. older[i].age \in Nat /\ older[j].age \in Nat
      <4>1. older[i] \in Observation /\ older[j] \in Observation
        BY <1>5, <3>1
      <4> QED BY <4>1 DEF Observation
    <3> QED BY <1>2, <1>5, <3>1, <3>2, <3>3 DEF BeforeCutoff
  <2> QED BY <2>1
<1>9. e \in 0..m /\ past = 1..e
  <2>1. past \subseteq 1..m
    BY <1>5
  <2> HIDE DEF past
  <2> QED BY <1>2, <1>8, <2>1, BeginningIsCounted
<1>10. /\ recent' = SubSeq(older, e + 1, m)
       /\ answer' = [kind |-> "none"] /\ UNCHANGED <<firstLive, liveGood, liveBad>>
  BY <1>5 DEF TickPasses, older
<1>11. \A i \in 1..m : BeforeCutoff(older[i]) <=> i <= e
  BY <1>5, <1>9
<1> HIDE DEF past, e
<1>12. /\ recent' \in Seq(Observation) /\ Len(recent') = m - e
       /\ \A i \in 1..(m - e) : recent'[i] = older[i + e]
  <2>1. /\ recent' \in Seq(Observation)
        /\ Len(recent') = IF e + 1 <= m THEN m - (e + 1) + 1 ELSE 0
        /\ \A i \in 1..(m - (e + 1) + 1) : recent'[i] = older[(e + 1) + i - 1]
    <3>1. \A i \in (e + 1)..m : older[i] \in Observation
      BY <1>5, <1>9
    <3>2. e + 1 \in Int /\ m \in Int
      BY <1>2, <1>9
    <3> QED BY <1>10, <3>1, <3>2, SubSeqProperties
  <2>2. m - (e + 1) + 1 = m - e /\ Len(recent') = m - e
    BY <1>2, <1>9, <2>1
  <2>3. ASSUME NEW i \in 1..(m - e) PROVE recent'[i] = older[i + e]
    <3>1. recent'[i] = older[(e + 1) + i - 1] /\ (e + 1) + i - 1 = i + e
      BY <1>2, <1>9, <2>1
    <3> QED BY <3>1
  <2> QED BY <2>1, <2>2, <2>3
<1>13. Boundary(observations', d + e)
  <2>1. ASSUME NEW i \in 1..n PROVE BeforeCutoff(observations'[i]) <=> i <= d + e
    <3>1. CASE i <= d
      <4>1. BeforeCutoff(observations[i]) /\ observations[i].age \in Nat
        BY <1>1, <1>6, <3>1 DEF Boundary, Observation
      <4> QED BY <1>2, <1>3, <1>6, <1>9, <3>1, <4>1 DEF BeforeCutoff
    <3>2. CASE ~(i <= d)
      <4>1. i - d \in 1..m /\ (i - d) + d = i
        BY <1>2, <3>2
      <4>2. older[i - d] = observations'[i] /\ (BeforeCutoff(older[i - d]) <=> i - d <= e)
        BY <1>6, <1>11, <4>1
      <4> QED BY <1>2, <1>9, <4>2
    <3> QED BY <3>1, <3>2
  <2> QED BY <1>2, <1>5, <1>9, <2>1 DEF Boundary
<1>14. RestOf(recent', observations', d + e)
  <2>1. ASSUME NEW i \in 1..(m - e) PROVE recent'[i] = observations'[i + (d + e)]
    <3>1. i + e \in 1..m /\ (i + e) + d = i + (d + e)
      BY <1>2, <1>9
    <3> QED BY <1>6, <1>12, <3>1
  <2> QED BY <1>2, <1>5, <1>9, <1>12, <2>1 DEF RestOf
<1>15. SliceIsWindow(observations', recent', firstLive')
  <2>1. d + e \in Nat /\ firstLive' <= d + e
    BY <1>1, <1>2, <1>9, <1>10
  <2> QED BY <1>13, <1>14, <2>1 DEF SliceIsWindow
<1>16. ASSUME NEW o PROVE LiveCount(observations', firstLive', o) = LiveCount(observations, firstLive, o)
  <2>1. \A i \in (firstLive + 1)..n : observations'[i].outcome = observations[i].outcome
    BY <1>2, <1>3, <1>6
  <2>2. Of(observations', (firstLive + 1)..n, o) = Of(observations, (firstLive + 1)..n, o)
    BY <2>1 DEF Of
  <2> QED BY <1>5, <1>10, <2>2 DEF LiveCount
<1>17. WindowIsExact'
  BY <1>10 DEF WindowIsExact
<1> QED BY <1>2, <1>5, <1>7, <1>10, <1>12, <1>15, <1>16, <1>17 DEF SLOInv

LEMMA EmptySlice ==
  ASSUME NEW obs, NEW t, obs = <<>>, t = <<>>
  PROVE  /\ obs \in Seq(Observation) /\ t \in Seq(Observation) /\ Falling(obs)
         /\ SliceIsWindow(obs, t, 0) /\ \A o : LiveCount(obs, 0, o) = 0
<1>1. Len(obs) = 0 /\ Len(t) = 0 /\ 1..0 = {}
  OBVIOUS
<1>2. Boundary(obs, 0) /\ RestOf(t, obs, 0) /\ Falling(obs)
  BY <1>1 DEF Boundary, RestOf, Falling
<1>3. \A o : Of(obs, (0 + 1)..Len(obs), o) = {}
  BY <1>1 DEF Of
<1>4. \A o : LiveCount(obs, 0, o) = 0
  BY <1>3, FS_EmptySet DEF LiveCount
<1> QED BY <1>2, <1>4 DEF SliceIsWindow

LEMMA NextSLOInv == ASSUME SLOInv, [SLONext]_sloVars PROVE SLOInv'
<1>1. CASE UNCHANGED sloVars
  BY <1>1 DEF sloVars, SLOInv, WindowIsExact, Within, BadWithin
<1>2. CASE Snapshot
  <2>1. PICK d \in Nat : firstLive <= d /\ Boundary(observations, d) /\ RestOf(recent, observations, d)
    BY DEF SLOInv, SliceIsWindow
  <2> QED BY <1>2, <2>1, SnapshotKeeps DEF SLOInv, Snapshot
<1>3. CASE SLOReset
  <2>1. /\ observations' = <<>> /\ firstLive' = 0 /\ liveGood' = 0 /\ liveBad' = 0
        /\ recent' = <<>> /\ answer' = [kind |-> "none"]
    BY <1>3 DEF SLOReset
  <2>2. WindowIsExact'
    BY <2>1 DEF WindowIsExact
  <2> QED BY <2>1, <2>2, EmptySlice DEF SLOInv
<1> QED BY <1>1, <1>2, <1>3, ObservationKeeps, AgesKeep, ForecastKeeps DEF SLONext

\* slo.go: a snapshot counts exactly the observations of the rolling window, and
\* a forecast those of its baseline and of what the window will still hold,
\* whatever was pruned and compacted before.  For any window, target, options
\* and number of observations, several of one instant included.
THEOREM TheCountsAreExact == SLOSpec => []WindowIsExact
<1>1. SLOInit => SLOInv
  BY EmptySlice DEF SLOInit, SLOInv, WindowIsExact
<1>2. SLOInv /\ [SLONext]_sloVars => SLOInv'
  BY NextSLOInv
<1>3. SLOInv => WindowIsExact
  BY DEF SLOInv
<1> QED BY <1>1, <1>2, <1>3, PTL DEF SLOSpec
=============================================================================

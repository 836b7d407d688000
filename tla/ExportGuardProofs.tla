------------------------- MODULE ExportGuardProofs -------------------------
(***************************************************************************)
(* Proofs about the circuit breaker and the token bucket, for any number   *)
(* of goroutines and exporters and any thresholds, timeout and rate.       *)
(***************************************************************************)
EXTENDS ExportGuard, TLAPS

\* The breaker never counts more than has happened: its successes since the
\* last failure, its failures since it last closed.
StreakInv == successes <= goodStreak /\ failures <= badSinceClosed

IInv == TypeOK /\ CountersMatchState /\ StreakInv /\ LazyRefillExact

counts == <<state, failures, successes, goodStreak, badSinceClosed>>
-----------------------------------------------------------------------------
(* Which steps touch which variables. *)

LEMMA CountFrame ==
  ASSUME [Next]_vars
  PROVE  \/ \E t \in Threads : WriteState(t)
         \/ \E x \in Exporters : EndExport(x)
         \/ UNCHANGED counts
<1> USE DEF counts, vars, breakerVars
<1>1. ASSUME NEW t \in Threads, StartTrace(t)
      PROVE  WriteState(t) \/ UNCHANGED counts
  BY <1>1 DEF StartTrace, AskLimiter, Allow, ReadBreaker, CompareStamp,
              WriteStamp, AskNext, EndTrace
<1>2. ASSUME NEW x \in Exporters, BeginExport(x) PROVE UNCHANGED counts
  BY <1>2 DEF BeginExport
<1>3. CASE BackendTurns \/ TimePasses \/ UNCHANGED vars
  BY <1>3 DEF BackendTurns, TimePasses
<1> QED BY <1>1, <1>2, <1>3 DEF Next

LEMMA BucketFrame ==
  ASSUME [Next]_vars
  PROVE  (\E t \in Threads : AskLimiter(t)) \/ TimePasses \/ UNCHANGED bucketVars
<1> USE DEF vars, bucketVars
<1>1. ASSUME NEW t \in Threads, StartTrace(t)
      PROVE  AskLimiter(t) \/ UNCHANGED bucketVars
  BY <1>1 DEF StartTrace, Allow, ReadBreaker, CompareStamp, WriteState,
              WriteStamp, AskNext, EndTrace
<1>2. ASSUME NEW x \in Exporters, BeginExport(x) \/ EndExport(x)
      PROVE  UNCHANGED bucketVars
  BY <1>2 DEF BeginExport, EndExport
<1>3. CASE BackendTurns \/ UNCHANGED vars
  BY <1>3 DEF BackendTurns
<1> QED BY <1>1, <1>2, <1>3 DEF Next
-----------------------------------------------------------------------------
(* The breaker. *)

LEMMA CountStep ==
  ASSUME CountType, CountersMatchState, StreakInv, [Next]_vars
  PROVE  CountType' /\ CountersMatchState' /\ StreakInv'
<1> USE GuardAssumption DEF CountType, State, CountersMatchState, StreakInv
<1>1. ASSUME NEW t \in Threads, WriteState(t)
      PROVE  CountType' /\ CountersMatchState' /\ StreakInv'
  BY <1>1 DEF WriteState
<1>2. ASSUME NEW x \in Exporters, EndExport(x)
      PROVE  CountType' /\ CountersMatchState' /\ StreakInv'
  <2>1. CASE RecordSuccess
    BY <2>1 DEF RecordSuccess, Probing, Smaller
  <2>2. CASE RecordFailure
    BY <2>2 DEF RecordFailure, SuccessesAfterFailure, Smaller
  <2> QED BY <1>2, <2>1, <2>2 DEF EndExport
<1>3. CASE UNCHANGED counts
  BY <1>3 DEF counts
<1> QED BY <1>1, <1>2, <1>3, CountFrame

LEMMA EarnedStep ==
  ASSUME CountType, CountersMatchState, StreakInv, [Next]_vars
  PROVE  /\ state # "closed" /\ state' = "closed" => goodStreak' = SuccessThreshold
         /\ state # "open" /\ state' = "open" => badSinceClosed' = FailureThreshold
<1> USE GuardAssumption DEF CountType, CountersMatchState, StreakInv
<1>1. CASE \E t \in Threads : WriteState(t)
  BY <1>1 DEF WriteState
<1>2. CASE \E x \in Exporters : EndExport(x)
  <2>1. CASE RecordSuccess
    BY <2>1 DEF RecordSuccess, Smaller
  <2>2. CASE RecordFailure
    BY <2>2 DEF RecordFailure, Smaller
  <2> QED BY <1>2, <2>1, <2>2 DEF EndExport
<1>3. CASE UNCHANGED counts
  BY <1>3 DEF counts
<1> QED BY <1>1, <1>2, <1>3, CountFrame
-----------------------------------------------------------------------------
(* The token bucket. *)

\* An idle time of FillTime fills the bucket from empty.
LEMMA FillTimeFills ==
  /\ Capacity \in Nat /\ FillTime \in Nat
  /\ FillTime * Rate >= Capacity
<1> DEFINE q == Capacity \div Rate
           r == Capacity % Rate
<1>1. Capacity \in Nat
  BY GuardAssumption DEF Capacity
<1>2. q \in Nat /\ r \in 0..(Rate - 1) /\ Capacity = Rate * q + r
  BY <1>1, GuardAssumption
<1>3. FillTime = q + 1
  BY DEF FillTime
<1> HIDE DEF q, r
<1>4. (q + 1) * Rate = Rate * q + Rate
  BY <1>2, GuardAssumption
<1> QED BY <1>1, <1>2, <1>3, <1>4, GuardAssumption

LEMMA BucketStep ==
  ASSUME BucketType, LazyRefillExact, [Next]_vars
  PROVE  BucketType' /\ LazyRefillExact'
<1>1. /\ Capacity \in Nat /\ FillTime \in Nat /\ FillTime * Rate >= Capacity
      /\ Rate \in Nat /\ Token \in Nat
  BY FillTimeFills, GuardAssumption
<1>2. idle * Rate \in Nat /\ (idle + 1) * Rate = idle * Rate + Rate /\ 0 * Rate = 0
  BY <1>1 DEF BucketType
<1>3. CASE \E t \in Threads : AskLimiter(t)
  <2>1. idle' = 0 /\ units' \in 0..Capacity /\ units' = fuel'
    BY <1>1, <1>2, <1>3
    DEF AskLimiter, Refilled, Smaller, BucketType, LazyRefillExact
  <2>2. idle' * Rate = 0
    BY <1>2, <2>1
  <2>3. Refilled' = units'
    <3>1. Refilled' = Smaller(Capacity, units' + idle' * Rate)
      BY DEF Refilled
    <3>2. units' \in Int /\ ~(Capacity < units')
      BY <1>1, <2>1
    <3>3. units' + idle' * Rate = units'
      BY <2>2, <3>2
    <3> QED BY <3>1, <3>2, <3>3 DEF Smaller
  <2> QED BY <1>1, <2>1, <2>3 DEF BucketType, LazyRefillExact
<1>4. CASE TimePasses
  <2>1. CASE idle < FillTime
    <3>1. idle' = idle + 1
      BY <1>1, <1>4, <2>1 DEF TimePasses, Smaller, BucketType
    <3>2. idle' * Rate = idle * Rate + Rate
      BY <1>2, <3>1
    <3> QED BY <1>1, <1>2, <1>4, <3>1, <3>2, <2>1
            DEF TimePasses, Refilled, Smaller, BucketType, LazyRefillExact
  <2>2. CASE idle = FillTime
    <3>1. idle' = FillTime
      BY <1>1, <1>4, <2>2 DEF TimePasses, Smaller
    <3> QED BY <1>1, <1>2, <1>4, <2>2, <3>1
            DEF TimePasses, Refilled, Smaller, BucketType, LazyRefillExact
  <2> QED BY <1>1, <2>1, <2>2 DEF BucketType
<1>5. CASE UNCHANGED bucketVars
  BY <1>5 DEF bucketVars, BucketType, LazyRefillExact, Refilled
<1> QED BY <1>3, <1>4, <1>5, BucketFrame
-----------------------------------------------------------------------------
(* The rest of the type invariant. *)

LEMMA AgeStep ==
  ASSUME AgeType, ThreadType, [Next]_vars PROVE AgeType'
<1> USE GuardAssumption DEF AgeType, Age, Older, Smaller, breakerVars
<1>1. ASSUME NEW t \in Threads, StartTrace(t) PROVE AgeType'
  BY <1>1 DEF StartTrace, AskLimiter, Allow, ReadBreaker, CompareStamp,
              WriteState, WriteStamp, AskNext, EndTrace
<1>2. ASSUME NEW x \in Exporters, BeginExport(x) PROVE AgeType'
  BY <1>2 DEF BeginExport
<1>3. ASSUME NEW x \in Exporters, EndExport(x) PROVE AgeType'
  BY <1>3 DEF EndExport, RecordSuccess, RecordFailure
<1>4. CASE TimePasses
  BY <1>4 DEF TimePasses
<1>5. CASE BackendTurns \/ UNCHANGED vars
  BY <1>5 DEF BackendTurns, vars
<1> QED BY <1>1, <1>2, <1>3, <1>4, <1>5 DEF Next

LEMMA ThreadStep ==
  ASSUME ThreadType, ExportType, [Next]_vars PROVE ThreadType' /\ ExportType'
<1> USE DEF ThreadType, ExportType, Stage, exportVars
<1>1. ASSUME NEW t \in Threads, StartTrace(t) PROVE ThreadType' /\ ExportType'
  BY <1>1 DEF StartTrace, AskLimiter, Allow, ReadBreaker, CompareStamp,
              WriteState, WriteStamp, AskNext, EndTrace, Goto
<1>2. ASSUME NEW x \in Exporters, BeginExport(x) \/ EndExport(x)
      PROVE  ThreadType' /\ ExportType'
  BY <1>2 DEF BeginExport, EndExport
<1>3. CASE BackendTurns \/ TimePasses \/ UNCHANGED vars
  BY <1>3 DEF BackendTurns, TimePasses, vars
<1> QED BY <1>1, <1>2, <1>3 DEF Next
-----------------------------------------------------------------------------
(* The invariant and what follows from it. *)

LEMMA InitInv == Init => IInv
<1> SUFFICES ASSUME Init PROVE IInv
  OBVIOUS
<1>1. CountType /\ CountersMatchState /\ StreakInv
  BY GuardAssumption DEF Init, CountType, State, CountersMatchState, StreakInv
<1>2. BucketType /\ LazyRefillExact
  <2>1. 0 * Rate = 0 /\ Capacity \in Nat /\ FillTime \in Nat
    BY FillTimeFills, GuardAssumption
  <2> QED BY <2>1 DEF Init, BucketType, LazyRefillExact, Refilled, Smaller
<1>3. AgeType /\ ThreadType
  BY GuardAssumption DEF Init, AgeType, Age, ThreadType, Stage
<1>4. ExportType
  BY Zenon DEF Init, ExportType
<1> QED BY <1>1, <1>2, <1>3, <1>4 DEF IInv, TypeOK

LEMMA StepInv == IInv /\ [Next]_vars => IInv'
BY CountStep, BucketStep, AgeStep, ThreadStep DEF IInv, TypeOK

\* The inductive invariant holds in every state of every behaviour.
THEOREM Invariance == Spec => []IInv
BY InitInv, StepInv, PTL DEF Spec

\* The variables keep their types.
THEOREM TypeCorrect == Spec => []TypeOK
<1>1. IInv => TypeOK
  BY DEF IInv
<1> QED BY <1>1, Invariance, PTL

\* Counts and breaker state agree, whatever Allow's unlocked writes do.
THEOREM Counters == Spec => []CountersMatchState
<1>1. IInv => CountersMatchState
  BY DEF IInv
<1> QED BY <1>1, Invariance, PTL

\* The lazily refilled bucket admits what one refilled on every tick would.
THEOREM BucketExact == Spec => []LazyRefillExact
<1>1. IInv => LazyRefillExact
  BY DEF IInv
<1> QED BY <1>1, Invariance, PTL

\* The breaker opens and closes only on the exports its thresholds ask for.
THEOREM Earned == Spec => EarnsItsTransitions
<1>1. IInv /\ [Next]_vars =>
        [/\ state # "closed" /\ state' = "closed" => goodStreak' = SuccessThreshold
         /\ state # "open" /\ state' = "open" => badSinceClosed' = FailureThreshold]_vars
  BY EarnedStep DEF IInv, TypeOK
<1> QED BY <1>1, Invariance, PTL DEF Spec, EarnsItsTransitions
=============================================================================

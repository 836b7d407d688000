---------------------------- MODULE ExportGuard ----------------------------
(***************************************************************************)
(* Load shedding at the head of the span pipeline: goroutines that start   *)
(* traces ask guardSampler, which asks the token bucket and then the       *)
(* circuit breaker; the spans they end are exported in batches, and        *)
(* monitoredExporter tells the breaker how each export went.               *)
(*                                                                         *)
(* CircuitBreaker.Allow reads the breaker under its lock but writes it     *)
(* without (setState), so its read, its comparison with the timeout and    *)
(* its two writes are separate steps here.  Elapsed times are counters     *)
(* that saturate once they are past every value they are compared with.    *)
(***************************************************************************)
EXTENDS Integers

CONSTANTS Threads,            \* goroutines that start traces
          Exporters,          \* one batch processor and exporter each
          FailureThreshold, SuccessThreshold,
          Timeout,            \* the breaker's, in ticks
          Burst, Rate, Token  \* the bucket: capacity in tokens, and the units
                              \* it gains per tick, Token of them to a token

ASSUME GuardAssumption ==
    /\ FailureThreshold \in Nat \ {0} /\ SuccessThreshold \in Nat \ {0}
    /\ Timeout \in Nat
    /\ Burst \in Nat /\ Rate \in Nat \ {0} /\ Token \in Nat \ {0}

VARIABLES
    state, failures, successes,  \* the breaker's state and counts
    age,                         \* time since lastStateChange
    units, idle,                 \* the bucket's content, time since lastUpdate
    pc,                          \* pc[t]: where t is in starting a trace
    seenAge,                     \* seenAge[t]: age of the stamp Allow read
    pending,                     \* pending[x]: ended spans wait for exporter x
    exporting,                   \* exporting[x]: x has an export under way
    lastFailed,                  \* monitoredExporter.failure is set
    backend,                     \* is the receiver up?
    goodStreak, badSinceClosed,  \* history: exports recorded good since a bad
                                 \* one; bad since the breaker last closed
    openAge,                     \* history: time since the breaker last opened
    fuel                         \* history: what a bucket refilled on every
                                 \* tick would hold

breakerVars == <<state, failures, successes, age, goodStreak, badSinceClosed,
                 openAge>>
bucketVars == <<units, idle, fuel>>
exportVars == <<pending, exporting, lastFailed, backend>>
vars == <<breakerVars, bucketVars, pc, seenAge, exportVars>>

\* Definitions named Faulty... are variants that no action uses: each breaks a
\* property when it takes the place of the definition it stands beside.

Smaller(a, b) == IF a < b THEN a ELSE b
Older(a) == Smaller(a + 1, Timeout + 1)
Capacity == Burst * Token
\* Long enough without an update to fill the bucket from empty.
FillTime == (Capacity \div Rate) + 1

Init ==
    /\ state = "closed" /\ failures = 0 /\ successes = 0 /\ age = 0
    /\ goodStreak = 0 /\ badSinceClosed = 0 /\ openAge = 0
    /\ units = Capacity /\ idle = 0 /\ fuel = Capacity
    /\ pc = [t \in Threads |-> "idle"]
    /\ seenAge = [t \in Threads |-> 0]
    /\ pending = [x \in Exporters |-> FALSE]
    /\ exporting = [x \in Exporters |-> FALSE]
    /\ lastFailed = FALSE /\ backend = "up"

Goto(t, p) == pc' = [pc EXCEPT ![t] = p]
-----------------------------------------------------------------------------
(* TokenBucket.Allow, under its mutex. *)

\* Forgets that idle time stops counting at a full bucket.
FaultyRefilled == units + idle * Rate
Refilled == Smaller(Capacity, units + idle * Rate)

\* A trace whose parent is sampled asks nobody; only a root trace starts here.
AskLimiter(t) ==
    /\ pc[t] = "idle"
    /\ idle' = 0
    /\ \/ /\ Refilled >= Token
          /\ units' = Refilled - Token
          /\ fuel' = fuel - Token
          /\ Goto(t, "breaker")
       \/ /\ Refilled < Token
          /\ units' = Refilled
          /\ UNCHANGED <<fuel, pc>>
    /\ UNCHANGED <<breakerVars, seenAge, exportVars>>
-----------------------------------------------------------------------------
(* CircuitBreaker.Allow: a locked read, a comparison, two unlocked writes. *)

ReadBreaker(t) ==
    /\ pc[t] = "breaker"
    /\ \/ state \in {"closed", "half-open"} /\ Goto(t, "next") /\ UNCHANGED seenAge
       \/ /\ state = "open"
          /\ Goto(t, "compare")
          /\ seenAge' = [seenAge EXCEPT ![t] = age]
    /\ UNCHANGED <<breakerVars, bucketVars, exportVars>>

\* The comparison uses the stamp that was read, at the time it is made.
CompareStamp(t) ==
    /\ pc[t] = "compare"
    /\ IF seenAge[t] > Timeout THEN Goto(t, "probe") ELSE Goto(t, "idle")
    /\ seenAge' = [seenAge EXCEPT ![t] = 0]
    /\ UNCHANGED <<breakerVars, bucketVars, exportVars>>

\* Lets the trace by without half-opening the breaker.
FaultyWriteState(t) ==
    /\ pc[t] = "probe"
    /\ Goto(t, "stamp")
    /\ UNCHANGED <<breakerVars, bucketVars, seenAge, exportVars>>

WriteState(t) ==
    /\ pc[t] = "probe"
    /\ state' = "half-open"
    /\ Goto(t, "stamp")
    /\ UNCHANGED <<failures, successes, age, goodStreak, badSinceClosed,
                   openAge, bucketVars, seenAge, exportVars>>

WriteStamp(t) ==
    /\ pc[t] = "stamp"
    /\ age' = 0
    /\ Goto(t, "next")
    /\ UNCHANGED <<state, failures, successes, goodStreak, badSinceClosed,
                   openAge, bucketVars, seenAge, exportVars>>

\* The configured sampler has the last word on a trace the guards let by.
AskNext(t, keep) ==
    /\ pc[t] = "next"
    /\ Goto(t, IF keep THEN "running" ELSE "idle")
    /\ UNCHANGED <<breakerVars, bucketVars, seenAge, exportVars>>

\* The trace's spans end and reach every batch processor.
EndTrace(t) ==
    /\ pc[t] = "running"
    /\ pending' = [x \in Exporters |-> TRUE]
    /\ Goto(t, "idle")
    /\ UNCHANGED <<breakerVars, bucketVars, seenAge, exporting, lastFailed,
                   backend>>
-----------------------------------------------------------------------------
(* monitoredExporter.ExportSpans: the export, then the breaker is told.    *)

BeginExport(x) ==
    /\ pending[x] /\ ~exporting[x]
    /\ pending' = [pending EXCEPT ![x] = FALSE]
    /\ exporting' = [exporting EXCEPT ![x] = TRUE]
    /\ UNCHANGED <<breakerVars, bucketVars, pc, seenAge, lastFailed, backend>>

\* Counts successes without asking whether the breaker is half-open.
FaultyProbing == state # "closed"
Probing == state = "half-open"

RecordSuccess ==
    /\ goodStreak' = Smaller(goodStreak + 1, SuccessThreshold)
    /\ \/ /\ Probing /\ successes + 1 >= SuccessThreshold
          /\ state' = "closed" /\ age' = 0
          /\ successes' = 0 /\ failures' = 0 /\ badSinceClosed' = 0
       \/ /\ Probing /\ successes + 1 < SuccessThreshold
          /\ successes' = successes + 1
          /\ UNCHANGED <<state, age, failures, badSinceClosed>>
       \/ /\ ~Probing
          /\ failures' = 0
          /\ UNCHANGED <<state, age, successes, badSinceClosed>>
    /\ UNCHANGED openAge

\* The count of successes survives a failure.
FaultySuccessesAfterFailure == successes
SuccessesAfterFailure == 0

\* Counting past the threshold changes no comparison: the count saturates.
RecordFailure ==
    /\ failures' = Smaller(failures + 1, FailureThreshold)
    /\ successes' = SuccessesAfterFailure
    /\ goodStreak' = 0
    /\ badSinceClosed' = Smaller(badSinceClosed + 1, FailureThreshold)
    /\ IF failures + 1 >= FailureThreshold
       THEN /\ state' = "open" /\ age' = 0
            /\ openAge' = IF state = "open" THEN openAge ELSE 0
       ELSE UNCHANGED <<state, age, openAge>>

EndExport(x) ==
    /\ exporting[x]
    /\ exporting' = [exporting EXCEPT ![x] = FALSE]
    /\ lastFailed' = (backend = "down")
    /\ IF backend = "up" THEN RecordSuccess ELSE RecordFailure
    /\ UNCHANGED <<bucketVars, pc, seenAge, pending, backend>>
-----------------------------------------------------------------------------
(* The environment. *)

BackendTurns ==
    /\ backend' = IF backend = "up" THEN "down" ELSE "up"
    /\ UNCHANGED <<breakerVars, bucketVars, pc, seenAge, pending, exporting,
                   lastFailed>>

TimePasses ==
    /\ age' = Older(age)
    /\ openAge' = Older(openAge)
    /\ seenAge' = [t \in Threads |->
                     IF pc[t] = "compare" THEN Older(seenAge[t]) ELSE 0]
    /\ idle' = Smaller(idle + 1, FillTime)
    /\ fuel' = Smaller(fuel + Rate, Capacity)
    /\ UNCHANGED <<state, failures, successes, goodStreak, badSinceClosed,
                   units, pc, exportVars>>

Allow(t) == ReadBreaker(t) \/ CompareStamp(t) \/ WriteState(t) \/ WriteStamp(t)

StartTrace(t) ==
    AskLimiter(t) \/ Allow(t) \/ (\E keep \in BOOLEAN : AskNext(t, keep))
      \/ EndTrace(t)

Next ==
    \/ \E t \in Threads : StartTrace(t)
    \/ \E x \in Exporters : BeginExport(x) \/ EndExport(x)
    \/ BackendTurns
    \/ TimePasses

Spec == Init /\ [][Next]_vars

\* A service under traffic: its goroutines keep starting traces, the batch
\* processors keep exporting, time passes, and the sampler behind the guards
\* keeps a trace now and then.
Fairness ==
    /\ \A t \in Threads : WF_vars(StartTrace(t)) /\ SF_vars(AskNext(t, TRUE))
    /\ \A x \in Exporters : WF_vars(BeginExport(x)) /\ WF_vars(EndExport(x))
    /\ WF_vars(TimePasses)

FairSpec == Spec /\ Fairness
-----------------------------------------------------------------------------
State == {"closed", "open", "half-open"}
Stage == {"idle", "breaker", "compare", "probe", "stamp", "next", "running"}
Age == 0..(Timeout + 1)

CountType ==
    /\ state \in State
    /\ failures \in 0..FailureThreshold /\ badSinceClosed \in 0..FailureThreshold
    /\ successes \in 0..SuccessThreshold /\ goodStreak \in 0..SuccessThreshold
AgeType == age \in Age /\ openAge \in Age /\ seenAge \in [Threads -> Age]
BucketType == units \in 0..Capacity /\ idle \in 0..FillTime /\ fuel \in Int
ThreadType == pc \in [Threads -> Stage]
ExportType ==
    /\ pending \in [Exporters -> BOOLEAN] /\ exporting \in [Exporters -> BOOLEAN]
    /\ lastFailed \in BOOLEAN /\ backend \in {"up", "down"}

TypeOK == CountType /\ AgeType /\ BucketType /\ ThreadType /\ ExportType

\* Whatever the unlocked writes do, a closed breaker is short of the failures
\* that open it, and successes are on count only while it is half-open and
\* short of the successes that close it.
CountersMatchState ==
    /\ state = "closed" => failures < FailureThreshold
    /\ successes > 0 => state = "half-open"
    /\ successes < SuccessThreshold

\* The breaker closes only on SuccessThreshold good exports with no bad one
\* among them, and opens only on FailureThreshold bad ones since it last
\* closed: a late probe may misplace it, never open or close it.
EarnsItsTransitions ==
    [][/\ state # "closed" /\ state' = "closed" => goodStreak' = SuccessThreshold
       /\ state # "open" /\ state' = "open" => badSinceClosed' = FailureThreshold]_vars

\* The bucket's lazy refill, from the time of the last call, holds what a
\* refill on every tick would: a burst and the rate are all it ever admits.
LazyRefillExact == Refilled = fuel

\* A receiver that comes back for good is noticed: the breaker closes again,
\* and again after every late probe that half-opens it.
BreakerRecovers == <>[](backend = "up") => []<>(state = "closed")

\* An open breaker stays shut for its timeout ("After timeout it lets traffic
\* through", options.go).
OpenWaitsTimeout ==
    [][state = "open" /\ state' = "half-open" => openAge > Timeout]_vars
=============================================================================

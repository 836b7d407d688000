---------------------------- MODULE TailSampling ----------------------------
(***************************************************************************)
(* Which spans are exported: the head sampler at a span's start, and at    *)
(* its end one chain of filter, hand-set mark and tail policy for each     *)
(* exporter.  The chains share one Keeper, which remembers the traces it   *)
(* kept a failed or slow span of.  autotel.go (endPolicyFor,               *)
(* selectSampler, buildSpanProcessors), sampling/, processors/.            *)
(* The guards of ExportGuard, which come first, are left out.              *)
(***************************************************************************)
EXTENDS Integers, FiniteSetsExt

CONSTANTS Spans, TraceOf,   \* TraceOf[s]: its trace ID
          ParentOf, NoSpan, \* ParentOf[s]: NoSpan for a root
          Linkable,         \* bound: the spans that may carry a link
          Scale,            \* rates are multiples of 1/Scale, 256 in the code
          Configs,          \* the configurations tried
          Limit, TTL,       \* keptTraceLimit, keptTraceTTL
          MaxTime           \* bound

Traces == {TraceOf[s] : s \in Spans}
Rates == 0..Scale

ConfigType ==
    [debug : BOOLEAN,       \* debugKeepsEverySpan
     handMarks : BOOLEAN,   \* TailSamplingEnabled, and spans are marked
     capture : BOOLEAN,     \* DebugCapture
     filter : BOOLEAN,      \* SpanFilter is set
     exporters : Nat,
     baseline : Rates, error : Rates, slow : Rates,
     slowThreshold : BOOLEAN,   \* SlowThreshold > 0
     linksBased : BOOLEAN, links : Rates]

ASSUME SamplingAssumption ==
    /\ Scale \in Nat \ {0} /\ Limit \in Nat \ {0}
    /\ TTL \in Nat \ {0} /\ MaxTime \in Nat
    /\ NoSpan \notin Spans /\ ParentOf \in [Spans -> Spans \cup {NoSpan}]
    /\ DOMAIN TraceOf = Spans
    /\ \A s \in Spans : ParentOf[s] # NoSpan => TraceOf[ParentOf[s]] = TraceOf[s]
    /\ Linkable \subseteq Spans
    /\ Configs \subseteq ConfigType

VARIABLES
    config,
    low,          \* low[t]: the last byte of the trace ID
    now,
    status,       \* status[s]: a span's life
    linked,       \* linked[s]: it has a link to a sampled span
    captured,     \* captured[s]: started under DebugBaggageKey
    outcome,      \* outcome[s]: what the span turned out to be
    endTime,
    stage,        \* stage[s]: how many exporters' chains have seen its end
    exported,     \* the <<exporter, span>> that reached a batch processor
    kept,         \* Keeper.kept
    latest        \* history: the trace marked last

startVars == <<linked, captured>>
endVars == <<outcome, endTime>>
vars == <<config, low, now, status, startVars, endVars, stage, exported, kept,
          latest>>

\* Marks set by hand settle a span before the policy sees how it went.
Outcomes == {"routine", "failed", "slow", "kept by hand", "dropped by hand",
             "filtered"}

Exporters == 1..config.exporters

Init ==
    /\ config \in Configs
    /\ low \in [Traces -> 0..Scale - 1]
    /\ now = 0
    /\ status = [s \in Spans |-> "unborn"]
    /\ linked = [s \in Spans |-> FALSE] /\ captured = [s \in Spans |-> FALSE]
    /\ outcome = [s \in Spans |-> "routine"]
    /\ endTime = [s \in Spans |-> 0] /\ stage = [s \in Spans |-> 0]
    /\ exported = {} /\ kept = <<>> /\ latest = NoSpan

\* Definitions named Faulty... are variants that no action uses: each breaks a
\* property when it takes the place of the definition it stands beside.
-----------------------------------------------------------------------------
(* What Init installs. *)

Active == \/ config.error > config.baseline
          \/ config.slowThreshold /\ config.slow > config.baseline

HasPolicy == ~config.debug /\ Active

HasTailProcessor == config.handMarks \/ HasPolicy

KeepAtRate(s, rate) == low[TraceOf[s]] < rate
-----------------------------------------------------------------------------
(* A span starts. *)

Sampled(s) == status[s] \notin {"unborn", "dropped at head"}
ParentSampled(s) == ParentOf[s] # NoSpan /\ Sampled(ParentOf[s])

AdaptiveSamples(s, link) ==
    \/ ParentSampled(s)
    \/ config.linksBased /\ link /\ KeepAtRate(s, config.links)
    \/ KeepAtRate(s, config.baseline)

FaultyHeadSamples(s, link, capture) ==   \* the rates at head as well
    config.debug \/ capture \/ AdaptiveSamples(s, link)
HeadSamples(s, link, capture) ==
    config.debug \/ capture \/ HasPolicy \/ AdaptiveSamples(s, link)

Start(s, link, capture) ==
    /\ status[s] = "unborn"
    /\ ParentOf[s] # NoSpan => status[ParentOf[s]] # "unborn"
    /\ link => s \in Linkable /\ config.linksBased
    /\ capture => config.capture
    /\ status' = [status EXCEPT ![s] =
                    IF HeadSamples(s, link, capture) THEN "open"
                    ELSE "dropped at head"]
    /\ linked' = [linked EXCEPT ![s] = link]
    /\ captured' = [captured EXCEPT ![s] = capture]
    /\ UNCHANGED <<config, low, now, endVars, stage, exported, kept, latest>>
-----------------------------------------------------------------------------
(* The Keeper. *)

Interesting(s) == outcome[s] \in {"failed", "slow"}

InterestRate(s) == IF outcome[s] = "failed" THEN config.error ELSE config.slow

Fresh(at, time) == time - at < TTL

\* The traces evict may leave once kept is full: the code ranges over a map, so
\* any half of the live ones.
Survivors(time) ==
    LET live == {t \in DOMAIN kept : Fresh(kept[t], time)}
    IN IF Cardinality(DOMAIN kept) < Limit THEN {DOMAIN kept}
       ELSE IF Cardinality(live) < Limit THEN {live}
       ELSE kSubset(Cardinality(live) \div 2, live)

KeptWith(t, at, ids) == [u \in ids |-> IF u = t THEN at ELSE kept[u]]

FaultyMarkKept(t, at) ==   \* after an eviction, forgets to
    \E ids \in Survivors(at) :
       kept' = KeptWith(t, at, IF ids = DOMAIN kept THEN ids \cup {t} ELSE ids)
MarkKept(t, at) ==
    \E ids \in Survivors(at) : kept' = KeptWith(t, at, ids \cup {t})

FaultyWasKept(t) == kept # <<>>   \* any trace's
WasKept(t) == t \in DOMAIN kept /\ Fresh(kept[t], now)

RoutineRate(s) == IF config.linksBased /\ linked[s] THEN config.links
                  ELSE config.baseline

KeepRoutine(s) == WasKept(TraceOf[s]) \/ KeepAtRate(s, RoutineRate(s))
-----------------------------------------------------------------------------
(* A span ends: its chains run one after another in the goroutine that     *)
(* ended it.                                                               *)

End(s, how) ==
    /\ status[s] = "open"
    /\ how = "slow" => config.slowThreshold
    /\ how = "filtered" => config.filter
    /\ how \in {"kept by hand", "dropped by hand"} => config.handMarks
    /\ outcome' = [outcome EXCEPT ![s] =
                     IF how \in {"routine", "failed", "slow"} /\ captured[s]
                     THEN "kept by hand" ELSE how]
    /\ endTime' = [endTime EXCEPT ![s] = now]
    /\ status' = [status EXCEPT ![s] = "ended"]
    /\ UNCHANGED <<config, low, now, startVars, stage, exported, kept, latest>>

Exporter(s) == stage[s] + 1

\* The next chain has decided on the span.
Decide(s, forward) ==
    /\ status[s] = "ended" /\ stage[s] < config.exporters
    /\ stage' = [stage EXCEPT ![s] = @ + 1]
    /\ exported' = IF forward THEN exported \cup {<<Exporter(s), s>>}
                   ELSE exported
    /\ UNCHANGED <<config, low, now, status, startVars, endVars>>

FilterDrops(s) ==
    /\ outcome[s] = "filtered"
    /\ Decide(s, FALSE)
    /\ UNCHANGED <<kept, latest>>

ForwardWithoutTail(s) ==
    /\ outcome[s] # "filtered" /\ ~HasTailProcessor
    /\ Decide(s, TRUE)
    /\ UNCHANGED <<kept, latest>>

Marked(s) == outcome[s] \in {"kept by hand", "dropped by hand"}

\* A hand-set mark wins; without a policy an unmarked span goes through.
ObeyMark(s) ==
    /\ HasTailProcessor /\ outcome[s] # "filtered"
    /\ Marked(s) \/ ~HasPolicy
    /\ Decide(s, outcome[s] # "dropped by hand")
    /\ UNCHANGED <<kept, latest>>

AsksPolicy(s) == HasPolicy /\ outcome[s] # "filtered" /\ ~Marked(s)

FaultyDropInteresting(s) ==   \* marks the trace before it tries the rate
    /\ AsksPolicy(s) /\ Interesting(s)
    /\ ~KeepAtRate(s, InterestRate(s))
    /\ Decide(s, FALSE)
    /\ MarkKept(TraceOf[s], endTime[s])
    /\ UNCHANGED latest
DropInteresting(s) ==
    /\ AsksPolicy(s) /\ Interesting(s)
    /\ ~KeepAtRate(s, InterestRate(s))
    /\ Decide(s, FALSE)
    /\ UNCHANGED <<kept, latest>>

KeepInteresting(s) ==
    /\ AsksPolicy(s) /\ Interesting(s)
    /\ KeepAtRate(s, InterestRate(s))
    /\ Decide(s, TRUE)
    /\ MarkKept(TraceOf[s], endTime[s])
    /\ latest' = TraceOf[s]

DecideRoutine(s) ==
    /\ AsksPolicy(s) /\ ~Interesting(s)
    /\ Decide(s, KeepRoutine(s))
    /\ UNCHANGED <<kept, latest>>

TimePasses ==
    /\ now < MaxTime
    /\ now' = now + 1
    /\ UNCHANGED <<config, low, status, startVars, endVars, stage, exported,
                   kept, latest>>

Next ==
    \/ \E s \in Spans :
         \/ \E link, capture \in BOOLEAN : Start(s, link, capture)
         \/ \E how \in Outcomes : End(s, how)
         \/ FilterDrops(s) \/ ForwardWithoutTail(s) \/ ObeyMark(s)
         \/ KeepInteresting(s) \/ DropInteresting(s) \/ DecideRoutine(s)
    \/ TimePasses

Spec == Init /\ [][Next]_vars
-----------------------------------------------------------------------------
TypeOK ==
    /\ config \in Configs /\ low \in [Traces -> 0..Scale - 1]
    /\ now \in 0..MaxTime
    /\ status \in [Spans -> {"unborn", "dropped at head", "open", "ended"}]
    /\ linked \in [Spans -> BOOLEAN] /\ captured \in [Spans -> BOOLEAN]
    /\ outcome \in [Spans -> Outcomes] /\ endTime \in [Spans -> 0..MaxTime]
    /\ stage \in [Spans -> 0..config.exporters]
    /\ exported \subseteq Exporters \X Spans
    /\ DOMAIN kept \subseteq Traces /\ Cardinality(DOMAIN kept) <= Limit
    /\ \A t \in DOMAIN kept : kept[t] \in 0..now
    /\ latest \in Traces \cup {NoSpan}

Done(s) == status[s] = "ended" /\ stage[s] = config.exporters
SpansOf(t) == {s \in Spans : TraceOf[s] = t}
Everywhere(s) == \A e \in Exporters : <<e, s>> \in exported
Nowhere(s) == \A e \in Exporters : <<e, s>> \notin exported

\* docs/production.md: "every failed span" is kept at the error rate, slow ones
\* at theirs, by every exporter, whatever the baseline says of their trace: the
\* head must have let them be recorded and the tail must know them.
FailuresAreKept ==
    HasPolicy => \A s \in Spans :
      /\ status[s] # "dropped at head"
      /\ Done(s) /\ outcome[s] = "failed" =>
           IF KeepAtRate(s, config.error) THEN Everywhere(s) ELSE Nowhere(s)
      /\ Done(s) /\ outcome[s] = "slow" =>
           IF KeepAtRate(s, config.slow) THEN Everywhere(s) ELSE Nowhere(s)

\* The failures and slow spans of a trace that some exporter was given.
KeptFailures(t) == {s \in SpansOf(t) :
                      /\ outcome[s] \in {"failed", "slow"}
                      /\ \E e \in Exporters : <<e, s>> \in exported}
FailedTraces == {t \in Traces : KeptFailures(t) # {}}

\* "its trace is then marked so the spans that end after it ... are kept with
\* it" (endpolicy.go): a span decided on while its trace's kept failures are
\* fresh is exported, for the trace marked last whatever was evicted, and for
\* every trace while fewer than Limit have failed.
FailureBringsTheRest ==
    [][\A s \in Spans :
         LET t == TraceOf[s]
             failures == KeptFailures(t) \ {s}
         IN /\ stage'[s] # stage[s]
            /\ HasPolicy /\ outcome[s] = "routine"
            /\ failures # {} /\ \A f \in failures : Fresh(endTime[f], now)
            /\ t = latest \/ Cardinality(FailedTraces) < Limit
            => <<Exporter(s), s>> \in exported']_vars

\* "a trace is kept or dropped whole rather than arriving with holes in it"
\* (endpolicy.go), at head as at the tail: while nothing in it failed, was
\* marked or filtered, and links play no part.
Uneventful(t) == \A s \in SpansOf(t) : outcome[s] = "routine" /\ ~captured[s]
Whole(t) ==
    LET ended == {s \in SpansOf(t) : Done(s) \/ status[s] = "dropped at head"}
    IN (\A s \in ended : Everywhere(s)) \/ (\A s \in ended : Nowhere(s))

WholeTraces ==
    ~config.linksBased => \A t \in Traces : Uneventful(t) => Whole(t)

\* A span whose outcome asks for nothing is exported only if its trace ID
\* falls below the rate it was given, if it was recorded at the wish of
\* debugging, or if a failure in its trace was kept first.
KeptForAReason ==
    \A e \in Exporters, s \in Spans :
      <<e, s>> \in exported /\ outcome[s] = "routine" =>
        \/ config.debug
        \/ KeepAtRate(s, config.baseline)
        \/ config.linksBased /\ KeepAtRate(s, config.links)
        \/ \E p \in SpansOf(TraceOf[s]) : captured[p]
        \/ HasPolicy /\ KeptFailures(TraceOf[s]) # {}

\* The same promise of whole traces where links are followed.
LinkedTracesWhole == \A t \in Traces : Uneventful(t) => Whole(t)
=============================================================================

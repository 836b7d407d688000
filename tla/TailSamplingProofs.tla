------------------------- MODULE TailSamplingProofs -------------------------
(***************************************************************************)
(* What is exported of a trace, for any spans and traces, any rates, any   *)
(* number of exporters and any size and lifetime of the Keeper's memory.   *)
(*                                                                         *)
(* None of the properties is inductive.  They need what a span's verdict   *)
(* depends on at each chain it has passed, and what the Keeper remembers:  *)
(* every entry is the end of a failure that was exported, the latest mark  *)
(* is never the one evicted, and nothing is evicted before Limit traces    *)
(* have failed.                                                            *)
(***************************************************************************)
EXTENDS TailSampling, FiniteSetTheorems, TLAPS

SpanType ==
    /\ config \in Configs /\ low \in [Traces -> 0..Scale - 1]
    /\ now \in 0..MaxTime
    /\ status \in [Spans -> {"unborn", "dropped at head", "open", "ended"}]
    /\ linked \in [Spans -> BOOLEAN] /\ captured \in [Spans -> BOOLEAN]
    /\ outcome \in [Spans -> Outcomes] /\ endTime \in [Spans -> 0..MaxTime]
    /\ stage \in [Spans -> 0..config.exporters]
    /\ exported \subseteq Exporters \X Spans

\* What a span can have before it starts, and before it ends.
LifeOf(s) ==
    /\ status[s] = "unborn" => ~captured[s]
    /\ status[s] # "ended" => outcome[s] = "routine" /\ stage[s] = 0
    /\ endTime[s] <= now
    /\ \A e \in Exporters : <<e, s>> \in exported => e <= stage[s]

\* Each chain that has seen s exported it just when its trace falls under rate.
Settled(s, keep) ==
    \A e \in Exporters : e <= stage[s] => (<<e, s>> \in exported <=> keep)

\* Failed and slow spans are never dropped at head, and their own rate decides.
FailureOf(s) ==
    HasPolicy =>
      /\ status[s] # "dropped at head"
      /\ outcome[s] = "failed" => Settled(s, KeepAtRate(s, config.error))
      /\ outcome[s] = "slow" => Settled(s, KeepAtRate(s, config.slow))

\* While nothing happens in a trace its baseline decides, at one end or the
\* other; debugging keeps it all.
InSample(s) == config.debug \/ KeepAtRate(s, config.baseline)
WholeOf(s) ==
    ~config.linksBased /\ Uneventful(TraceOf[s]) =>
      /\ status[s] # "unborn" =>
           (status[s] = "dropped at head" <=> ~HasPolicy /\ ~InSample(s))
      /\ Settled(s, InSample(s))

\* Why the head lets a span through without a policy: for its whole trace.
ReasonAtHead(s) ==
    \/ config.debug
    \/ KeepAtRate(s, config.baseline)
    \/ config.linksBased /\ KeepAtRate(s, config.links)
    \/ \E p \in SpansOf(TraceOf[s]) : captured[p]
HeadOf(s) == ~HasPolicy /\ Sampled(s) => ReasonAtHead(s)

SpanInv == \A s \in Spans : LifeOf(s) /\ FailureOf(s) /\ WholeOf(s) /\ HeadOf(s)

\* The Keeper remembers ends of exported failures, and all of those traces, or
\* at least the one marked last, while fewer than Limit of them have failed.
KeeperInv ==
    /\ DOMAIN kept \subseteq Traces /\ Cardinality(DOMAIN kept) <= Limit
    /\ \A t \in DOMAIN kept : \E f \in KeptFailures(t) : kept[t] = endTime[f]
    /\ latest \in Traces \cup {NoSpan}
    /\ ~HasPolicy => kept = <<>>
    /\ HasPolicy =>
         /\ IsFiniteSet(FailedTraces)
         /\ FailedTraces # {} => latest \in DOMAIN kept
         /\ Cardinality(FailedTraces) < Limit => FailedTraces \subseteq DOMAIN kept

\* What KeptForAReason asks of an exported span.
ReasonAtTail(s) ==
    ReasonAtHead(s) \/ (HasPolicy /\ KeptFailures(TraceOf[s]) # {})

IInv == SpanType /\ SpanInv /\ KeeperInv /\ KeptForAReason
-----------------------------------------------------------------------------
(* What no step changes, and what only grows. *)

LEMMA Fixed ==
    ASSUME config' = config, low' = low
    PROVE  (HasPolicy' <=> HasPolicy) /\ Exporters' = Exporters
BY DEF HasPolicy, Active, Exporters

LEMMA NextFixed == ASSUME [Next]_vars PROVE config' = config /\ low' = low
BY DEF Next, vars, Start, End, FilterDrops, ForwardWithoutTail, ObeyMark,
       KeepInteresting, DropInteresting, DecideRoutine, Decide, TimePasses

\* Rates and exporter numbers are integers.
LEMMA Numbers ==
    ASSUME SpanType
    PROVE  /\ config.exporters \in Nat /\ config.error \in Int /\ config.slow \in Int
           /\ config.baseline \in Int /\ config.links \in Int
           /\ \A s \in Spans : low[TraceOf[s]] \in Int /\ TraceOf[s] \in Traces
           /\ \A e \in Exporters : e \in Int /\ ~(e <= 0)
           /\ now \in Int
<1>1. config \in ConfigType
  BY SamplingAssumption DEF SpanType
<1>2. /\ config.exporters \in Nat /\ config.error \in Rates /\ config.slow \in Rates
      /\ config.baseline \in Rates /\ config.links \in Rates
  BY <1>1 DEF ConfigType
<1>3. Rates \subseteq Int
  BY SamplingAssumption DEF Rates
<1>4. \A s \in Spans : TraceOf[s] \in Traces
  BY DEF Traces
<1>5. \A s \in Spans : low[TraceOf[s]] \in Int
  <2>1. 0..Scale - 1 \subseteq Int
    BY SamplingAssumption
  <2>2. low \in [Traces -> 0..Scale - 1]
    BY DEF SpanType
  <2> QED BY <1>4, <2>1, <2>2
<1>6. \A e \in Exporters : e \in Int /\ ~(e <= 0)
  BY <1>2 DEF Exporters
<1>7. now \in Int
  <2>1. now \in 0..MaxTime
    BY DEF SpanType
  <2> QED BY <2>1
<1> QED BY <1>2, <1>3, <1>4, <1>5, <1>6, <1>7

\* The spans of a trace share its rate.
LEMMA SameTrace ==
    ASSUME NEW p \in Spans, NEW s \in Spans, TraceOf[p] = TraceOf[s]
    PROVE  /\ InSample(p) <=> InSample(s)
           /\ ReasonAtHead(p) <=> ReasonAtHead(s)
BY DEF InSample, ReasonAtHead, KeepAtRate, SpansOf

\* A reason stays one while captures and failures only become more.
LEMMA ReasonStays ==
    ASSUME config' = config, low' = low,
           \A p \in Spans : captured[p] => captured'[p],
           \A t \in Traces : KeptFailures(t) \subseteq KeptFailures(t)',
           NEW s \in Spans
    PROVE  /\ ReasonAtHead(s) => ReasonAtHead(s)'
           /\ ReasonAtTail(s) => ReasonAtTail(s)'
<1>1. TraceOf[s] \in Traces
  BY DEF Traces
<1>2. ReasonAtHead(s) => ReasonAtHead(s)'
  BY DEF ReasonAtHead, SpansOf, KeepAtRate
<1>3. KeptFailures(TraceOf[s]) # {} => KeptFailures(TraceOf[s])' # {}
  BY <1>1
<1> QED BY <1>2, <1>3, Fixed DEF ReasonAtTail
LEMMA TailReason ==
    KeptForAReason <=> \A e \in Exporters, s \in Spans :
                         <<e, s>> \in exported /\ outcome[s] = "routine" => ReasonAtTail(s)
BY DEF KeptForAReason, ReasonAtTail, ReasonAtHead

LEMMA TailReasonAfter ==
    KeptForAReason' <=> \A e \in Exporters', s \in Spans :
                         <<e, s>> \in exported' /\ outcome'[s] = "routine" => ReasonAtTail(s)'
BY DEF KeptForAReason, ReasonAtTail, ReasonAtHead
-----------------------------------------------------------------------------
(* A span starts. *)

LEMMA HeadMeans ==
    ASSUME NEW s \in Spans, NEW link \in BOOLEAN, NEW capture \in BOOLEAN, IInv,
           Start(s, link, capture)
    PROVE  /\ HasPolicy => HeadSamples(s, link, capture)
           /\ ~config.linksBased /\ Uneventful(TraceOf[s])' /\ ~HasPolicy =>
                (HeadSamples(s, link, capture) <=> InSample(s))
           /\ HeadSamples(s, link, capture) /\ ~HasPolicy => ReasonAtHead(s)'
<1>1. /\ SpanType /\ config' = config /\ low' = low /\ status[s] = "unborn"
      /\ captured' = [captured EXCEPT ![s] = capture] /\ outcome' = outcome
      /\ ParentOf[s] # NoSpan => /\ ParentOf[s] \in Spans
                                 /\ TraceOf[ParentOf[s]] = TraceOf[s]
                                 /\ status[ParentOf[s]] # "unborn"
  BY SamplingAssumption DEF Start, IInv, endVars
<1>2. HasPolicy => HeadSamples(s, link, capture)
  BY DEF HeadSamples
<1>3. ASSUME ~config.linksBased, Uneventful(TraceOf[s])', ~HasPolicy
      PROVE  HeadSamples(s, link, capture) <=> InSample(s)
  <2>1. ~capture /\ Uneventful(TraceOf[s])
    BY <1>1, <1>3 DEF Uneventful, SpansOf, SpanType, IInv, SpanInv, LifeOf
  <2>2. ParentSampled(s) => InSample(s)
    BY <1>1, <1>3, <2>1, SameTrace DEF ParentSampled, Sampled, IInv, SpanInv, WholeOf
  <2> QED BY <1>3, <2>1, <2>2 DEF HeadSamples, AdaptiveSamples, InSample
<1>4. ASSUME HeadSamples(s, link, capture), ~HasPolicy
      PROVE  ReasonAtHead(s)'
  <2>1. \A p \in Spans : captured[p] => captured'[p]
    BY <1>1 DEF IInv, SpanInv, LifeOf, SpanType
  <2>2. ReasonAtHead(s) => ReasonAtHead(s)'
    BY <1>1, <2>1 DEF ReasonAtHead, SpansOf, KeepAtRate
  <2>3. capture => ReasonAtHead(s)'
    BY <1>1 DEF ReasonAtHead, SpansOf, SpanType
  <2>4. ParentSampled(s) => ReasonAtHead(s)
    BY <1>1, <1>4, SameTrace DEF ParentSampled, IInv, SpanInv, HeadOf
  <2> QED BY <1>4, <2>2, <2>3, <2>4 DEF HeadSamples, AdaptiveSamples, ReasonAtHead
<1> QED BY <1>2, <1>3, <1>4

LEMMA StartKeeps ==
    ASSUME NEW s \in Spans, NEW link \in BOOLEAN, NEW capture \in BOOLEAN, IInv,
           Start(s, link, capture)
    PROVE  IInv'
<1>1. /\ SpanType /\ SpanInv /\ KeeperInv /\ KeptForAReason
      /\ status[s] = "unborn" /\ ~captured[s]
      /\ captured' = [captured EXCEPT ![s] = capture]
      /\ status' = [status EXCEPT ![s] = IF HeadSamples(s, link, capture) THEN "open"
                                         ELSE "dropped at head"]
      /\ linked' = [linked EXCEPT ![s] = link]
      /\ UNCHANGED <<config, low, now, outcome, endTime, stage, exported, kept, latest>>
  BY DEF Start, IInv, endVars, SpanInv, LifeOf
<1>2. SpanType'
  BY <1>1 DEF SpanType, Exporters
<1>3. /\ \A t \in Traces : KeptFailures(t)' = KeptFailures(t)
      /\ FailedTraces' = FailedTraces
  BY <1>1 DEF KeptFailures, FailedTraces, SpansOf, Exporters
<1>4. ASSUME NEW x \in Spans
      PROVE  LifeOf(x)' /\ FailureOf(x)' /\ WholeOf(x)' /\ HeadOf(x)'
  <2>1. LifeOf(x)'
    BY <1>1 DEF SpanType, SpanInv, LifeOf, Exporters
  <2>2. FailureOf(x)'
    BY <1>1, HeadMeans, Fixed DEF SpanType, SpanInv, FailureOf, Settled, KeepAtRate
  <2>3. WholeOf(x)'
    <3>1. Uneventful(TraceOf[x])' => Uneventful(TraceOf[x])
      BY <1>1 DEF Uneventful, SpansOf, SpanType
    <3> QED BY <1>1, <3>1, HeadMeans, Fixed
        DEF SpanType, SpanInv, WholeOf, Settled, InSample, KeepAtRate
  <2>4. HeadOf(x)'
    <3>1. ReasonAtHead(x) => ReasonAtHead(x)'
      BY <1>1, <1>3, ReasonStays DEF SpanType
    <3> QED BY <1>1, <3>1, HeadMeans, Fixed DEF SpanType, SpanInv, HeadOf, Sampled
  <2> QED BY <2>1, <2>2, <2>3, <2>4
<1>5. KeeperInv'
  BY <1>1, <1>3, Fixed DEF KeeperInv
<1>6. KeptForAReason'
  <2>1. \A x \in Spans : ReasonAtTail(x) => ReasonAtTail(x)'
    BY <1>1, <1>3, ReasonStays DEF SpanType
  <2> QED BY <1>1, <2>1, Fixed DEF KeptForAReason, ReasonAtTail, ReasonAtHead, KeepAtRate
<1> QED BY <1>2, <1>4, <1>5, <1>6 DEF IInv, SpanInv
-----------------------------------------------------------------------------
(* A span ends. *)

LEMMA EndKeeps ==
    ASSUME NEW s \in Spans, NEW how \in Outcomes, IInv, End(s, how)
    PROVE  IInv'
<1> DEFINE became == IF how \in {"routine", "failed", "slow"} /\ captured[s]
                     THEN "kept by hand" ELSE how
<1>1. /\ SpanType /\ SpanInv /\ KeeperInv /\ KeptForAReason
      /\ status[s] = "open" /\ outcome[s] = "routine" /\ stage[s] = 0
      /\ outcome' = [outcome EXCEPT ![s] = became] /\ became \in Outcomes
      /\ endTime' = [endTime EXCEPT ![s] = now]
      /\ status' = [status EXCEPT ![s] = "ended"]
      /\ UNCHANGED <<config, low, now, linked, captured, stage, exported, kept, latest>>
  BY DEF End, IInv, startVars, SpanInv, LifeOf, Outcomes
<1>2. SpanType'
  BY <1>1 DEF SpanType, Exporters
<1>3. /\ \A e \in Exporters : <<e, s>> \notin exported /\ ~(e <= 0)
      /\ Exporters' = Exporters
  <2>1. \A e \in Exporters : ~(e <= 0)
    BY <1>1, Numbers
  <2> QED BY <2>1, <1>1, Fixed DEF SpanInv, LifeOf
<1>4. ASSUME NEW t \in Traces
      PROVE  /\ KeptFailures(t)' = KeptFailures(t)
             /\ \A f \in KeptFailures(t) : endTime'[f] = endTime[f]
  BY <1>1, <1>3 DEF KeptFailures, SpansOf, SpanType
<1>5. FailedTraces' = FailedTraces
  BY <1>4 DEF FailedTraces
<1>6. ASSUME NEW x \in Spans
      PROVE  LifeOf(x)' /\ FailureOf(x)' /\ WholeOf(x)' /\ HeadOf(x)'
  <2>1. LifeOf(x)'
    <3>1. now <= now
      <4>1. now \in Int
        BY <1>1, Numbers
      <4> QED BY <4>1
    <3> QED BY <1>1, <1>3, <3>1 DEF SpanType, SpanInv, LifeOf
  <2>2. FailureOf(x)'
    <3>1. CASE x = s
      BY <1>1, <1>3, <3>1, Fixed DEF SpanType, FailureOf, Settled
    <3>2. CASE x # s
      BY <1>1, <1>3, <3>2, Fixed DEF SpanType, SpanInv, FailureOf, Settled, KeepAtRate
    <3> QED BY <3>1, <3>2
  <2>3. WholeOf(x)'
    <3>1. Uneventful(TraceOf[x])' => Uneventful(TraceOf[x])
      BY <1>1 DEF Uneventful, SpansOf, SpanType
    <3> QED BY <1>1, <3>1, Fixed
            DEF SpanType, SpanInv, WholeOf, Settled, InSample, KeepAtRate
  <2>4. HeadOf(x)'
    BY <1>1, <1>4, ReasonStays, Fixed DEF SpanType, SpanInv, HeadOf, Sampled
  <2> QED BY <2>1, <2>2, <2>3, <2>4
<1>7. KeeperInv'
  <2>1. ASSUME NEW t \in DOMAIN kept
        PROVE  \E f \in KeptFailures(t)' : kept[t] = endTime'[f]
    BY <1>1, <1>4 DEF KeeperInv
  <2> QED BY <1>1, <1>5, <2>1, Fixed DEF KeeperInv
<1>8. KeptForAReason'
  <2>1. \A x \in Spans : ReasonAtTail(x) => ReasonAtTail(x)'
    BY <1>1, <1>4, ReasonStays DEF SpanType
  <2>2. ASSUME NEW e \in Exporters, NEW x \in Spans, <<e, x>> \in exported,
               outcome'[x] = "routine"
        PROVE  ReasonAtTail(x)'
    BY <1>1, <1>3, <2>1, <2>2, TailReason DEF SpanType
  <2> QED BY <1>1, <1>3, <2>2, TailReasonAfter
<1> QED BY <1>2, <1>6, <1>7, <1>8 DEF IInv, SpanInv

LEMMA TimeKeeps == ASSUME IInv, TimePasses PROVE IInv'
<1>1. /\ SpanType /\ SpanInv /\ KeeperInv /\ KeptForAReason
      /\ now \in 0..MaxTime /\ now < MaxTime /\ now' = now + 1
      /\ UNCHANGED <<config, low, status, linked, captured, outcome, endTime, stage,
                     exported, kept, latest>>
  BY DEF TimePasses, IInv, SpanType, startVars, endVars
<1>2. SpanType'
  <2>1. now' \in 0..MaxTime
    BY <1>1, SamplingAssumption
  <2> QED BY <1>1, <2>1 DEF SpanType, Exporters
<1>3. /\ \A t \in Traces : KeptFailures(t)' = KeptFailures(t)
      /\ FailedTraces' = FailedTraces
  BY <1>1 DEF KeptFailures, FailedTraces, SpansOf, Exporters
<1>4. ASSUME NEW x \in Spans
      PROVE  LifeOf(x)' /\ FailureOf(x)' /\ WholeOf(x)' /\ HeadOf(x)'
  <2>1. LifeOf(x)'
    <3>1. endTime[x] \in 0..MaxTime
      BY <1>1 DEF SpanType
    <3> QED BY <1>1, <3>1, Fixed DEF SpanInv, LifeOf
  <2>2. FailureOf(x)' /\ WholeOf(x)' /\ HeadOf(x)'
    BY <1>1, <1>3, Fixed, ReasonStays
       DEF SpanInv, FailureOf, WholeOf, HeadOf, Settled, InSample, KeepAtRate,
           Uneventful, SpansOf, Sampled
  <2> QED BY <2>1, <2>2
<1>5. KeeperInv'
  BY <1>1, <1>3, Fixed DEF KeeperInv
<1>6. KeptForAReason'
  <2>1. \A x \in Spans : ReasonAtTail(x) => ReasonAtTail(x)'
    BY <1>1, <1>3, ReasonStays
  <2> QED BY <1>1, <2>1, Fixed DEF KeptForAReason, ReasonAtTail, ReasonAtHead, KeepAtRate
<1> QED BY <1>2, <1>4, <1>5, <1>6 DEF IInv, SpanInv
-----------------------------------------------------------------------------
(* A chain decides on a span. *)

\* What a decision does to exported, and to the failures that count as kept.
LEMMA Decided ==
    ASSUME IInv, NEW s \in Spans, NEW forward \in BOOLEAN, Decide(s, forward)
    PROVE  /\ Exporter(s) \in Exporters /\ Exporters' = Exporters
           /\ stage[s] \in Nat /\ Exporter(s) = stage[s] + 1
           /\ stage' = [stage EXCEPT ![s] = Exporter(s)]
           /\ \A e \in Exporters, x \in Spans :
                <<e, x>> \in exported' <=>
                  <<e, x>> \in exported \/ (forward /\ e = Exporter(s) /\ x = s)
           /\ <<Exporter(s), s>> \notin exported
           /\ \A t \in Traces :
                KeptFailures(t)' = IF forward /\ Interesting(s) /\ t = TraceOf[s]
                                   THEN KeptFailures(t) \cup {s} ELSE KeptFailures(t)
<1>1. /\ SpanType /\ SpanInv /\ stage[s] < config.exporters
      /\ stage' = [stage EXCEPT ![s] = @ + 1]
      /\ exported' = IF forward THEN exported \cup {<<Exporter(s), s>>} ELSE exported
      /\ UNCHANGED <<config, low, now, status, linked, captured, outcome, endTime>>
  BY DEF Decide, IInv, startVars, endVars
<1>2. config.exporters \in Nat /\ stage[s] \in 0..config.exporters
  BY <1>1, Numbers DEF SpanType
<1>3. /\ Exporter(s) \in Exporters /\ Exporters' = Exporters
      /\ stage[s] \in Nat /\ Exporter(s) = stage[s] + 1 /\ ~(Exporter(s) <= stage[s])
  BY <1>1, <1>2, Fixed DEF Exporter, Exporters
<1>4. stage' = [stage EXCEPT ![s] = Exporter(s)]
  BY <1>1, <1>3
<1>5. \A e \in Exporters, x \in Spans :
         <<e, x>> \in exported' <=>
           <<e, x>> \in exported \/ (forward /\ e = Exporter(s) /\ x = s)
  BY <1>1
<1>6. <<Exporter(s), s>> \notin exported
  BY <1>1, <1>3 DEF SpanInv, LifeOf
<1>7. ASSUME NEW t \in Traces
      PROVE  KeptFailures(t)' = IF forward /\ Interesting(s) /\ t = TraceOf[s]
                                THEN KeptFailures(t) \cup {s} ELSE KeptFailures(t)
  BY <1>1, <1>3, <1>5 DEF KeptFailures, SpansOf, Interesting
<1> QED BY <1>3, <1>4, <1>5, <1>6, <1>7

\* A verdict that goes by the span's rate keeps what is said of spans.
LEMMA VerdictKeeps ==
    ASSUME IInv, NEW s \in Spans, NEW forward \in BOOLEAN, Decide(s, forward),
           outcome[s] = "failed" /\ HasPolicy => (forward <=> KeepAtRate(s, config.error)),
           outcome[s] = "slow" /\ HasPolicy => (forward <=> KeepAtRate(s, config.slow)),
           ~config.linksBased /\ Uneventful(TraceOf[s]) => (forward <=> InSample(s)),
           forward /\ outcome[s] = "routine" => ReasonAtTail(s)
    PROVE  SpanType' /\ SpanInv' /\ KeptForAReason'
<1>1. /\ SpanType /\ SpanInv /\ KeptForAReason /\ status[s] = "ended"
      /\ UNCHANGED <<config, low, now, status, linked, captured, outcome, endTime>>
  BY DEF Decide, IInv, startVars, endVars
<1>2. /\ Exporter(s) \in Exporters /\ Exporters' = Exporters
      /\ stage[s] \in Nat /\ Exporter(s) = stage[s] + 1
      /\ stage' = [stage EXCEPT ![s] = Exporter(s)]
      /\ \A e \in Exporters, x \in Spans :
           <<e, x>> \in exported' <=>
             <<e, x>> \in exported \/ (forward /\ e = Exporter(s) /\ x = s)
      /\ <<Exporter(s), s>> \notin exported
  BY Decided
<1>3. \A t \in Traces : KeptFailures(t) \subseteq KeptFailures(t)'
  BY Decided
<1>4. \A e \in Exporters : e <= Exporter(s) <=> e <= stage[s] \/ e = Exporter(s)
  <2>1. \A e \in Exporters : e \in Int
    BY <1>1, Numbers
  <2> QED BY <1>2, <2>1
<1>5. SpanType'
  <2>1. Exporter(s) \in 0..config.exporters
    BY <1>2, Numbers, <1>1 DEF Exporters
  <2>2. exported' \subseteq Exporters \X Spans
    <3>1. <<Exporter(s), s>> \in Exporters \X Spans
      BY <1>2
    <3>2. exported \subseteq Exporters \X Spans
      BY <1>1 DEF SpanType
    <3> QED BY <1>2, <3>1, <3>2 DEF Decide
  <2> QED BY <1>1, <1>2, <2>1, <2>2 DEF SpanType
\* One chain more has settled s, with the verdict of the ones before it.
<1>6. ASSUME NEW x \in Spans, NEW keep \in BOOLEAN, Settled(x, keep),
             x = s => (forward <=> keep)
      PROVE  \A e \in Exporters : e <= stage'[x] => (<<e, x>> \in exported' <=> keep)
  <2>1. CASE x = s
    <3>1. stage'[s] = Exporter(s)
      BY <1>1, <1>2 DEF SpanType
    <3> QED BY <1>2, <1>4, <1>6, <2>1, <3>1 DEF Settled
  <2>2. CASE x # s
    BY <1>1, <1>2, <1>6, <2>2 DEF Settled, SpanType
  <2> QED BY <2>1, <2>2
<1>7. ASSUME NEW x \in Spans
      PROVE  LifeOf(x)' /\ FailureOf(x)' /\ WholeOf(x)' /\ HeadOf(x)'
  <2>1. LifeOf(x)'
    <3>1. ASSUME NEW e \in Exporters, <<e, x>> \in exported' PROVE e <= stage'[x]
      <4>1. CASE x = s
        <5>1. stage'[s] = Exporter(s)
          BY <1>1, <1>2 DEF SpanType
        <5> QED BY <1>1, <1>2, <1>4, <3>1, <4>1, <5>1 DEF SpanInv, LifeOf
      <4>2. CASE x # s
        BY <1>1, <1>2, <3>1, <4>2 DEF SpanInv, LifeOf, SpanType
      <4> QED BY <4>1, <4>2
    <3> QED BY <1>1, <1>2, <3>1 DEF SpanInv, LifeOf, SpanType
  <2>2. FailureOf(x)'
    <3>1. /\ KeepAtRate(x, config.error) \in BOOLEAN /\ KeepAtRate(x, config.slow) \in BOOLEAN
          /\ KeepAtRate(x, config.error)' <=> KeepAtRate(x, config.error)
          /\ KeepAtRate(x, config.slow)' <=> KeepAtRate(x, config.slow)
      BY <1>1 DEF KeepAtRate
    <3> QED BY <1>1, <1>2, <1>6, <3>1, Fixed DEF SpanInv, FailureOf, Settled
  <2>3. WholeOf(x)'
    <3>1. /\ InSample(x) \in BOOLEAN /\ InSample(x)' <=> InSample(x)
          /\ Uneventful(TraceOf[x])' <=> Uneventful(TraceOf[x])
      BY <1>1 DEF InSample, KeepAtRate, Uneventful, SpansOf
    <3>2. CASE config.linksBased \/ ~Uneventful(TraceOf[x])
      BY <1>1, <3>1, <3>2 DEF WholeOf
    <3>3. CASE ~config.linksBased /\ Uneventful(TraceOf[x])
      <4>1. PICK keep \in BOOLEAN : keep <=> InSample(x)
        OBVIOUS
      <4>2. Settled(x, keep)
        BY <1>1, <3>3, <4>1 DEF SpanInv, WholeOf, Settled
      <4>3. x = s => (forward <=> keep)
        BY <3>3, <4>1
      <4>4. \A e \in Exporters : e <= stage'[x] => (<<e, x>> \in exported' <=> keep)
        BY <1>6, <4>2, <4>3
      <4> QED BY <1>1, <1>2, <3>1, <3>3, <4>1, <4>4, Fixed
              DEF SpanInv, WholeOf, Settled, InSample, KeepAtRate
    <3> QED BY <3>2, <3>3
  <2>4. HeadOf(x)'
    BY <1>1, <1>3, ReasonStays, Fixed DEF SpanInv, HeadOf, Sampled
  <2> QED BY <2>1, <2>2, <2>3, <2>4
<1>8. KeptForAReason'
  <2>1. \A x \in Spans : ReasonAtTail(x) => ReasonAtTail(x)'
    BY <1>1, <1>3, ReasonStays
  <2> QED BY <1>1, <1>2, <2>1, TailReason, TailReasonAfter
<1> QED BY <1>5, <1>7, <1>8 DEF SpanInv
-----------------------------------------------------------------------------
(* The Keeper. *)

\* What eviction leaves: everything while there is room, and always a finite
\* part with room for one more.
LEMMA SurvivorFacts ==
    ASSUME IsFiniteSet(DOMAIN kept), Cardinality(DOMAIN kept) <= Limit,
           NEW at, NEW ids \in Survivors(at)
    PROVE  /\ ids \subseteq DOMAIN kept /\ IsFiniteSet(ids) /\ Cardinality(ids) < Limit
           /\ Cardinality(DOMAIN kept) < Limit => ids = DOMAIN kept
<1> DEFINE live == {t \in DOMAIN kept : Fresh(kept[t], at)}
           n == Cardinality(live)
<1>1. IsFiniteSet(live) /\ n <= Cardinality(DOMAIN kept) /\ n \in Nat
      /\ Cardinality(DOMAIN kept) \in Nat
  <2>1. live \in SUBSET DOMAIN kept
    OBVIOUS
  <2> HIDE DEF live
  <2> QED BY <2>1, FS_Subset, FS_CardinalityType
<1>2. Limit \in Nat \ {0}
  BY SamplingAssumption
<1> HIDE DEF n
<1>3. CASE Cardinality(DOMAIN kept) < Limit
  BY <1>3 DEF Survivors
<1>4. CASE ~(Cardinality(DOMAIN kept) < Limit) /\ n < Limit
  BY <1>1, <1>4 DEF Survivors, n
<1>5. CASE ~(Cardinality(DOMAIN kept) < Limit) /\ ~(n < Limit)
  <2>1. ids \in SUBSET live /\ Cardinality(ids) = n \div 2
    BY <1>5 DEF Survivors, kSubset, n
  <2>2. IsFiniteSet(ids)
    BY <1>1, <2>1, FS_Subset
  <2>3. n \div 2 < Limit
    BY <1>1, <1>2
  <2> QED BY <1>5, <2>1, <2>2, <2>3
<1> QED BY <1>3, <1>4, <1>5

\* A step after which the Keeper and the failures that were exported are what
\* they were.
LEMMA KeeperStays ==
    ASSUME IInv, UNCHANGED <<config, low, now, outcome, endTime, kept, latest>>,
           \A t \in Traces : KeptFailures(t)' = KeptFailures(t)
    PROVE  KeeperInv'
<1>1. KeeperInv
  BY DEF IInv
<1>2. FailedTraces' = FailedTraces
  BY DEF FailedTraces
<1> QED BY <1>1, <1>2, Fixed DEF KeeperInv

\* Without a policy nothing is remembered, whatever fails.
LEMMA NoKeeper ==
    ASSUME IInv, ~HasPolicy, UNCHANGED <<config, low, kept, latest>>
    PROVE  KeeperInv'
BY Fixed DEF IInv, KeeperInv

\* A failure is exported and its trace marked, in one step.
LEMMA MarkKeeps ==
    ASSUME IInv, NEW s \in Spans, KeepInteresting(s)
    PROVE  KeeperInv'
<1> DEFINE t == TraceOf[s]
<1>1. /\ KeeperInv /\ HasPolicy /\ Decide(s, TRUE) /\ latest' = t /\ t \in Traces
      /\ UNCHANGED <<config, low, now, outcome, endTime>>
  BY DEF KeepInteresting, AsksPolicy, IInv, Decide, endVars, Traces
<1>2. PICK ids \in Survivors(endTime[s]) : kept' = KeptWith(t, endTime[s], ids \cup {t})
  BY DEF KeepInteresting, MarkKept
<1>3. /\ DOMAIN kept' = ids \cup {t}
      /\ kept'[t] = endTime[s]
      /\ \A u \in ids \ {t} : kept'[u] = kept[u]
  BY <1>2 DEF KeptWith
<1>4. ASSUME NEW u \in Traces
      PROVE  KeptFailures(u)' = IF u = t THEN KeptFailures(u) \cup {s} ELSE KeptFailures(u)
  BY <1>1, Decided DEF KeepInteresting
<1>5. FailedTraces' = FailedTraces \cup {t}
  BY <1>1, <1>4 DEF FailedTraces
<1>6. DOMAIN kept \subseteq FailedTraces
  BY <1>1 DEF KeeperInv, FailedTraces
<1>7. /\ IsFiniteSet(FailedTraces) /\ IsFiniteSet(FailedTraces')
      /\ Cardinality(FailedTraces) <= Cardinality(FailedTraces')
      /\ IsFiniteSet(DOMAIN kept) /\ Cardinality(DOMAIN kept) <= Cardinality(FailedTraces)
      /\ Cardinality(FailedTraces) \in Nat /\ Cardinality(FailedTraces') \in Nat
      /\ Cardinality(DOMAIN kept) \in Nat
  BY <1>1, <1>5, <1>6, FS_AddElement, FS_Subset, FS_CardinalityType DEF KeeperInv
<1>8. /\ ids \subseteq DOMAIN kept /\ IsFiniteSet(ids) /\ Cardinality(ids) < Limit
      /\ Cardinality(DOMAIN kept) < Limit => ids = DOMAIN kept
  BY <1>1, <1>2, <1>7, SurvivorFacts DEF KeeperInv
<1>9. DOMAIN kept' \subseteq Traces /\ Cardinality(DOMAIN kept') <= Limit
  <2>1. Cardinality(ids \cup {t}) = IF t \in ids THEN Cardinality(ids)
                                                 ELSE Cardinality(ids) + 1
    BY <1>8, FS_AddElement
  <2>2. Cardinality(ids) \in Nat /\ Limit \in Nat
    BY <1>8, FS_CardinalityType, SamplingAssumption
  <2>3. Cardinality(DOMAIN kept') <= Limit
    BY <1>3, <1>8, <2>1, <2>2
  <2> QED BY <1>1, <1>3, <1>8, <2>3 DEF KeeperInv
<1>10. ASSUME NEW u \in DOMAIN kept'
       PROVE  \E f \in KeptFailures(u)' : kept'[u] = endTime'[f]
  <2>1. CASE u = t
    BY <1>1, <1>3, <1>4, <2>1
  <2>2. CASE u # t
    BY <1>1, <1>3, <1>4, <1>8, <2>2 DEF KeeperInv
  <2> QED BY <2>1, <2>2
<1>11. latest' \in DOMAIN kept'
  BY <1>1, <1>3
<1>12. ASSUME Cardinality(FailedTraces') < Limit
       PROVE  FailedTraces' \subseteq DOMAIN kept'
  <2>1. Cardinality(FailedTraces) < Limit /\ Cardinality(DOMAIN kept) < Limit
    BY <1>7, <1>12, SamplingAssumption
  <2> QED BY <1>1, <1>3, <1>5, <1>8, <2>1 DEF KeeperInv
<1> QED BY <1>1, <1>7, <1>9, <1>10, <1>11, <1>12, Fixed DEF KeeperInv
-----------------------------------------------------------------------------
LEMMA InitIInv == Init => IInv
<1> SUFFICES ASSUME Init PROVE IInv
  OBVIOUS
<1>1. config.exporters \in Nat
  <2>1. config \in ConfigType
    BY SamplingAssumption DEF Init
  <2> QED BY <2>1 DEF ConfigType
<1>2. SpanType
  <2>1. 0 \in 0..MaxTime /\ 0 \in 0..config.exporters
    BY <1>1, SamplingAssumption
  <2> QED BY <2>1 DEF Init, SpanType, Outcomes
<1>3. SpanInv
  <2>1. \A e \in Exporters : ~(e <= 0)
    BY <1>2, Numbers
  <2> QED BY <2>1 DEF Init, SpanInv, LifeOf, FailureOf, WholeOf, HeadOf, Settled, Sampled
<1>4. KeeperInv
  <2>1. DOMAIN kept = {} /\ kept = <<>>
    BY DEF Init
  <2>2. FailedTraces = {}
    BY DEF Init, FailedTraces, KeptFailures
  <2> QED BY <2>1, <2>2, FS_EmptySet, SamplingAssumption DEF Init, KeeperInv
<1>5. KeptForAReason
  BY DEF Init, KeptForAReason
<1> QED BY <1>2, <1>3, <1>4, <1>5 DEF IInv

\* Without a policy the head has settled it: what was let through is forwarded.
LEMMA WithoutPolicy ==
    ASSUME IInv, NEW s \in Spans, NEW forward \in BOOLEAN, Decide(s, forward), ~HasPolicy,
           UNCHANGED <<kept, latest>>, outcome[s] = "routine" => forward
    PROVE  IInv'
<1>1. SpanInv /\ status[s] = "ended" /\ UNCHANGED <<config, low>>
  BY DEF IInv, Decide
<1>2. ~config.linksBased /\ Uneventful(TraceOf[s]) => (forward <=> InSample(s))
  <2>1. Uneventful(TraceOf[s]) => forward
    BY DEF Uneventful, SpansOf
  <2> QED BY <1>1, <2>1 DEF SpanInv, WholeOf
<1>3. ReasonAtTail(s)
  BY <1>1 DEF SpanInv, HeadOf, Sampled, ReasonAtTail
<1>4. SpanType' /\ SpanInv' /\ KeptForAReason'
  BY <1>2, <1>3, VerdictKeeps
<1> QED BY <1>1, <1>4, NoKeeper DEF IInv

\* What the Keeper knows of a trace is a failure that was exported.
LEMMA RoutineMeans ==
    ASSUME IInv, NEW s \in Spans, DecideRoutine(s)
    PROVE  /\ outcome[s] = "routine" /\ HasPolicy
           /\ ~config.linksBased /\ Uneventful(TraceOf[s]) => (KeepRoutine(s) <=> InSample(s))
           /\ KeepRoutine(s) => ReasonAtTail(s)
<1>1. outcome[s] = "routine" /\ HasPolicy /\ ~config.debug
  BY DEF DecideRoutine, AsksPolicy, Interesting, Marked, Outcomes, HasPolicy, IInv, SpanType
<1>2. WasKept(TraceOf[s]) => KeptFailures(TraceOf[s]) # {}
  BY DEF WasKept, IInv, KeeperInv
<1>3. Uneventful(TraceOf[s]) => KeptFailures(TraceOf[s]) = {}
  BY DEF Uneventful, KeptFailures, SpansOf
<1> QED BY <1>1, <1>2, <1>3
        DEF KeepRoutine, RoutineRate, InSample, ReasonAtTail, ReasonAtHead, KeepAtRate

LEMMA DecisionKeeps ==
    ASSUME IInv, NEW s \in Spans,
           \/ FilterDrops(s) \/ ForwardWithoutTail(s) \/ ObeyMark(s)
           \/ KeepInteresting(s) \/ DropInteresting(s) \/ DecideRoutine(s)
    PROVE  IInv'
<1>1. SpanType /\ SpanInv /\ outcome[s] \in Outcomes
  BY DEF IInv, SpanType
<1>2. ~(outcome[s] = "routine") => ~Uneventful(TraceOf[s])
  BY DEF Uneventful, SpansOf
<1>3. CASE FilterDrops(s)
  <2>1. Decide(s, FALSE) /\ outcome[s] = "filtered" /\ UNCHANGED <<kept, latest>>
    BY <1>3 DEF FilterDrops
  <2>2. SpanType' /\ SpanInv' /\ KeptForAReason'
    BY <2>1, <1>2, VerdictKeeps
  <2>3. KeeperInv'
    BY <2>1, Decided, KeeperStays DEF Decide, endVars
  <2> QED BY <2>2, <2>3 DEF IInv
<1>4. CASE ForwardWithoutTail(s)
  <2>1. Decide(s, TRUE) /\ ~HasPolicy /\ UNCHANGED <<kept, latest>>
    BY <1>4 DEF ForwardWithoutTail, HasTailProcessor
  <2> QED BY <2>1, WithoutPolicy
<1>5. CASE ObeyMark(s)
  <2>1. PICK forward \in BOOLEAN : forward <=> outcome[s] # "dropped by hand"
    OBVIOUS
  <2>2. /\ Decide(s, forward) /\ UNCHANGED <<kept, latest>>
        /\ outcome[s] = "routine" => forward
    BY <1>5, <2>1 DEF ObeyMark, Decide
  <2>3. CASE ~HasPolicy
    BY <2>2, <2>3, WithoutPolicy
  <2>4. CASE HasPolicy
    <3>1. outcome[s] \in {"kept by hand", "dropped by hand"}
      BY <1>5, <2>4 DEF ObeyMark, Marked
    <3>2. SpanType' /\ SpanInv' /\ KeptForAReason'
      BY <2>2, <1>2, <3>1, VerdictKeeps
    <3>3. KeeperInv'
      BY <2>2, <3>1, Decided, KeeperStays DEF Interesting, Decide, endVars
    <3> QED BY <3>2, <3>3 DEF IInv
  <2> QED BY <2>3, <2>4
<1>6. CASE KeepInteresting(s)
  <2>1. /\ Decide(s, TRUE) /\ outcome[s] \in {"failed", "slow"}
        /\ KeepAtRate(s, InterestRate(s))
    BY <1>6 DEF KeepInteresting, Interesting
  <2>2. SpanType' /\ SpanInv' /\ KeptForAReason'
    BY <2>1, <1>2, VerdictKeeps DEF InterestRate
  <2> QED BY <1>6, <2>2, MarkKeeps DEF IInv
<1>7. CASE DropInteresting(s)
  <2>1. /\ Decide(s, FALSE) /\ outcome[s] \in {"failed", "slow"}
        /\ ~KeepAtRate(s, InterestRate(s)) /\ UNCHANGED <<kept, latest>>
    BY <1>7 DEF DropInteresting, Interesting
  <2>2. SpanType' /\ SpanInv' /\ KeptForAReason'
    BY <2>1, <1>2, VerdictKeeps DEF InterestRate
  <2>3. KeeperInv'
    BY <2>1, Decided, KeeperStays DEF Decide, endVars
  <2> QED BY <2>2, <2>3 DEF IInv
<1>8. CASE DecideRoutine(s)
  <2>1. PICK forward \in BOOLEAN : forward <=> KeepRoutine(s)
    OBVIOUS
  <2>2. Decide(s, forward) /\ UNCHANGED <<kept, latest>>
    BY <1>8, <2>1 DEF DecideRoutine, Decide
  <2>3. /\ outcome[s] = "routine"
        /\ ~config.linksBased /\ Uneventful(TraceOf[s]) => (forward <=> InSample(s))
        /\ forward => ReasonAtTail(s)
    BY <1>8, <2>1, RoutineMeans
  <2>4. SpanType' /\ SpanInv' /\ KeptForAReason'
    BY <2>2, <2>3, VerdictKeeps
  <2>5. KeeperInv'
    BY <2>2, <2>3, Decided, KeeperStays DEF Interesting, Decide, endVars
  <2> QED BY <2>4, <2>5 DEF IInv
<1> QED BY <1>3, <1>4, <1>5, <1>6, <1>7, <1>8

LEMMA NextIInv == IInv /\ [Next]_vars => IInv'
<1> SUFFICES ASSUME IInv, [Next]_vars PROVE IInv'
  OBVIOUS
<1>1. ASSUME NEW s \in Spans, NEW link \in BOOLEAN, NEW capture \in BOOLEAN,
             Start(s, link, capture)
      PROVE  IInv'
  BY <1>1, StartKeeps
<1>2. ASSUME NEW s \in Spans, NEW how \in Outcomes, End(s, how) PROVE IInv'
  BY <1>2, EndKeeps
<1>3. ASSUME NEW s \in Spans,
             \/ FilterDrops(s) \/ ForwardWithoutTail(s) \/ ObeyMark(s)
             \/ KeepInteresting(s) \/ DropInteresting(s) \/ DecideRoutine(s)
      PROVE  IInv'
  BY <1>3, DecisionKeeps
<1>4. CASE TimePasses
  BY <1>4, TimeKeeps
<1>5. CASE UNCHANGED vars
  <2>1. UNCHANGED <<config, low, now, status, linked, captured, outcome, endTime, stage,
                    exported, kept, latest>>
    BY <1>5 DEF vars, startVars, endVars
  <2>2. SpanType'
    BY <2>1 DEF IInv, SpanType, Exporters
  <2>3. \A t \in Traces : KeptFailures(t)' = KeptFailures(t)
    BY <2>1 DEF KeptFailures, SpansOf, Exporters
  <2>4. KeeperInv'
    BY <2>1, <2>3, KeeperStays
  <2>5. SpanInv'
    BY <2>1, Fixed DEF IInv, SpanInv, LifeOf, FailureOf, WholeOf, HeadOf, Settled, InSample,
       Uneventful, ReasonAtHead, SpansOf, Sampled, KeepAtRate
  <2>6. KeptForAReason'
    <3>1. \A x \in Spans : ReasonAtTail(x) => ReasonAtTail(x)'
      BY <2>1, <2>3, ReasonStays
    <3> QED BY <2>1, <3>1, Fixed, TailReason, TailReasonAfter DEF IInv
  <2> QED BY <2>2, <2>4, <2>5, <2>6 DEF IInv
<1> QED BY <1>1, <1>2, <1>3, <1>4, <1>5 DEF Next

\* For any instance: what of a failed span reaches each exporter is what its own
\* rate says, a trace with nothing in it is whole, and no routine span is exported
\* without a reason (endpolicy.go, autotel.go's chains).
THEOREM Invariance == Spec => []IInv
BY InitIInv, NextIInv, PTL DEF Spec

\* The type invariant of the sampling pipeline, with the Keeper's memory within
\* its limit.
THEOREM TypeCorrect == Spec => []TypeOK
<1>1. IInv => TypeOK
  <2> SUFFICES ASSUME IInv PROVE TypeOK
    OBVIOUS
  <2>1. ASSUME NEW t \in DOMAIN kept PROVE kept[t] \in 0..now
    <3>1. PICK f \in Spans : kept[t] = endTime[f]
      BY DEF IInv, KeeperInv, KeptFailures, SpansOf
    <3>2. endTime[f] \in 0..MaxTime /\ endTime[f] <= now /\ now \in Int
      BY Numbers DEF IInv, SpanType, SpanInv, LifeOf
    <3> QED BY <3>1, <3>2
  <2> QED BY <2>1 DEF IInv, SpanType, KeeperInv, TypeOK
<1> QED BY <1>1, Invariance, PTL

LEMMA AllPassed ==
    ASSUME IInv, NEW s \in Spans, Done(s) PROVE \A e \in Exporters : e <= stage[s]
BY Numbers DEF IInv, Done, Exporters

\* Failed and slow spans are exported everywhere or nowhere, as the rate for
\* their outcome decides.
THEOREM FailuresKept == Spec => []FailuresAreKept
<1>1. IInv => FailuresAreKept
  <2> SUFFICES ASSUME IInv, HasPolicy, NEW s \in Spans
               PROVE  /\ status[s] # "dropped at head"
                      /\ Done(s) /\ outcome[s] = "failed" =>
                           IF KeepAtRate(s, config.error) THEN Everywhere(s) ELSE Nowhere(s)
                      /\ Done(s) /\ outcome[s] = "slow" =>
                           IF KeepAtRate(s, config.slow) THEN Everywhere(s) ELSE Nowhere(s)
    BY DEF FailuresAreKept
  <2>1. Done(s) => \A e \in Exporters : e <= stage[s]
    BY AllPassed
  <2> QED BY <2>1 DEF IInv, SpanInv, FailureOf, Settled, Everywhere, Nowhere
<1> QED BY <1>1, Invariance, PTL

\* A trace in which nothing happens is exported whole or not at all.
THEOREM TracesWhole == Spec => []WholeTraces
<1>1. IInv => WholeTraces
  <2> SUFFICES ASSUME IInv, ~config.linksBased, NEW t \in Traces, Uneventful(t)
               PROVE  Whole(t)
    BY DEF WholeTraces
  <2> DEFINE ended == {s \in SpansOf(t) : Done(s) \/ status[s] = "dropped at head"}
  <2>1. ASSUME NEW s \in ended, NEW r \in ended PROVE InSample(s) <=> InSample(r)
    BY SameTrace DEF SpansOf
  <2>2. ASSUME NEW s \in ended
        PROVE  IF InSample(s) THEN Everywhere(s) ELSE Nowhere(s)
    <3>1. /\ s \in Spans /\ WholeOf(s) /\ LifeOf(s) /\ Uneventful(TraceOf[s])
      BY DEF IInv, SpanInv, SpansOf
    <3>2. CASE Done(s)
      <4>1. \A e \in Exporters : e <= stage[s]
        BY <3>1, <3>2, AllPassed
      <4> QED BY <3>1, <4>1 DEF WholeOf, Settled, Everywhere, Nowhere
    <3>3. CASE status[s] = "dropped at head"
      <4>1. ~InSample(s)
        BY <3>1, <3>3 DEF WholeOf
      <4>2. \A e \in Exporters : ~(e <= stage[s])
        BY <3>1, <3>3, Numbers DEF IInv, LifeOf
      <4> QED BY <3>1, <4>1, <4>2 DEF LifeOf, Nowhere
    <3> QED BY <3>2, <3>3
  <2> HIDE DEF ended
  <2>3. (\A s \in ended : Everywhere(s)) \/ (\A s \in ended : Nowhere(s))
    BY <2>1, <2>2
  <2> QED BY <2>3 DEF Whole, ended
<1> QED BY <1>1, Invariance, PTL

\* Nothing routine is exported that no rate, debugging or failure asked for.
THEOREM OnlyForAReason == Spec => []KeptForAReason
<1>1. IInv => KeptForAReason
  BY DEF IInv
<1> QED BY <1>1, Invariance, PTL

\* What the Keeper answers for a trace whose kept failures are all fresh.
LEMMA StillKept ==
    ASSUME IInv, HasPolicy, NEW t \in Traces, KeptFailures(t) # {},
           \A f \in KeptFailures(t) : Fresh(endTime[f], now),
           t = latest \/ Cardinality(FailedTraces) < Limit
    PROVE  WasKept(t)
<1>1. t \in FailedTraces
  BY DEF FailedTraces
<1>2. t \in DOMAIN kept
  BY <1>1 DEF IInv, KeeperInv
<1>3. PICK f \in KeptFailures(t) : kept[t] = endTime[f]
  BY <1>2 DEF IInv, KeeperInv
<1> QED BY <1>2, <1>3 DEF WasKept

\* With a policy, a routine span's chain can only be DecideRoutine's.
LEMMA OnlyRoutine ==
    ASSUME IInv, Next, NEW s \in Spans, stage'[s] # stage[s], HasPolicy,
           outcome[s] = "routine"
    PROVE  DecideRoutine(s)
<1>1. PICK x \in Spans : \/ FilterDrops(x) \/ ForwardWithoutTail(x) \/ ObeyMark(x)
                         \/ KeepInteresting(x) \/ DropInteresting(x) \/ DecideRoutine(x)
  BY DEF Next, Start, End, TimePasses, endVars
<1>2. stage' = [stage EXCEPT ![x] = @ + 1]
  BY <1>1 DEF FilterDrops, ForwardWithoutTail, ObeyMark, KeepInteresting,
              DropInteresting, DecideRoutine, Decide
<1>3. x = s
  BY <1>2 DEF IInv, SpanType
<1> QED BY <1>1, <1>3 DEF FilterDrops, ForwardWithoutTail, HasTailProcessor, ObeyMark,
                      Marked, KeepInteresting, DropInteresting, Interesting

\* A failure brings the rest of its trace with it while it is fresh: unless the
\* Keeper had to evict its trace for Limit others, and never the one marked last.
THEOREM TheRestFollows == Spec => FailureBringsTheRest
<1>1. IInv /\ [Next]_vars =>
        [\A s \in Spans :
           LET t == TraceOf[s]
               failures == KeptFailures(t) \ {s}
           IN /\ stage'[s] # stage[s]
              /\ HasPolicy /\ outcome[s] = "routine"
              /\ failures # {} /\ \A f \in failures : Fresh(endTime[f], now)
              /\ t = latest \/ Cardinality(FailedTraces) < Limit
              => <<Exporter(s), s>> \in exported']_vars
  <2> SUFFICES ASSUME IInv, Next, NEW s \in Spans, stage'[s] # stage[s],
                      HasPolicy, outcome[s] = "routine",
                      KeptFailures(TraceOf[s]) \ {s} # {},
                      \A f \in KeptFailures(TraceOf[s]) \ {s} : Fresh(endTime[f], now),
                      TraceOf[s] = latest \/ Cardinality(FailedTraces) < Limit
               PROVE  <<Exporter(s), s>> \in exported'
    OBVIOUS
  <2>1. s \notin KeptFailures(TraceOf[s]) /\ TraceOf[s] \in Traces
    BY DEF KeptFailures, Traces
  <2>2. KeepRoutine(s)
    BY <2>1, StillKept DEF KeepRoutine
  <2>3. DecideRoutine(s)
    BY OnlyRoutine
  <2> QED BY <2>2, <2>3 DEF DecideRoutine, Decide
<1> QED BY <1>1, Invariance, PTL DEF Spec, FailureBringsTheRest
=============================================================================

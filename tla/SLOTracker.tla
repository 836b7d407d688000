----------------------------- MODULE SLOTracker -----------------------------
(***************************************************************************)
(* slo/slo.go: Tracker keeps the outcomes of one objective's rolling       *)
(* window in a slice, of which those before firstLive have left it, and    *)
(* counts of the others.  Every call holds the mutex, so it is one action. *)
(* Times are ages in ticks, which saturate past the window; a fraction is  *)
(* compared by cross-multiplication, the target being TargetPart of 100.   *)
(***************************************************************************)
EXTENDS Integers, Sequences, FiniteSets

CONSTANTS Window,        \* definition.Window, in ticks
          TargetPart,    \* definition.Target, in hundredths
          CompactAbove,  \* the 1024 dead observations before a compaction
          MaxObserved,   \* bound: the observations in the slice
          Baselines, Lookaheads   \* the forecast options tried, in ticks

ASSUME SLOAssumption ==
    /\ Window \in Nat \ {0} /\ TargetPart \in 1..99 /\ CompactAbove \in Nat
    /\ Baselines \subseteq 1..Window /\ Lookaheads \subseteq Nat \ {0}

VARIABLES
    observations,          \* as [outcome, age], oldest first
    firstLive,             \* how many have left the window
    liveGood, liveBad,
    recent,                \* history: the observations of the last Window ticks
    answer                 \* the last snapshot or forecast

sloVars == <<observations, firstLive, liveGood, liveBad, recent, answer>>

\* Definitions named Faulty... are variants that no action uses: each breaks a
\* property when it takes the place of the definition it stands beside.

SLOInit ==
    /\ observations = <<>> /\ firstLive = 0 /\ liveGood = 0 /\ liveBad = 0
    /\ recent = <<>>
    /\ answer = [kind |-> "none"]
-----------------------------------------------------------------------------
(* prune and snapshot. *)

Of(obs, indices, outcome) == {i \in indices : obs[i].outcome = outcome}

\* The observations that leave the window now: those before the cutoff, from
\* the first live one on.
BeforeCutoff(o) == o.age > Window

Leaving(obs) ==
    {i \in (firstLive + 1)..Len(obs) : \A j \in (firstLive + 1)..i : BeforeCutoff(obs[j])}

\* Where firstLive stands once a slice of n with `dead` past ones is compacted.
FaultyFirstAfter(dead, n) == dead   \* the slice shrinks, the index stays
FirstAfter(dead, n) == 0

\* prune(at) on a slice with these counts.
Prune(obs, good, bad) ==
    LET left == Leaving(obs)
        dead == firstLive + Cardinality(left)
        compact == dead > CompactAbove /\ dead * 2 >= Len(obs)
    IN  /\ liveGood' = good - Cardinality(Of(obs, left, "good"))
        /\ liveBad' = bad - Cardinality(Of(obs, left, "bad"))
        /\ observations' = IF compact THEN SubSeq(obs, dead + 1, Len(obs)) ELSE obs
        /\ firstLive' = IF compact THEN FirstAfter(dead, Len(obs)) ELSE dead

\* The snapshot of the counts prune leaves: the budget is 1 - Target, the burn
\* rate the bad fraction over it, so 1 exactly when they are equal.
SnapshotOf(good, bad) ==
    LET total == good + bad
    IN  [kind |-> "snapshot", total |-> total, bad |-> bad,
         overspent |-> bad * 100 > (100 - TargetPart) * total,
         meets |-> total = 0 \/ good * 100 >= TargetPart * total]

Observed(outcome) == [outcome |-> outcome, age |-> 0]

Record(outcome) ==
    /\ Len(observations) < MaxObserved
    /\ Prune(Append(observations, Observed(outcome)),
             IF outcome = "good" THEN liveGood + 1 ELSE liveGood,
             IF outcome = "bad" THEN liveBad + 1 ELSE liveBad)
    /\ answer' = SnapshotOf(liveGood', liveBad')
    /\ recent' = Append(recent, Observed(outcome))

Snapshot ==
    /\ Prune(observations, liveGood, liveBad)
    /\ answer' = SnapshotOf(liveGood', liveBad')
    /\ UNCHANGED recent

SLOReset ==
    /\ observations' = <<>> /\ firstLive' = 0 /\ liveGood' = 0 /\ liveBad' = 0
    /\ recent' = <<>>
    /\ answer' = [kind |-> "none"]
-----------------------------------------------------------------------------
(* Forecast: the baseline's failure rate carried on for the lookahead, over *)
(* the observations the window will still hold then.                       *)

\* validateForecastOptions; lookbackRatio is 4.
ValidOptions(baseline, lookahead) == lookahead <= 4 * baseline

\* The forecast from the counts of the baseline and of what is retained.  The
\* expected events are total * lookahead / baseline, so failures of the
\* lookahead are bad * lookahead / baseline: multiplied out by `baseline`.
ForecastOf(total, bad, kept, keptBad, baseline, lookahead) ==
    LET budget == 100 - TargetPart
        remaining == budget * kept - 100 * keptBad    \* * 100
        net == 100 * bad - budget * total             \* * 100 * total
        projectedTotal == kept * baseline + total * lookahead   \* * baseline
        projectedBad == keptBad * baseline + bad * lookahead
        alerting == /\ total # 0
                    /\ (projectedTotal - projectedBad) * 100 < TargetPart * projectedTotal
    IN  [kind |-> "forecast", baseline |-> baseline, lookahead |-> lookahead,
         total |-> total, bad |-> bad, kept |-> kept, keptBad |-> keptBad,
         alerting |-> alerting,
         exhaustion |-> IF total = 0 THEN "never"
                        ELSE IF remaining <= 0 THEN "now"
                        ELSE IF net <= 0 THEN "never"
                        \* remaining / (net * events per tick), against the
                        \* lookahead
                        ELSE IF remaining * baseline < net * lookahead
                             THEN "within" ELSE "beyond",
         reason |-> IF total = 0 THEN "no-baseline-traffic"
                    ELSE IF alerting THEN "projected-budget-exhaustion"
                    ELSE "within-budget"]

Retained(lookahead) == Window - lookahead

Forecast(baseline, lookahead) ==
    /\ ValidOptions(baseline, lookahead)
    /\ Prune(observations, liveGood, liveBad)
    /\ LET live == (firstLive' + 1)..Len(observations')
           base == {i \in live : observations'[i].age < baseline}
           kept == {i \in live : observations'[i].age <= Retained(lookahead)}
       IN  answer' = ForecastOf(Cardinality(base), Cardinality(Of(observations', base, "bad")),
                                Cardinality(kept), Cardinality(Of(observations', kept, "bad")),
                                baseline, lookahead)
    /\ UNCHANGED recent
-----------------------------------------------------------------------------
Aged(o) == [o EXCEPT !.age = IF @ > Window THEN @ ELSE @ + 1]
AllAged(obs) == [i \in DOMAIN obs |-> Aged(obs[i])]

TickPasses ==
    /\ observations' = AllAged(observations)
    /\ LET older == AllAged(recent)
           past == {i \in DOMAIN older : BeforeCutoff(older[i])}
       IN  recent' = SubSeq(older, Cardinality(past) + 1, Len(older))
    /\ answer' = [kind |-> "none"]
    /\ UNCHANGED <<firstLive, liveGood, liveBad>>

SLONext ==
    \/ \E outcome \in {"good", "bad"} : Record(outcome)
    \/ Snapshot \/ SLOReset \/ TickPasses
    \/ \E baseline \in Baselines, lookahead \in Lookaheads :
         Forecast(baseline, lookahead)

SLOSpec == SLOInit /\ [][SLONext]_sloVars
-----------------------------------------------------------------------------
SLOTypeOK ==
    /\ observations \in Seq([outcome : {"good", "bad"}, age : 0..(Window + 1)])
    /\ firstLive \in 0..Len(observations)
    /\ liveGood \in Nat /\ liveBad \in Nat
    /\ recent \in Seq([outcome : {"good", "bad"}, age : 0..Window])
    /\ answer.kind \in {"none", "snapshot", "forecast"}

\* The observations of the last so many ticks, and the bad ones among them.
Within(ticks) == {i \in DOMAIN recent : recent[i].age <= ticks}
BadWithin(ticks) == Of(recent, Within(ticks), "bad")

\* A snapshot counts exactly the outcomes of the rolling window; a forecast
\* counts those of its baseline, and those the window will still hold at the
\* end of its lookahead, whatever was pruned and compacted before.
WindowIsExact ==
    /\ answer.kind = "snapshot" =>
         /\ answer.total = Cardinality(Within(Window))
         /\ answer.bad = Cardinality(BadWithin(Window))
    /\ answer.kind = "forecast" =>
         /\ answer.total = Cardinality(Within(answer.baseline - 1))
         /\ answer.bad = Cardinality(BadWithin(answer.baseline - 1))
         /\ answer.kept = Cardinality(Within(Window - answer.lookahead))
         /\ answer.keptBad = Cardinality(BadWithin(Window - answer.lookahead))
=============================================================================

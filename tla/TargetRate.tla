----------------------------- MODULE TargetRate -----------------------------
(***************************************************************************)
(* sampling/targetrate.go: TargetRateSampler keeps a number of traces per  *)
(* second and key.  It counts the root spans of each key over a window and *)
(* turns the counts into the next window's rates; the first call at least  *)
(* an interval after the window opened closes it.  Counting holds the      *)
(* mutex, the decision does not but reads only the rate it was given.      *)
(* Time is in ticks; a rate is <<kept, of>>.                               *)
(***************************************************************************)
EXTENDS Integers, FiniteSets

CONSTANTS Keys, PerTick,   \* the budget per key
          Interval, MaxKeys,
          MaxCount,        \* bound: the spans of one key in a window
          MaxElapsed       \* bound: the length of a window

ASSUME TargetRateAssumption ==
    /\ PerTick \in Nat \ {0} /\ Interval \in Nat \ {0} /\ MaxKeys \in Nat \ {0}
    /\ MaxElapsed \in Nat /\ MaxElapsed >= Interval

VARIABLES
    counts,    \* counts[k], for the keys seen in the window
    rates,     \* rates[k], for the keys that have one
    elapsed,   \* time since windowOpened
    closed,    \* history: the window before: its counts and its length
    decided    \* the rate of the last span

rateVars == <<counts, rates, elapsed, closed, decided>>

\* Definitions named Faulty... are variants that no action uses: each breaks a
\* property when it takes the place of the definition it stands beside.

KeepAll == <<1, 1>>

RateInit ==
    /\ counts = <<>> /\ rates = <<>> /\ elapsed = 0
    /\ closed = [counts |-> <<>>, elapsed |-> 0]
    /\ decided = KeepAll
-----------------------------------------------------------------------------
\* How long the window was: not always an interval, since only a call ends it.
FaultyWindowLength == Interval
WindowLength == elapsed

\* What recompute makes of a count.
RateFor(count) ==
    IF count <= PerTick * WindowLength THEN KeepAll
    ELSE <<PerTick * WindowLength, count>>

\* trimKeys: the keys that stay, none of them less frequent than one dropped.
Trimmed(c) ==
    IF Cardinality(DOMAIN c) <= MaxKeys THEN {DOMAIN c}
    ELSE {kept \in SUBSET DOMAIN c :
            /\ Cardinality(kept) = MaxKeys
            /\ \A k \in kept, d \in (DOMAIN c) \ kept : c[k] >= c[d]}

CountedOnce(c, k) ==
    [x \in (DOMAIN c) \cup {k} |->
       IF x # k THEN c[x] ELSE IF k \in DOMAIN c THEN c[k] + 1 ELSE 1]

RateOf(r, k) == IF k \in DOMAIN r THEN r[k] ELSE KeepAll

\* A root span, or one whose parent was not sampled: a sampled parent decides
\* before anything is counted.  keepAtRate is the trace ID's decision.
ShouldSample(k) ==
    \/ /\ elapsed < Interval
       /\ k \in DOMAIN counts => counts[k] < MaxCount
       /\ counts' = CountedOnce(counts, k)
       /\ decided' = RateOf(rates, k)
       /\ UNCHANGED <<rates, elapsed, closed>>
    \/ /\ elapsed >= Interval
       /\ \E kept \in Trimmed(counts) :
            /\ rates' = [x \in kept |-> RateFor(counts[x])]
            /\ closed' = [counts |-> counts, elapsed |-> elapsed]
       /\ counts' = CountedOnce(<<>>, k)
       /\ elapsed' = 0
       /\ decided' = RateOf(rates', k)

TimeElapses ==
    /\ elapsed < MaxElapsed
    /\ elapsed' = elapsed + 1
    /\ UNCHANGED <<counts, rates, closed, decided>>

RateNext == TimeElapses \/ \E k \in Keys : ShouldSample(k)

RateSpec == RateInit /\ [][RateNext]_rateVars
-----------------------------------------------------------------------------
RateTypeOK ==
    /\ DOMAIN counts \subseteq Keys /\ \A k \in DOMAIN counts : counts[k] \in 1..MaxCount
    /\ DOMAIN rates \subseteq Keys
    /\ \A k \in DOMAIN rates : rates[k][1] \in Nat /\ rates[k][2] \in Nat \ {0}
    /\ elapsed \in 0..MaxElapsed

\* Traffic no denser than in the window that set a key's rate keeps no more
\* than the budget: kept of every `of` spans, at most PerTick a tick, however
\* late the call that closed that window; and as dense, no less than it.
BudgetHeld ==
    \A k \in (DOMAIN rates) \cap DOMAIN counts :
      LET dense == counts[k] * closed.elapsed
          before == closed.counts[k] * elapsed
          kept == counts[k] * rates[k][1]
          budget == PerTick * elapsed * rates[k][2]
      IN  /\ dense <= before => kept <= budget
          /\ dense = before /\ rates[k] # KeepAll => kept = budget

\* "degrades into inaccuracy rather than into memory exhaustion": the rates stay
\* within the limit, and a key that lost its rate was no busier than one with one.
RatesAreBounded ==
    /\ Cardinality(DOMAIN rates) <= MaxKeys
    /\ \A k \in DOMAIN rates, d \in (DOMAIN closed.counts) \ DOMAIN rates :
         closed.counts[k] >= closed.counts[d]

\* The rates keep the budget they were made for, and stay as few as configured.
RatesHold == BudgetHeld /\ RatesAreBounded

\* "WithMaxSamplingKeys bounds how many distinct keys are tracked": at any time.
TrackedKeysBounded == Cardinality(DOMAIN counts) <= MaxKeys
=============================================================================

------------------------- MODULE MessageFlowProofs -------------------------
(* The retry counts are exact, given-up messages are traceable and batches  *)
(* attempt every item, for any messages, workers, limits and capacity.      *)
(*                                                                          *)
(* CountsAreExact is inductive with the shape of the state: the first in    *)
(* the order, which is forgotten, and the message given up leave the map,   *)
(* the order and the counts together.  For the other two, the span of a     *)
(* message that failed must lead to its publisher before it is given up,    *)
(* and a batch under way must have attempted every item before the next.    *)
EXTENDS MessageFlow, SequenceTheorems, TLAPS

TrackerInv ==
    /\ capacity \in Nat \ {0} /\ inserted \in Seq(Messages)
    /\ since \in [Messages -> Nat]
    /\ CountsAreExact

\* What a worker has in hand.
OneMessage == [at : {"handling", "failed"}, msg : Messages, span : Span]
GivenUp == [at : {"exhausted"}, msg : Messages, span : Span,
            attributes : SUBSET Attributes]
UnderWay == [at : {"batch"}, batch : Seq(Messages), next : Nat \ {0}, failed : Nat,
             attempted : SUBSET Messages, itemErrors : SUBSET Messages]
Ended == [at : {"batchEnded"}, batch : Seq(Messages), attempted : SUBSET Messages,
          itemErrors : SUBSET Messages, error : BOOLEAN, links : SUBSET Messages]
AllJobs == {Idle} \cup OneMessage \cup GivenUp \cup UnderWay \cup Ended

\* A message in hand was published; its span leads to its publisher.
LeadsBack(j, hs) ==
    /\ hs[j.msg] # "none"
    /\ hs[j.msg] = "traced" => j.msg \in {j.span.trace} \cup j.span.links

\* A batch has attempted the items before the next, and counted its errors.
InStep(j) ==
    /\ j.next <= Len(j.batch) + 1
    /\ j.attempted = {j.batch[i] : i \in 1..(j.next - 1)}
    /\ j.itemErrors # {} => j.failed > 0

\* A job is as it should be, where hs are the messages' headers.
Sound(j, hs) ==
    /\ j.at \in {"handling", "failed", "exhausted"} => LeadsBack(j, hs)
    /\ j.at = "exhausted" /\ hs[j.msg] = "traced" =>
         "producer_traceparent" \in j.attributes
    /\ j.at = "batch" => InStep(j)
    /\ j.at = "batchEnded" => /\ j.attempted = ToSet(j.batch)
                              /\ j.itemErrors # {} => j.error

FlowType ==
    /\ createLinks \in BOOLEAN
    /\ headers \in [Messages -> {"none", "plain", "traced"}]
    /\ pending \subseteq Messages /\ deadQueue \subseteq Messages
\* What the broker or the dead letter queue holds was published.
Published == \A m \in pending \cup deadQueue : headers[m] # "none"
JobsInv ==
    /\ job \in [Workers -> AllJobs]
    /\ \A w \in Workers : Sound(job[w], headers)
FlowInv == FlowType /\ Published /\ JobsInv
-----------------------------------------------------------------------------
(* Lists without repetition: their tail, one more at the end, one less.     *)

LEMMA TailFacts ==
    ASSUME NEW S, NEW s \in Seq(S), s # <<>>, IsInjective(s)
    PROVE  /\ Tail(s) \in Seq(S) /\ Head(s) \in S
           /\ Len(Tail(s)) = Len(s) - 1
           /\ IsInjective(Tail(s))
           /\ ToSet(Tail(s)) = ToSet(s) \ {Head(s)}
<1>1. /\ Tail(s) \in Seq(S) /\ Len(s) \in Nat \ {0} /\ Head(s) = s[1]
      /\ Len(Tail(s)) = Len(s) - 1 /\ s[1] \in S
      /\ \A i \in 1..(Len(s) - 1) : Tail(s)[i] = s[i + 1]
      /\ DOMAIN s = 1..Len(s) /\ DOMAIN Tail(s) = 1..(Len(s) - 1)
  BY HeadTailProperties, ElementOfSeq, EmptySeq
<1>2. IsInjective(Tail(s))
  BY <1>1 DEF IsInjective
<1>3. ASSUME NEW x PROVE x \in ToSet(Tail(s)) <=> x \in ToSet(s) \ {Head(s)}
  <2>1. ASSUME NEW i \in DOMAIN Tail(s) PROVE Tail(s)[i] \in ToSet(s) \ {Head(s)}
    BY <1>1 DEF ToSet, IsInjective
  <2>2. ASSUME NEW i \in DOMAIN s, s[i] # Head(s) PROVE s[i] \in ToSet(Tail(s))
    <3>1. i - 1 \in DOMAIN Tail(s) /\ Tail(s)[i - 1] = s[i]
      BY <1>1, <2>2
    <3> QED BY <3>1 DEF ToSet
  <2> QED BY <2>1, <2>2 DEF ToSet
<1> QED BY <1>1, <1>2, <1>3

LEMMA AppendFacts ==
    ASSUME NEW S, NEW s \in Seq(S), NEW m \in S, m \notin ToSet(s), IsInjective(s)
    PROVE  /\ Append(s, m) \in Seq(S)
           /\ Len(Append(s, m)) = Len(s) + 1
           /\ IsInjective(Append(s, m))
           /\ ToSet(Append(s, m)) = ToSet(s) \cup {m}
<1>1. /\ Append(s, m) \in Seq(S) /\ Len(s) \in Nat /\ DOMAIN s = 1..Len(s)
      /\ Len(Append(s, m)) = Len(s) + 1 /\ DOMAIN Append(s, m) = 1..(Len(s) + 1)
      /\ \A i \in 1..Len(s) : Append(s, m)[i] = s[i]
      /\ Append(s, m)[Len(s) + 1] = m
  BY AppendProperties, ElementOfSeq
<1>2. IsInjective(Append(s, m))
  BY <1>1 DEF IsInjective, ToSet
<1>3. ASSUME NEW x PROVE x \in ToSet(Append(s, m)) <=> x \in ToSet(s) \cup {m}
  BY <1>1 DEF ToSet
<1> QED BY <1>1, <1>2, <1>3

LEMMA StruckFacts ==
    ASSUME NEW S, NEW s \in Seq(S), NEW m \in ToSet(s), IsInjective(s)
    PROVE  /\ Struck(s, m) \in Seq(S)
           /\ Len(Struck(s, m)) = Len(s) - 1
           /\ IsInjective(Struck(s, m))
           /\ ToSet(Struck(s, m)) = ToSet(s) \ {m}
<1>1. /\ Len(s) \in Nat /\ DOMAIN s = 1..Len(s) /\ \A i \in 1..Len(s) : s[i] \in S
  BY ElementOfSeq
<1>2. PICK at \in 1..Len(s) : s[at] = m
  BY <1>1 DEF ToSet
<1> DEFINE First(i) == s[i] = m /\ \A j \in DOMAIN s : s[j] = m => i <= j
           first == CHOOSE i \in DOMAIN s : First(i)
           n == Len(s) - 1
           t == [i \in 1..n |-> IF i < first THEN s[i] ELSE s[i + 1]]
<1>3. first \in 1..Len(s) /\ s[first] = m
  <2>1. First(at) /\ at \in DOMAIN s
    BY <1>1, <1>2 DEF IsInjective
  <2> QED BY <2>1, <1>1
<1>4. Struck(s, m) = t
  BY DEF Struck
<1> HIDE DEF first
<1>5. n \in Nat /\ t \in [1..n -> S]
  BY <1>1, <1>3
<1>6. t \in Seq(S) /\ Len(t) = n
  BY <1>5, IsASeq, LenProperties
<1>7. IsInjective(t)
  BY <1>1, <1>3, <1>5 DEF IsInjective
<1>8. ASSUME NEW x PROVE x \in ToSet(t) <=> x \in ToSet(s) \ {m}
  <2>1. ASSUME NEW i \in 1..n PROVE t[i] \in ToSet(s) \ {m}
    BY <1>1, <1>3, <1>5 DEF ToSet, IsInjective
  <2>2. ASSUME NEW i \in 1..Len(s), s[i] # m PROVE s[i] \in ToSet(t)
    <3>1. CASE i < first
      <4>1. i \in 1..n /\ t[i] = s[i]
        BY <1>1, <1>3, <3>1
      <4> QED BY <4>1 DEF ToSet
    <3>2. CASE i > first
      <4>1. i - 1 \in 1..n /\ t[i - 1] = s[i]
        BY <1>1, <1>3, <3>2
      <4> QED BY <4>1 DEF ToSet
    <3> QED BY <1>1, <1>3, <2>2, <3>1, <3>2
  <2> QED BY <2>1, <2>2, <1>1 DEF ToSet
<1> QED BY <1>4, <1>6, <1>7, <1>8
-----------------------------------------------------------------------------
(* The retry counts. *)

\* The order once m has entered it has m in it, and nothing twice.
LEMMA EnteredFacts ==
    ASSUME TrackerInv, NEW m \in Messages
    PROVE  /\ Forgotten(m) \subseteq Counted /\ m \notin Forgotten(m)
           /\ Entered(m) \in Seq(Messages) /\ IsInjective(Entered(m))
           /\ ToSet(Entered(m)) = (Counted \cup {m}) \ Forgotten(m)
           /\ Len(Entered(m)) <= capacity
<1>1. /\ capacity \in Nat \ {0} /\ inserted \in Seq(Messages) /\ Len(inserted) \in Nat
      /\ IsInjective(inserted) /\ ToSet(inserted) = Counted /\ Len(inserted) <= capacity
  BY LenProperties DEF TrackerInv, CountsAreExact
<1>2. CASE m \in Counted
  BY <1>1, <1>2 DEF Forgotten, Entered
<1>3. CASE m \notin Counted /\ ~Full
  <2>1. Forgotten(m) = {} /\ Entered(m) = Append(inserted, m)
    BY <1>3 DEF Forgotten, Entered
  <2>2. Len(inserted) + 1 <= capacity
    BY <1>1, <1>3 DEF Full
  <2> QED BY <1>1, <1>3, <2>1, <2>2, AppendFacts
<1>4. CASE m \notin Counted /\ Full
  <2>1. Forgotten(m) = {Head(inserted)} /\ Entered(m) = Append(Tail(inserted), m)
    BY <1>4 DEF Forgotten, Entered
  <2>2. inserted # <<>>
    BY <1>1, <1>4, EmptySeq DEF Full
  <2>3. /\ Tail(inserted) \in Seq(Messages) /\ IsInjective(Tail(inserted))
        /\ Len(Tail(inserted)) = Len(inserted) - 1
        /\ ToSet(Tail(inserted)) = Counted \ {Head(inserted)}
    BY <1>1, <2>2, TailFacts
  <2>4. Head(inserted) \in Counted
    <3>1. Head(inserted) = inserted[1] /\ 1 \in DOMAIN inserted
      BY <1>1, <2>2, EmptySeq, LenProperties
    <3> QED BY <3>1, <1>1 DEF ToSet
  <2>5. /\ Entered(m) \in Seq(Messages) /\ IsInjective(Entered(m))
        /\ Len(Entered(m)) = Len(inserted)
        /\ ToSet(Entered(m)) = (Counted \ {Head(inserted)}) \cup {m}
    <3> DEFINE rest == Tail(inserted)
    <3>1. m \notin ToSet(rest)
      BY <1>4, <2>3
    <3>2. /\ Append(rest, m) \in Seq(Messages) /\ IsInjective(Append(rest, m))
          /\ Len(Append(rest, m)) = Len(rest) + 1
          /\ ToSet(Append(rest, m)) = ToSet(rest) \cup {m}
      <4>1. rest \in Seq(Messages) /\ IsInjective(rest)
        BY <2>3
      <4> HIDE DEF rest
      <4> QED BY <3>1, <4>1, AppendFacts
    <3> QED BY <1>1, <2>1, <2>3, <3>2
  <2> QED BY <1>1, <1>4, <2>1, <2>4, <2>5
<1> QED BY <1>2, <1>3, <1>4

LEMMA CountFailureKeeps ==
    ASSUME TrackerInv, NEW m \in Messages, CountFailure(m)
    PROVE  TrackerInv'
<1> DEFINE left == IF Exhausted(m) THEN Forgotten(m) \cup {m} ELSE Forgotten(m)
           kept == (Counted \cup {m}) \ left
<1>1. /\ counts' = [k \in kept |-> IF k = m THEN CountAfter(m) ELSE counts[k]]
      /\ inserted' = IF Exhausted(m) THEN Struck(Entered(m), m) ELSE Entered(m)
      /\ since' = [k \in Messages |-> IF k \in left THEN 0
                                      ELSE IF k = m THEN since[m] + 1 ELSE since[k]]
      /\ capacity' = capacity
  BY DEF CountFailure
<1>2. /\ capacity \in Nat \ {0} /\ since \in [Messages -> Nat]
      /\ Counted = {k \in Messages : since[k] > 0}
      /\ \A k \in Counted : counts[k] = since[k]
  BY DEF TrackerInv, CountsAreExact
<1>3. /\ inserted' \in Seq(Messages) /\ IsInjective(inserted')
      /\ ToSet(inserted') = kept /\ Len(inserted') <= capacity
  <2>1. m \in ToSet(Entered(m)) /\ Len(Entered(m)) \in Nat
    BY EnteredFacts, LenProperties
  <2>2. CASE Exhausted(m)
    <3>1. /\ Struck(Entered(m), m) \in Seq(Messages)
          /\ Len(Struck(Entered(m), m)) = Len(Entered(m)) - 1
          /\ IsInjective(Struck(Entered(m), m))
          /\ ToSet(Struck(Entered(m), m)) = ToSet(Entered(m)) \ {m}
      BY <2>1, EnteredFacts, StruckFacts
    <3> QED BY <1>1, <1>2, <2>1, <2>2, <3>1, EnteredFacts
  <2>3. CASE ~Exhausted(m)
    BY <1>1, <2>3, EnteredFacts
  <2> QED BY <2>2, <2>3
<1>4. CountAfter(m) = since[m] + 1
  BY <1>2 DEF CountAfter
<1>5. Counted' = kept
  BY <1>1 DEF Counted
<1>6. since' \in [Messages -> Nat]
  BY <1>1, <1>2
<1>7. kept = {k \in Messages : since'[k] > 0}
  <2>1. m \notin Forgotten(m) /\ Forgotten(m) \subseteq Counted
    BY EnteredFacts
  <2> HIDE DEF left
  <2>2. \A k \in Messages : since'[k] = IF k \in left THEN 0
                                        ELSE IF k = m THEN since[m] + 1 ELSE since[k]
    BY <1>1
  <2> QED BY <1>2, <2>2
<1>8. \A k \in kept : counts'[k] = since'[k]
  <2> HIDE DEF left
  <2> QED BY <1>1, <1>2, <1>4
<1> QED BY <1>1, <1>2, <1>3, <1>5, <1>6, <1>7, <1>8 DEF TrackerInv, CountsAreExact
-----------------------------------------------------------------------------
(* What the workers have in hand. *)

LEMMA InitInv == ASSUME Init PROVE TrackerInv /\ FlowInv
<1>1. TrackerInv
  <2>1. capacity \in Nat \ {0} /\ inserted = <<>> /\ since = [m \in Messages |-> 0]
    BY DeadLettersAssumption DEF DeadLettersAssumption, Init, TrackerInit
  <2>2. Counted = {}
    BY DEF Init, TrackerInit, Counted
  <2>3. Len(inserted) = 0 /\ inserted \in Seq(Messages) /\ DOMAIN inserted = {}
    BY <2>1
  <2>4. IsInjective(inserted) /\ ToSet(inserted) = {}
    BY <2>3 DEF IsInjective, ToSet
  <2> QED BY <2>1, <2>2, <2>3, <2>4 DEF TrackerInv, CountsAreExact
<1>2. FlowType /\ Published
  BY DEF Init, FlowInit, FlowType, Published
<1>3. JobsInv
  <2>1. job \in [Workers -> AllJobs] /\ \A w \in Workers : job[w].at = "idle"
    BY DEF Init, FlowInit, AllJobs, Idle
  <2> QED BY <2>1 DEF JobsInv, Sound
<1> QED BY <1>1, <1>2, <1>3 DEF FlowInv

\* A step of one worker leaves the others' jobs sound.
LEMMA OneWorker ==
    ASSUME JobsInv, NEW w \in Workers, NEW j \in AllJobs, Do(w, j),
           Sound(j, headers), headers' = headers
    PROVE  JobsInv'
<1>1. job' \in [Workers -> AllJobs]
  BY DEF Do, JobsInv
<1>2. \A v \in Workers : job'[v] = IF v = w THEN j ELSE job[v]
  BY DEF Do, JobsInv
<1>3. \A v \in Workers : Sound(job'[v], headers)
  BY <1>2 DEF JobsInv
<1> QED BY <1>1, <1>3 DEF JobsInv

LEMMA IdleIsSound == Idle \in AllJobs /\ \A hs : Sound(Idle, hs)
BY DEF Idle, AllJobs, Sound

\* What a job is, by its place.
LEMMA JobFacts ==
    ASSUME JobsInv, NEW w \in Workers
    PROVE  /\ job[w].at \in {"handling", "failed"} => job[w] \in OneMessage
           /\ job[w].at = "exhausted" => job[w] \in GivenUp
           /\ job[w].at = "batch" => job[w] \in UnderWay
           /\ Sound(job[w], headers)
BY DEF JobsInv, AllJobs, Idle, OneMessage, GivenUp, UnderWay, Ended

\* A message becomes published and leaves nothing behind as it was.
LEMMA PublishKeeps ==
    ASSUME FlowInv, NEW m \in Messages, NEW setter \in BOOLEAN, NEW stored \in BOOLEAN,
           Publish(m, setter, stored)
    PROVE  FlowInv'
<1>1. FlowType' /\ Published'
  BY DEF FlowInv, FlowType, Published, Publish
<1>2. job' = job /\ \A k \in Messages : headers[k] # "none" => headers'[k] = headers[k]
  BY DEF FlowInv, FlowType, Publish
<1>3. ASSUME NEW w \in Workers PROVE Sound(job[w], headers')
  <2>1. CASE job[w].at \in {"handling", "failed", "exhausted"}
    <3>1. job[w].msg \in Messages /\ LeadsBack(job[w], headers)
      BY <2>1, JobFacts DEF FlowInv, OneMessage, GivenUp, Sound
    <3>2. headers'[job[w].msg] = headers[job[w].msg]
      BY <3>1, <1>2 DEF LeadsBack
    <3> QED BY <2>1, <3>2, JobFacts DEF FlowInv, Sound, LeadsBack
  <2>2. CASE job[w].at \notin {"handling", "failed", "exhausted"}
    BY <2>2, JobFacts DEF FlowInv, Sound
  <2> QED BY <2>1, <2>2
<1> QED BY <1>1, <1>2, <1>3 DEF FlowInv, JobsInv

\* Process starts a span that leads to the publisher, by its trace or a link.
LEMMA ReceiveKeeps ==
    ASSUME FlowInv, NEW w \in Workers, NEW m \in Messages, Receive(w, m)
    PROVE  FlowInv'
<1> DEFINE j == [at |-> "handling", msg |-> m, span |-> ConsumerSpan(m)]
<1>1. ConsumerSpan(m) \in Span
  BY DEF ConsumerSpan, LinksOf, Span
<1>2. LeadsBack(j, headers)
  BY DEF FlowInv, FlowType, Published, Receive, LeadsBack, ConsumerSpan, LinksOf
<1>3. j \in AllJobs /\ Sound(j, headers)
  BY <1>1, <1>2 DEF AllJobs, OneMessage, Sound
<1>4. Do(w, j) /\ UNCHANGED <<createLinks, headers, pending, deadQueue>>
  BY DEF Receive
<1> HIDE DEF j
<1>5. JobsInv'
  BY <1>3, <1>4, OneWorker DEF FlowInv
<1> QED BY <1>4, <1>5 DEF FlowInv, FlowType, Published

LEMMA HandlerKeeps ==
    ASSUME FlowInv, NEW w \in Workers, HandlerSucceeds(w) \/ HandlerFails(w)
    PROVE  FlowInv'
<1>1. CASE HandlerSucceeds(w)
  <2>1. JobsInv'
    BY <1>1, IdleIsSound, OneWorker DEF FlowInv, HandlerSucceeds
  <2> QED BY <1>1, <2>1 DEF FlowInv, FlowType, Published, HandlerSucceeds
<1>2. CASE HandlerFails(w)
  <2> DEFINE j == [job[w] EXCEPT !.at = "failed", !.span.error = TRUE]
  <2>1. job[w] \in OneMessage /\ LeadsBack(job[w], headers)
    BY <1>2, JobFacts DEF FlowInv, HandlerFails, Sound
  <2>2. j \in OneMessage /\ j.at = "failed" /\ LeadsBack(j, headers)
    BY <2>1 DEF OneMessage, Span, LeadsBack
  <2>3. Do(w, j) /\ UNCHANGED <<createLinks, headers, pending, deadQueue>>
    BY <1>2 DEF HandlerFails
  <2> HIDE DEF j
  <2>4. JobsInv'
    BY <2>2, <2>3, OneWorker DEF FlowInv, AllJobs, Sound
  <2> QED BY <2>3, <2>4 DEF FlowInv, FlowType, Published
<1> QED BY <1>1, <1>2

\* A message is given up with the traceparent it carries.
LEMMA CountsKeeps ==
    ASSUME FlowInv, NEW w \in Workers, CountsTheFailure(w)
    PROVE  FlowInv'
<1> DEFINE m == job[w].msg
           info == [retries |-> CountAfter(m), partition |-> 0, offset |-> 0,
                    traced |-> headers[m] = "traced"]
           j == [at |-> "exhausted", msg |-> m, span |-> job[w].span,
                 attributes |-> DeadLetterAttributes(info)]
<1>1. job[w] \in OneMessage /\ LeadsBack(job[w], headers)
  BY JobFacts DEF FlowInv, CountsTheFailure, Sound
<1>2. UNCHANGED <<createLinks, headers, pending, deadQueue>>
  BY DEF CountsTheFailure
<1>3. CASE Exhausted(m)
  <2>1. DeadLetterAttributes(info) \subseteq Attributes
    BY DEF DeadLetterAttributes, Attributes
  <2>2. headers[m] = "traced" => "producer_traceparent" \in DeadLetterAttributes(info)
    BY DEF DeadLetterAttributes
  <2>3. j \in GivenUp /\ j.at = "exhausted" /\ LeadsBack(j, headers)
    <3> HIDE DEF info
    <3> QED BY <1>1, <2>1 DEF OneMessage, GivenUp, LeadsBack
  <2>4. headers[j.msg] = "traced" => "producer_traceparent" \in j.attributes
    <3> HIDE DEF info
    <3> QED BY <2>2
  <2>5. Do(w, j)
    BY <1>3 DEF CountsTheFailure
  <2> HIDE DEF j
  <2>6. JobsInv'
    BY <1>2, <2>3, <2>4, <2>5, OneWorker DEF FlowInv, AllJobs, Sound
  <2> QED BY <1>2, <2>6 DEF FlowInv, FlowType, Published
<1>4. CASE ~Exhausted(m)
  <2>1. Do(w, Idle)
    BY <1>4 DEF CountsTheFailure
  <2>2. JobsInv'
    BY <1>2, <2>1, IdleIsSound, OneWorker DEF FlowInv
  <2> QED BY <1>2, <2>2 DEF FlowInv, FlowType, Published
<1> QED BY <1>3, <1>4

LEMMA SendsKeeps ==
    ASSUME FlowInv, NEW w \in Workers, NEW sent \in BOOLEAN, NEW acked \in BOOLEAN,
           SendsToDeadQueue(w, sent, acked)
    PROVE  FlowInv'
<1>1. job[w] \in GivenUp /\ LeadsBack(job[w], headers)
  BY JobFacts DEF FlowInv, SendsToDeadQueue, Sound
<1>2. JobsInv'
  BY IdleIsSound, OneWorker DEF FlowInv, SendsToDeadQueue
<1>3. job[w].msg \in Messages /\ headers[job[w].msg] # "none"
  BY <1>1 DEF GivenUp, LeadsBack
<1> QED BY <1>2, <1>3 DEF FlowInv, FlowType, Published, SendsToDeadQueue

LEMMA ReplayKeeps ==
    ASSUME FlowInv, NEW m \in Messages, Replay(m)
    PROVE  FlowInv'
BY DEF FlowInv, FlowType, Published, JobsInv, Replay

\* A batch that begins has attempted nothing.
LEMMA BeginBatchKeeps ==
    ASSUME FlowInv, NEW w \in Workers, NEW batch \in Seq(Messages), BeginBatch(w, batch)
    PROVE  FlowInv'
<1> DEFINE j == [at |-> "batch", batch |-> batch, next |-> 1, failed |-> 0,
                 attempted |-> {}, itemErrors |-> {}]
<1>1. j \in UnderWay /\ j.at = "batch"
  BY DEF UnderWay
<1>2. InStep(j)
  BY LenProperties DEF InStep
<1>3. Do(w, j) /\ UNCHANGED <<createLinks, headers, pending, deadQueue>>
  BY DEF BeginBatch
<1> HIDE DEF j
<1>4. JobsInv'
  BY <1>1, <1>2, <1>3, OneWorker DEF FlowInv, AllJobs, Sound
<1> QED BY <1>3, <1>4 DEF FlowInv, FlowType, Published

\* Whatever an item's outcome, the batch goes on to the next.
LEMMA ProcessItemKeeps ==
    ASSUME FlowInv, NEW w \in Workers, NEW ok \in BOOLEAN, ProcessItem(w, ok)
    PROVE  FlowInv'
<1> DEFINE old == job[w]
           m == old.batch[old.next]
           n == old.next + 1
           f == IF ok THEN old.failed ELSE old.failed + 1
           a == old.attempted \cup {m}
           e == IF ok THEN old.itemErrors ELSE old.itemErrors \cup {m}
           j == [old EXCEPT !.next = n, !.failed = f, !.attempted = a, !.itemErrors = e]
<1>1. old \in UnderWay /\ InStep(old) /\ old.next <= Len(old.batch) /\ old.at = "batch"
  BY JobFacts DEF FlowInv, ProcessItem, Sound
<1>2. /\ old.batch \in Seq(Messages) /\ old.next \in 1..Len(old.batch)
      /\ Len(old.batch) \in Nat /\ old.failed \in Nat
      /\ old.attempted \subseteq Messages /\ old.itemErrors \subseteq Messages
  BY <1>1, LenProperties DEF UnderWay
<1>3. m \in Messages
  BY <1>2, ElementOfSeq
<1>4. Do(w, j) /\ UNCHANGED <<createLinks, headers, pending, deadQueue>>
  BY DEF ProcessItem, AfterItem
<1>5. /\ n \in Nat \ {0} /\ f \in Nat
      /\ a \in SUBSET Messages /\ e \in SUBSET Messages
  BY <1>2, <1>3
<1>6. /\ j \in UnderWay /\ j.at = "batch" /\ j.batch = old.batch
      /\ j.next = n /\ j.failed = f /\ j.attempted = a /\ j.itemErrors = e
  <2>1. old \in UnderWay
    BY <1>1
  <2>2. j = [old EXCEPT !.next = n, !.failed = f, !.attempted = a, !.itemErrors = e]
    OBVIOUS
  <2> HIDE DEF old, m, n, f, a, e, j
  <2> QED BY <2>1, <2>2, <1>5 DEF UnderWay
<1>7. InStep(j)
  <2>1. j.next <= Len(j.batch) + 1
    BY <1>2, <1>6
  <2>2. j.attempted = {old.batch[i] : i \in 1..old.next}
    <3>1. old.attempted = {old.batch[i] : i \in 1..(old.next - 1)}
      BY <1>1 DEF InStep
    <3>2. 1..old.next = 1..(old.next - 1) \cup {old.next}
      BY <1>2
    <3> QED BY <3>1, <3>2, <1>6
  <2>3. j.next - 1 = old.next /\ j.batch = old.batch
    BY <1>2, <1>6
  <2>4. j.itemErrors # {} => j.failed > 0
    BY <1>1, <1>2, <1>6 DEF InStep
  <2> QED BY <2>1, <2>2, <2>3, <2>4 DEF InStep
<1> HIDE DEF j
<1>8. JobsInv'
  BY <1>4, <1>6, <1>7, OneWorker DEF FlowInv, AllJobs, Sound
<1> QED BY <1>4, <1>8 DEF FlowInv, FlowType, Published

LEMMA EndBatchKeeps ==
    ASSUME FlowInv, NEW w \in Workers, EndBatch(w)
    PROVE  FlowInv'
<1> DEFINE old == job[w]
           error == old.failed > 0
           j == [at |-> "batchEnded", batch |-> old.batch, attempted |-> old.attempted,
                 itemErrors |-> old.itemErrors, error |-> error, links |-> {}]
<1>1. old \in UnderWay /\ InStep(old) /\ old.next > Len(old.batch)
  BY JobFacts DEF FlowInv, EndBatch, Sound
<1>2. j \in Ended /\ j.at = "batchEnded" /\ (j.itemErrors # {} => j.error)
  <2>1. error \in BOOLEAN /\ (old.itemErrors # {} => error)
    BY <1>1 DEF InStep
  <2> HIDE DEF error
  <2> QED BY <1>1, <2>1 DEF UnderWay, Ended
<1>3. j.attempted = ToSet(j.batch)
  <2>1. /\ old.batch \in Seq(Messages) /\ Len(old.batch) \in Nat /\ old.next \in Nat
        /\ DOMAIN old.batch = 1..Len(old.batch)
    BY <1>1, LenProperties DEF UnderWay
  <2>2. old.next - 1 = Len(old.batch)
    BY <1>1, <2>1 DEF InStep
  <2> QED BY <1>1, <2>1, <2>2 DEF InStep, ToSet
<1>4. Do(w, j) /\ UNCHANGED <<createLinks, headers, deadQueue>> /\ pending' \subseteq pending
  BY DEF EndBatch
<1> HIDE DEF j
<1>5. JobsInv'
  BY <1>2, <1>3, <1>4, OneWorker DEF FlowInv, AllJobs, Sound
<1> QED BY <1>4, <1>5 DEF FlowInv, FlowType, Published

LEMMA ProcessBatchKeeps ==
    ASSUME FlowInv, NEW w \in Workers, NEW batch \in Seq(Messages),
           NEW failed \in SUBSET ToSet(batch), NEW err \in BOOLEAN,
           ProcessBatch(w, batch, failed, err)
    PROVE  FlowInv'
<1> DEFINE j == [at |-> "batchEnded", batch |-> batch, attempted |-> ToSet(batch),
                 itemErrors |-> failed, error |-> err \/ failed # {},
                 links |-> LinksOf(ToSet(batch))]
<1>1. ToSet(batch) \subseteq Messages
  BY ElementOfSeq, LenProperties DEF ToSet
<1>2. /\ j \in Ended /\ j.at = "batchEnded" /\ j.attempted = ToSet(j.batch)
      /\ j.itemErrors # {} => j.error
  BY <1>1 DEF Ended, LinksOf
<1>3. Do(w, j) /\ UNCHANGED <<createLinks, headers, deadQueue>> /\ pending' \subseteq pending
  BY DEF ProcessBatch
<1> HIDE DEF j
<1>4. JobsInv'
  BY <1>2, <1>3, OneWorker DEF FlowInv, AllJobs, Sound
<1> QED BY <1>3, <1>4 DEF FlowInv, FlowType, Published

LEMMA BatchReturnsKeeps ==
    ASSUME FlowInv, NEW w \in Workers, BatchReturns(w)
    PROVE  FlowInv'
<1>1. JobsInv'
  BY IdleIsSound, OneWorker DEF FlowInv, BatchReturns
<1> QED BY <1>1 DEF FlowInv, FlowType, Published, BatchReturns
-----------------------------------------------------------------------------
(* The theorems. *)

LEMMA BatchesAreSequences ==
    ASSUME FlowType, NEW batch \in Batches
    PROVE  batch \in Seq(Messages)
<1>1. PICK n \in 0..BatchLimit : batch \in [1..n -> pending]
  BY DEF Batches, SeqOf
<1>2. n \in Nat /\ batch \in [1..n -> Messages]
  BY <1>1 DEF FlowType
<1> QED BY <1>2, IsASeq

LEMMA FlowKeeps == ASSUME FlowInv, [Next]_vars PROVE FlowInv'
<1>1. CASE UNCHANGED vars
  BY <1>1 DEF FlowInv, FlowType, Published, JobsInv, vars, flowVars
<1>2. ASSUME NEW m \in Messages,
             Replay(m) \/ \E setter, stored \in BOOLEAN : Publish(m, setter, stored)
      PROVE  FlowInv'
  BY <1>2, ReplayKeeps, PublishKeeps
<1>3. ASSUME NEW w \in Workers, Worker(w) PROVE FlowInv'
  <2>1. CASE \E m \in Messages : Receive(w, m)
    BY <2>1, ReceiveKeeps
  <2>2. CASE HandlerSucceeds(w) \/ HandlerFails(w)
    BY <2>2, HandlerKeeps
  <2>3. CASE Callback(w)
    BY <2>3, CountsKeeps, SendsKeeps DEF Callback
  <2>4. ASSUME NEW batch \in Batches,
               \/ BeginBatch(w, batch)
               \/ \E failed \in SUBSET ToSet(batch), err \in BOOLEAN :
                    ProcessBatch(w, batch, failed, err)
        PROVE  FlowInv'
    BY <2>4, BatchesAreSequences, BeginBatchKeeps, ProcessBatchKeeps DEF FlowInv
  <2>5. CASE \/ \E ok \in BOOLEAN : ProcessItem(w, ok)
             \/ EndBatch(w) \/ BatchReturns(w)
    BY <2>5, ProcessItemKeeps, EndBatchKeeps, BatchReturnsKeeps
  <2> QED BY <1>3, <2>1, <2>2, <2>3, <2>4, <2>5 DEF Worker
<1> QED BY <1>1, <1>2, <1>3 DEF Next

\* Only the callback that counts a failure touches the counts.
LEMMA TrackerKeeps == ASSUME TrackerInv, FlowInv, [Next]_vars PROVE TrackerInv'
<1>1. CASE UNCHANGED trackerVars
  BY <1>1 DEF TrackerInv, CountsAreExact, Counted, trackerVars
<1>2. ASSUME NEW w \in Workers, CountsTheFailure(w) PROVE TrackerInv'
  <2>1. job[w].msg \in Messages
    BY <1>2, JobFacts DEF FlowInv, CountsTheFailure, OneMessage
  <2>2. CountFailure(job[w].msg)
    BY <1>2 DEF CountsTheFailure
  <2> QED BY <2>1, <2>2, CountFailureKeeps
<1>3. UNCHANGED trackerVars \/ \E w \in Workers : CountsTheFailure(w)
  <2>1. CASE UNCHANGED vars
    BY <2>1 DEF vars
  <2>2. ASSUME NEW w \in Workers, Worker(w)
        PROVE  UNCHANGED trackerVars \/ CountsTheFailure(w)
    BY <2>2 DEF Worker, Callback, Receive, HandlerSucceeds, HandlerFails, SendsToDeadQueue,
       BeginBatch, ProcessBatch, ProcessItem, EndBatch, BatchReturns
  <2>3. ASSUME NEW m \in Messages,
               Replay(m) \/ \E setter, stored \in BOOLEAN : Publish(m, setter, stored)
        PROVE  UNCHANGED trackerVars
    BY <2>3 DEF Replay, Publish
  <2> QED BY <2>1, <2>2, <2>3 DEF Next
<1> QED BY <1>1, <1>2, <1>3

LEMMA Invariant == Spec => [](TrackerInv /\ FlowInv)
<1>1. Init => TrackerInv /\ FlowInv
  BY InitInv
<1>2. TrackerInv /\ FlowInv /\ [Next]_vars => (TrackerInv /\ FlowInv)'
  BY FlowKeeps, TrackerKeeps
<1> QED BY <1>1, <1>2, PTL DEF Spec

\* dlq.go: the map of retry counts and the order it is evicted in agree with the
\* failures, whatever was given up or forgotten, and stay within the capacity.
THEOREM Counts == Spec => []CountsAreExact
<1>1. TrackerInv => CountsAreExact
  BY DEF TrackerInv
<1> QED BY <1>1, Invariant, PTL

\* consumer.go, dlq.go: the span that gives a message up leads to its publisher.
THEOREM Traceable == Spec => []DeadLettersAreTraceable
<1>1. FlowInv => DeadLettersAreTraceable
  BY DEF FlowInv, JobsInv, Sound, LeadsBack, DeadLettersAreTraceable
<1> QED BY <1>1, Invariant, PTL

\* batch.go: a batch that has ended has attempted all its items and shows whether
\* one failed.
THEOREM AllAttempted == Spec => []BatchAttemptsAll
<1>1. FlowInv => BatchAttemptsAll
  BY DEF FlowInv, JobsInv, Sound, BatchAttemptsAll
<1> QED BY <1>1, Invariant, PTL
=============================================================================

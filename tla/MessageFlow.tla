---------------------------- MODULE MessageFlow ----------------------------
(***************************************************************************)
(* messaging/producer.go, consumer.go, batch.go: a message from Publish,   *)
(* through an at-least-once broker, to goroutines that share one Consumer, *)
(* whose OnError callback is the dead-letter handler of DeadLetters, and   *)
(* one BatchProcessor, whose failures no OnError hears of.  The broker and *)
(* the application's loop around Process are external: a message stays     *)
(* deliverable until the application acknowledges it.                      *)
(***************************************************************************)
EXTENDS DeadLetters

CONSTANTS Workers,     \* goroutines consuming
          NoMessage,
          BatchLimit   \* bound: messages in a batch

VARIABLES
    createLinks,   \* ConsumerConfig.CreateLinks, BatchConfig.CreateLinks
    headers,       \* headers[m]: "none" before m reaches the broker, then
                   \* whether its headers carry the producer's context
    pending,       \* the messages the broker delivers
    deadQueue,     \* the messages in the dead letter queue
    job            \* job[w]: what a worker is doing, with its open span

flowVars == <<createLinks, headers, pending, deadQueue, job>>
vars == <<trackerVars, flowVars>>

Idle == [at |-> "idle"]

FlowInit ==
    /\ createLinks \in BOOLEAN
    /\ headers = [m \in Messages |-> "none"]
    /\ pending = {} /\ deadQueue = {}
    /\ job = [w \in Workers |-> Idle]

Init == TrackerInit /\ FlowInit

Do(w, j) == job' = [job EXCEPT ![w] = j]
-----------------------------------------------------------------------------
(* Producer. *)

\* Publish, PublishWithID: inject the span's context unless there is no
\* setter, then send.  A send that reports an error may have stored the
\* message all the same.
Publish(m, setter, stored) ==
    /\ headers[m] = "none"
    /\ headers' = IF stored
                  THEN [headers EXCEPT ![m] = IF setter THEN "traced" ELSE "plain"]
                  ELSE headers
    /\ pending' = IF stored THEN pending \cup {m} ELSE pending
    /\ UNCHANGED <<trackerVars, createLinks, deadQueue, job>>
-----------------------------------------------------------------------------
(* Consumer. *)

\* CreateLinkFromHeaders: the producers of these messages to link to.
FaultyLinksOf(ms) == {}
LinksOf(ms) == {m \in ms : createLinks /\ headers[m] = "traced"}

\* Process, up to the call of the handler: a span of its own with a link, or
\* one in the producer's trace.
ConsumerSpan(m) ==
    [trace |-> IF ~createLinks /\ headers[m] = "traced" THEN m ELSE NoMessage,
     links |-> LinksOf({m}),
     error |-> FALSE]

Receive(w, m) ==
    /\ job[w] = Idle /\ m \in pending
    /\ Do(w, [at |-> "handling", msg |-> m, span |-> ConsumerSpan(m)])
    /\ UNCHANGED <<trackerVars, createLinks, headers, pending, deadQueue>>

\* The handler succeeds and the application acknowledges the message.
HandlerSucceeds(w) ==
    /\ job[w].at = "handling"
    /\ pending' = pending \ {job[w].msg}
    /\ Do(w, Idle)
    /\ UNCHANGED <<trackerVars, createLinks, headers, deadQueue>>

\* The handler fails: the span gets the error, and OnError the message.
HandlerFails(w) ==
    /\ job[w].at = "handling"
    /\ Do(w, [job[w] EXCEPT !.at = "failed", !.span.error = TRUE])
    /\ UNCHANGED <<trackerVars, createLinks, headers, pending, deadQueue>>

\* RecordDLQ: the attributes on the span.  A field at its zero value is left
\* out; a partition or an offset, whose unknown value is -1, is not.
DeadLetterAttributes(info) ==
    {"name", "reason", "reason_category", "original_message"}
      \cup (IF info.retries > 0 THEN {"retry_count"} ELSE {})
      \cup (IF info.partition >= 0 THEN {"original_partition"} ELSE {})
      \cup (IF info.offset >= 0 THEN {"original_offset"} ELSE {})
      \cup (IF info.traced THEN {"producer_traceparent"} ELSE {})

\* OnError up to the mutex's release, RecordRetry on the span, and RecordDLQ
\* when m is exhausted; the handler leaves partition and offset at 0.
CountsTheFailure(w) ==
    /\ job[w].at = "failed"
    /\ LET m == job[w].msg
           info == [retries |-> CountAfter(m), partition |-> 0, offset |-> 0,
                    traced |-> headers[m] = "traced"]
       IN  /\ CountFailure(m)
           /\ IF Exhausted(m)
              THEN Do(w, [at |-> "exhausted", msg |-> m, span |-> job[w].span,
                          attributes |-> DeadLetterAttributes(info)])
              ELSE Do(w, Idle)
    /\ UNCHANGED <<createLinks, headers, pending, deadQueue>>

\* dlqSender, whose error is dropped; Process returns the handler's error, and
\* the application acknowledges the message or has it delivered again.
SendsToDeadQueue(w, sent, acked) ==
    /\ job[w].at = "exhausted"
    /\ deadQueue' = IF sent THEN deadQueue \cup {job[w].msg} ELSE deadQueue
    /\ pending' = IF acked THEN pending \ {job[w].msg} ELSE pending
    /\ Do(w, Idle)
    /\ UNCHANGED <<trackerVars, createLinks, headers>>

\* An operator's replay (RecordDLQReplay).
Replay(m) ==
    /\ m \in deadQueue
    /\ deadQueue' = deadQueue \ {m}
    /\ pending' = pending \cup {m}
    /\ UNCHANGED <<trackerVars, createLinks, headers, job>>
-----------------------------------------------------------------------------
(* BatchProcessor. *)

\* ProcessEach, up to the first message: the span around the items has no
\* links, each item's span its own.  An empty batch returns at once.
BeginBatch(w, batch) ==
    /\ job[w] = Idle /\ batch # <<>>
    /\ Do(w, [at |-> "batch", batch |-> batch, next |-> 1, failed |-> 0,
              attempted |-> {}, itemErrors |-> {}])
    /\ UNCHANGED <<trackerVars, createLinks, headers, pending, deadQueue>>

FaultyAfterItem(j, ok) == IF ok THEN j.next + 1 ELSE Len(j.batch) + 1  \* stops
AfterItem(j, ok) == j.next + 1

\* One item: a failure is counted and joined to the errors, and the next item
\* is attempted all the same.
ProcessItem(w, ok) ==
    /\ job[w].at = "batch" /\ job[w].next <= Len(job[w].batch)
    /\ LET j == job[w]
           m == j.batch[j.next]
       IN  Do(w, [j EXCEPT !.next = AfterItem(j, ok),
                           !.failed = IF ok THEN @ ELSE @ + 1,
                           !.attempted = @ \cup {m},
                           !.itemErrors = IF ok THEN @ ELSE @ \cup {m}])
    /\ UNCHANGED <<trackerVars, createLinks, headers, pending, deadQueue>>

\* The batch's span is closed; the application acknowledges what no joined
\* error names.
EndBatch(w) ==
    /\ job[w].at = "batch" /\ job[w].next > Len(job[w].batch)
    /\ pending' = pending \ (ToSet(job[w].batch) \ job[w].itemErrors)
    /\ Do(w, [at |-> "batchEnded", batch |-> job[w].batch,
              attempted |-> job[w].attempted, itemErrors |-> job[w].itemErrors,
              error |-> job[w].failed > 0, links |-> {}])
    /\ UNCHANGED <<trackerVars, createLinks, headers, deadQueue>>

\* Process: one span with links to every producer, one handler for the batch,
\* which returns how many messages failed and perhaps an error.
ProcessBatch(w, batch, failed, err) ==
    /\ job[w] = Idle /\ batch # <<>>
    /\ pending' = IF err THEN pending ELSE pending \ (ToSet(batch) \ failed)
    /\ Do(w, [at |-> "batchEnded", batch |-> batch, attempted |-> ToSet(batch),
              itemErrors |-> failed, error |-> err \/ failed # {},
              links |-> LinksOf(ToSet(batch))])
    /\ UNCHANGED <<trackerVars, createLinks, headers, deadQueue>>

BatchReturns(w) ==
    /\ job[w].at = "batchEnded"
    /\ Do(w, Idle)
    /\ UNCHANGED <<trackerVars, createLinks, headers, pending, deadQueue>>
-----------------------------------------------------------------------------
Batches == {s \in SeqOf(pending, BatchLimit) : IsInjective(s)}

Callback(w) ==
    \/ CountsTheFailure(w)
    \/ \E sent, acked \in BOOLEAN : SendsToDeadQueue(w, sent, acked)

Worker(w) ==
    \/ \E m \in Messages : Receive(w, m)
    \/ HandlerSucceeds(w) \/ HandlerFails(w)
    \/ Callback(w)
    \/ \E batch \in Batches :
         \/ BeginBatch(w, batch)
         \/ \E failed \in SUBSET ToSet(batch), err \in BOOLEAN :
              ProcessBatch(w, batch, failed, err)
    \/ \E ok \in BOOLEAN : ProcessItem(w, ok)
    \/ EndBatch(w) \/ BatchReturns(w)

Next ==
    \/ \E m \in Messages :
         \/ \E setter, stored \in BOOLEAN : Publish(m, setter, stored)
         \/ Replay(m)
    \/ \E w \in Workers : Worker(w)

Spec == Init /\ [][Next]_vars

\* A callback under way is run to its end: a dead-letter sender that returns.
FairSpec == Spec /\ \A w \in Workers : WF_vars(Callback(w))
-----------------------------------------------------------------------------
Span == [trace : Messages \cup {NoMessage}, links : SUBSET Messages, error : BOOLEAN]
Attributes == {"name", "reason", "reason_category", "original_message",
               "retry_count", "original_partition", "original_offset",
               "producer_traceparent"}
Jobs ==
    {Idle}
      \cup [at : {"handling", "failed"}, msg : Messages, span : Span]
      \cup [at : {"exhausted"}, msg : Messages, span : Span,
            attributes : SUBSET Attributes]

TypeOK ==
    /\ TrackerTypeOK
    /\ createLinks \in BOOLEAN
    /\ headers \in [Messages -> {"none", "plain", "traced"}]
    /\ pending \subseteq Messages /\ deadQueue \subseteq Messages
    /\ \A w \in Workers : job[w].at \in {"batch", "batchEnded"} \/ job[w] \in Jobs

\* A span on which a message is given up leads to whoever published it, by its
\* trace, its link or the recorded traceparent, if the message carries that.
DeadLettersAreTraceable ==
    \A w \in Workers : job[w].at = "exhausted" /\ headers[job[w].msg] = "traced" =>
      /\ job[w].msg \in {job[w].span.trace} \cup job[w].span.links
      /\ "producer_traceparent" \in job[w].attributes

\* However its items fail, a batch attempts each of them, reports each failure
\* and has an error on its span if there was one.
BatchAttemptsAll ==
    \A w \in Workers : job[w].at = "batchEnded" =>
      /\ job[w].attempted = ToSet(job[w].batch)
      /\ job[w].itemErrors # {} => job[w].error

FailureCounted(m) ==
    \E w \in Workers : job[w].at = "failed" /\ job[w].msg = m /\ job'[w].at # "failed"
SentToDeadQueue(m) ==
    \E w \in Workers : job[w].at = "exhausted" /\ job[w].msg = m /\ job'[w] = Idle

\* docs/event-driven.md: "To count failures per message and send one to the DLQ
\* after three": a message that keeps failing is sent to the dead letter queue
\* again and again, whatever fails with it, if the map has room for them all.
PoisonReachesDeadQueue ==
    capacity >= Cardinality(Messages) =>
      \A m \in Messages :
        []<><<FailureCounted(m)>>_vars => []<><<SentToDeadQueue(m)>>_vars
=============================================================================

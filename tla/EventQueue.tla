----------------------------- MODULE EventQueue -----------------------------
(***************************************************************************)
(* The asynchronous business-event queue (subscribers/queue.go): any       *)
(* number of goroutines call Track, one worker goroutine delivers to the   *)
(* subscribers in turn and skips the ones that are backing off, and any    *)
(* number of goroutines call Shutdown.                                     *)
(*                                                                         *)
(* Events are numbered in the order of their Track calls.  Time is a       *)
(* discrete clock that starts at 1; 0 is Go's zero time.Time.              *)
(***************************************************************************)
EXTENDS Naturals, Sequences

CONSTANTS NumSubs,      \* len(q.subscribers)
          TypeOf,       \* TypeOf[s]: fmt.Sprintf("%T", sub)
          Closers,      \* the goroutines that call Shutdown
          QueueSize,    \* cap(q.events)
          BackoffMin, BackoffMax,
          MaxEvents,    \* bound: Track calls in a behaviour
          MaxTime       \* bound: the last instant of the clock

Subs == 1..NumSubs
Event == 1..MaxEvents

ASSUME QueueAssumption ==
    /\ NumSubs \in Nat \ {0}
    /\ TypeOf \in [Subs -> STRING]
    /\ QueueSize \in Nat \ {0}
    /\ BackoffMin \in Nat \ {0}
    /\ BackoffMax \in Nat \ {0}
    /\ MaxEvents \in Nat
    /\ MaxTime \in Nat

SubType == {TypeOf[s] : s \in Subs}

VARIABLES
    tracked,       \* Track calls so far
    panicked,      \* Track calls that panicked: a send on a closed channel
    accepted,      \* history: the events the channel took, in order
    buf,           \* q.events: the channel's contents
    chanClosed,    \* close(q.events) has run
    closed,        \* q.closed
    tickerOn, tickPending,           \* q.flushTick, and a tick not yet received
    worker,        \* where the worker goroutine is
    current, turn, sentAt,           \* deliver: its event, loop index and now
    errs, nextAllowed, backoff,      \* q.workerErrs, q.nextAllowed, q.backoff
    handled,       \* history: handled[s], what became of each event for s
    closer,        \* closer[c]: where goroutine c is in Shutdown
    subsClosed,    \* how many subscribers have been closed, in order
    clock

trackVars == <<tracked, panicked, accepted>>
breakerVars == <<errs, nextAllowed, backoff>>
deliverVars == <<current, turn, sentAt>>
closeVars == <<closer, closed, chanClosed, subsClosed>>
tickVars == <<tickerOn, tickPending>>
vars == <<trackVars, buf, tickVars, worker, deliverVars, breakerVars, handled,
          closeVars, clock>>

Outcome == {"sent", "failed", "skipped"}
CloserState == {"idle", "closing", "stopping", "waiting", "closingSubs",
                "drained", "late"}

\* Faulty variants of definitions stand beside them, each named Faulty...: no
\* action uses one, and each breaks a property when it takes its original's
\* place.
FaultyLesser(a, b) == IF a < b THEN b ELSE a   \* inverted comparison
Lesser(a, b) == IF a < b THEN a ELSE b

\* NewQueueWithConfig: the breaker maps are empty, which reads as 0.
Init ==
    /\ tracked = 0 /\ panicked = 0 /\ accepted = <<>>
    /\ buf = <<>> /\ chanClosed = FALSE /\ closed = FALSE
    /\ tickerOn = TRUE /\ tickPending = FALSE
    /\ worker = "select" /\ current = 0 /\ turn = 0 /\ sentAt = 0
    /\ errs = [t \in SubType |-> 0]
    /\ nextAllowed = [t \in SubType |-> 0]
    /\ backoff = [t \in SubType |-> 0]
    /\ handled = [s \in Subs |-> <<>>]
    /\ closer = [c \in Closers |-> "idle"]
    /\ subsClosed = 0
    /\ clock = 1
-----------------------------------------------------------------------------
(* Track: a non-blocking send.  It looks at neither q.closed nor q.mu.     *)

HasRoom == Len(buf) < QueueSize

TrackAccepted ==
    /\ ~chanClosed /\ HasRoom
    /\ buf' = Append(buf, tracked + 1)
    /\ accepted' = Append(accepted, tracked + 1)
    /\ UNCHANGED panicked

TrackDropped ==
    /\ ~chanClosed /\ ~HasRoom
    /\ UNCHANGED <<buf, accepted, panicked>>

\* The panic unwinds the calling goroutine; a server that recovers its
\* handlers' panics goes on running.
TrackPanics ==
    /\ chanClosed
    /\ panicked' = panicked + 1
    /\ UNCHANGED <<buf, accepted>>

Track ==
    /\ tracked < MaxEvents
    /\ tracked' = tracked + 1
    /\ TrackAccepted \/ TrackDropped \/ TrackPanics
    /\ UNCHANGED <<tickVars, worker, deliverVars, breakerVars, handled,
                   closeVars, clock>>
-----------------------------------------------------------------------------
(* The worker goroutine: start's select loop and deliver.                  *)

Receive ==
    /\ worker = "select" /\ buf # <<>>
    /\ buf' = Tail(buf)
    /\ current' = Head(buf)
    /\ turn' = 1
    /\ worker' = "check"
    /\ UNCHANGED <<trackVars, tickVars, sentAt, breakerVars, handled,
                   closeVars, clock>>

\* Returns from deliver after its first subscriber.
FaultyNextSubscriber == turn' = 0 /\ worker' = "select" /\ current' = 0

\* The next iteration of deliver's loop, or back to the select.
NextSubscriber ==
    IF turn < NumSubs
    THEN turn' = turn + 1 /\ worker' = "check" /\ UNCHANGED current
    ELSE turn' = 0 /\ worker' = "select" /\ current' = 0

Settle(outcome) ==
    /\ handled' = [handled EXCEPT ![turn] =
                     Append(@, [event |-> current, outcome |-> outcome])]
    /\ NextSubscriber

BackingOff(t) == nextAllowed[t] # 0 /\ clock < nextAllowed[t]

Skip ==
    /\ worker = "check" /\ BackingOff(TypeOf[turn])
    /\ Settle("skipped")
    /\ UNCHANGED <<trackVars, buf, tickVars, sentAt, breakerVars, closeVars,
                   clock>>

BeginSend ==
    /\ worker = "check" /\ ~BackingOff(TypeOf[turn])
    /\ sentAt' = clock
    /\ worker' = "send"
    /\ UNCHANGED <<trackVars, buf, tickVars, current, turn, breakerVars,
                   handled, closeVars, clock>>

SendSucceeds ==
    /\ worker = "send"
    /\ Settle("sent")
    /\ errs' = [errs EXCEPT ![TypeOf[turn]] = 0]
    /\ nextAllowed' = [nextAllowed EXCEPT ![TypeOf[turn]] = 0]
    /\ backoff' = [backoff EXCEPT ![TypeOf[turn]] = BackoffMin]
    /\ UNCHANGED <<trackVars, buf, tickVars, sentAt, closeVars, clock>>

\* The wait the next failure of a type earns: its back-off, or the minimum
\* when it has none yet, never above the maximum.
Wait(t) == Lesser(IF backoff[t] = 0 THEN BackoffMin ELSE backoff[t], BackoffMax)

\* The threshold is compared only to log "circuit open": the loop goes on
\* the same way below it and above it.
SendFails ==
    /\ worker = "send"
    /\ Settle("failed")
    /\ LET t == TypeOf[turn] IN
       /\ errs' = [errs EXCEPT ![t] = @ + 1]
       /\ nextAllowed' = [nextAllowed EXCEPT ![t] = sentAt + Wait(t)]
       /\ backoff' = [backoff EXCEPT ![t] = Lesser(2 * Wait(t), BackoffMax)]
    /\ UNCHANGED <<trackVars, buf, tickVars, sentAt, closeVars, clock>>

\* resetIfNeeded, on every flush tick: each type that has been sent to (its
\* backoff entry is no longer 0) starts afresh.
ResetIfNeeded ==
    /\ worker = "select" /\ tickPending
    /\ tickPending' = FALSE
    /\ errs' = [t \in SubType |-> 0]
    /\ nextAllowed' = [t \in SubType |-> 0]
    /\ backoff' = [t \in SubType |-> IF backoff[t] = 0 THEN 0 ELSE BackoffMin]
    /\ UNCHANGED <<trackVars, buf, tickerOn, worker, deliverVars, handled,
                   closeVars, clock>>

FaultyDrained == chanClosed   \* stops at once, like a done channel
Drained == chanClosed /\ buf = <<>>

Exit ==
    /\ worker = "select" /\ Drained
    /\ worker' = "exited"
    /\ UNCHANGED <<trackVars, buf, tickVars, deliverVars, breakerVars, handled,
                   closeVars, clock>>

Worker == Receive \/ Skip \/ BeginSend \/ SendSucceeds \/ SendFails
            \/ ResetIfNeeded \/ Exit
-----------------------------------------------------------------------------
(* Shutdown, by goroutine c.  The context it is given is not consulted.    *)

\* The flag is tested and set under q.mu; whoever finds it set returns nil.
FaultyAlreadyClosed == chanClosed   \* tests the channel, not the flag
AlreadyClosed == closed

CallShutdown(c) ==
    /\ closer[c] = "idle"
    /\ closer' = [closer EXCEPT ![c] = IF AlreadyClosed THEN "late" ELSE "closing"]
    /\ closed' = TRUE
    /\ UNCHANGED <<trackVars, buf, chanClosed, tickVars, worker, deliverVars,
                   breakerVars, handled, subsClosed, clock>>

\* Forgets to close the channel.
FaultyCloseEvents(c) ==
    /\ closer[c] = "closing"
    /\ closer' = [closer EXCEPT ![c] = "stopping"]
    /\ UNCHANGED <<trackVars, buf, closed, chanClosed, tickVars, worker,
                   deliverVars, breakerVars, handled, subsClosed, clock>>

CloseEvents(c) ==
    /\ closer[c] = "closing"
    /\ closer' = [closer EXCEPT ![c] = "stopping"]
    /\ chanClosed' = TRUE
    /\ UNCHANGED <<trackVars, buf, closed, tickVars, worker, deliverVars,
                   breakerVars, handled, subsClosed, clock>>

\* Since Go 1.23 no stale tick can be received after Stop.
StopTicker(c) ==
    /\ closer[c] = "stopping"
    /\ closer' = [closer EXCEPT ![c] = "waiting"]
    /\ tickerOn' = FALSE
    /\ tickPending' = FALSE
    /\ UNCHANGED <<trackVars, buf, closed, chanClosed, worker, deliverVars,
                   breakerVars, handled, subsClosed, clock>>

WorkerDone == worker = "exited"

AwaitWorker(c) ==
    /\ closer[c] = "waiting" /\ WorkerDone
    /\ closer' = [closer EXCEPT ![c] = "closingSubs"]
    /\ UNCHANGED <<trackVars, buf, closed, chanClosed, tickVars, worker,
                   deliverVars, breakerVars, handled, subsClosed, clock>>

CloseSubscriber(c) ==
    /\ closer[c] = "closingSubs"
    /\ subsClosed' = subsClosed + 1
    /\ closer' = [closer EXCEPT ![c] =
                    IF subsClosed + 1 = NumSubs THEN "drained" ELSE @]
    /\ UNCHANGED <<trackVars, buf, closed, chanClosed, tickVars, worker,
                   deliverVars, breakerVars, handled, clock>>

Proceed(c) == CloseEvents(c) \/ StopTicker(c) \/ AwaitWorker(c)
                \/ CloseSubscriber(c)
Shutdown(c) == CallShutdown(c) \/ Proceed(c)
-----------------------------------------------------------------------------
(* The environment: the runtime's ticker and the passing of time.          *)

TickerFires ==
    /\ tickerOn /\ ~tickPending
    /\ tickPending' = TRUE
    /\ UNCHANGED <<trackVars, buf, tickerOn, worker, deliverVars, breakerVars,
                   handled, closeVars, clock>>

TimePasses ==
    /\ clock < MaxTime
    /\ clock' = clock + 1
    /\ UNCHANGED <<trackVars, buf, tickVars, worker, deliverVars, breakerVars,
                   handled, closeVars>>

Returned(c) == closer[c] \in {"drained", "late"}

\* Everything a behaviour may do has been done; only then may it stop.
Finished ==
    /\ \A c \in Closers : Returned(c)
    /\ worker = "exited" /\ tracked = MaxEvents /\ clock = MaxTime
    /\ UNCHANGED vars

Next ==
    \/ Track
    \/ Worker
    \/ \E c \in Closers : Shutdown(c)
    \/ TickerFires
    \/ TimePasses
    \/ Finished

Spec == Init /\ [][Next]_vars

\* Go schedules a runnable goroutine again: the worker moves when it can
\* (its select takes a ready channel, and a subscriber's Send returns), and
\* so does a goroutine inside Shutdown.  Nothing obliges a caller to track
\* or to shut down, the ticker to fire or time to pass.
Fairness ==
    /\ WF_vars(Receive \/ Skip \/ BeginSend \/ SendSucceeds \/ SendFails \/ Exit)
    /\ \A c \in Closers : WF_vars(Proceed(c))

FairSpec == Spec /\ Fairness
-----------------------------------------------------------------------------
ChannelType ==
    /\ tracked \in 0..MaxEvents /\ panicked \in Nat
    /\ accepted \in Seq(Event)
    /\ buf \in Seq(Event) /\ Len(buf) <= QueueSize
WorkerType ==
    /\ worker \in {"select", "check", "send", "exited"}
    /\ current \in Event \cup {0}
    /\ turn \in 0..NumSubs
    /\ worker \in {"check", "send"} => turn # 0 /\ current # 0
    /\ sentAt \in Nat
HandledType == handled \in [Subs -> Seq([event : Event, outcome : Outcome])]
BreakerType ==
    /\ errs \in [SubType -> Nat]
    /\ nextAllowed \in [SubType -> Nat]
    /\ backoff \in [SubType -> Nat]
CloserType ==
    /\ closer \in [Closers -> CloserState]
    /\ chanClosed \in BOOLEAN /\ closed \in BOOLEAN
    /\ subsClosed \in 0..NumSubs
ClockType ==
    /\ tickerOn \in BOOLEAN /\ tickPending \in BOOLEAN
    /\ clock \in Nat

\* The shape of the state; the channel never holds more than its capacity.
TypeOK ==
    /\ ChannelType /\ WorkerType /\ HandledType
    /\ BreakerType /\ CloserType /\ ClockType

\* How many events the worker has taken off the channel.
Received == Len(accepted) - Len(buf)

\* How many of them s has been offered: deliver reaches s in its turn.
OfferedTo(s) == IF worker \in {"check", "send"} /\ turn <= s
                THEN Received - 1 ELSE Received

\* Every subscriber is offered each accepted event exactly once and in the
\* order of acceptance, whatever the other subscribers' failures and
\* back-offs: deliver neither loses, repeats nor reorders an event.
ExactlyOnceInOrder ==
    \A s \in Subs :
      /\ Len(handled[s]) = OfferedTo(s)
      /\ \A i \in 1..Len(handled[s]) : handled[s][i].event = accepted[i]

\* When the Shutdown call that closed the queue returns, every event any
\* Track call got into the channel has been offered to every subscriber.
ShutdownDrains ==
    \A c \in Closers : closer[c] = "drained" =>
      \A s \in Subs : Len(handled[s]) = Len(accepted)

\* A subscriber is never sent to once Shutdown has begun closing subscribers.
NoSendAfterClose == subsClosed > 0 => worker = "exited"

\* close(q.events) runs once, however many goroutines call Shutdown: a second
\* close of a channel panics.
ClosedOnce == \A c \in Closers : closer[c] = "closing" => ~chanClosed

\* However many goroutines shut the queue down, it closes once, drains, and only
\* then closes the subscribers (queue.go: "It waits for all pending events to be
\* processed before returning").
OrderlyShutdown == ShutdownDrains /\ NoSendAfterClose /\ ClosedOnce

\* The failed offer an event's skip for s is owed to: the last one before it
\* that was not itself skipped.
SkippedAfterFailure(s, i) ==
    \E j \in 1..(i - 1) :
      /\ handled[s][j].outcome = "failed"
      /\ \A k \in (j + 1)..(i - 1) : handled[s][k].outcome = "skipped"

\* An event is withheld from a subscriber only while that subscriber's own
\* latest send has failed ("per-subscriber backoff", options.go).
SkippedOnlyAfterOwnFailure ==
    \A s \in Subs : \A i \in DOMAIN handled[s] :
      handled[s][i].outcome = "skipped" => SkippedAfterFailure(s, i)

\* A type is paused exactly while it has failures on record, its back-off
\* doubles with each of them up to the maximum, and no pause outlasts the
\* maximum: whatever the interleaving of sends, ticks and time.
BackoffFollowsFailures ==
    \A t \in SubType :
      /\ errs[t] = 0 <=> nextAllowed[t] = 0
      /\ errs[t] > 0 => backoff[t] = Lesser(BackoffMin * 2 ^ errs[t], BackoffMax)
      /\ nextAllowed[t] <= clock + BackoffMax

\* Every goroutine inside Shutdown returns, given that Send does.
ShutdownReturns == \A c \in Closers : closer[c] # "idle" ~> Returned(c)

\* What the queue promises: EventDelivery, under this mapping.
Delivery == INSTANCE EventDelivery WITH
    offered <- [s \in Subs |-> [i \in DOMAIN handled[s] |-> handled[s][i].event]],
    phase <- IF \E c \in Closers : closer[c] = "drained" THEN "drained"
             ELSE IF chanClosed THEN "sealed" ELSE "open"

\* The queue implements the abstract delivery, its progress included.
ImplementsDelivery == Delivery!Spec
=============================================================================

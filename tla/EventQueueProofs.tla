-------------------------- MODULE EventQueueProofs --------------------------
(***************************************************************************)
(* Proofs about the event queue, for any number of subscribers, callers of *)
(* Track and callers of Shutdown, and any capacity and back-off settings.  *)
(***************************************************************************)
EXTENDS EventQueue, SequenceTheorems, FiniteSetTheorems, TLAPS

Delivering == worker \in {"check", "send"}

\* The states of the goroutine whose Shutdown found q.closed unset.
Winner == {"closing", "stopping", "waiting", "closingSubs", "drained"}

\* What the channel still holds is the unreceived end of what it accepted.
ChannelInv ==
    /\ Len(buf) <= Len(accepted)
    /\ \A i \in 1..Len(buf) : buf[i] = accepted[Received + i]

\* deliver works on the last event received.
DeliverInv ==
    Delivering => /\ turn \in Subs
                  /\ Received > 0
                  /\ current = accepted[Received]

\* One goroutine at most is past the test of q.closed, the channel is closed
\* only after it, and the worker exits only from a closed, empty channel.
CloseInv ==
    /\ \A c \in Closers : closer[c] \in Winner => closed
    /\ \A c, d \in Closers :
         closer[c] \in Winner /\ closer[d] \in Winner => c = d
    /\ chanClosed => closed /\ \A c \in Closers : closer[c] # "closing"
    /\ \A c \in Closers : closer[c] \in Winner \ {"closing"} => chanClosed
    /\ \A c \in Closers :
         closer[c] \in {"closingSubs", "drained"} => worker = "exited"
    /\ ~closed => subsClosed = 0
    /\ \A c \in Closers :
         closer[c] \in {"closing", "stopping", "waiting"} => subsClosed = 0
    /\ \A c \in Closers : closer[c] = "closingSubs" => subsClosed < NumSubs
    /\ worker = "exited" => chanClosed /\ buf = <<>>
    /\ subsClosed > 0 => worker = "exited"

IInv == TypeOK /\ ChannelInv /\ DeliverInv /\ ExactlyOnceInOrder /\ CloseInv
-----------------------------------------------------------------------------
(* Which steps touch which variables. *)

LEMMA ChannelFrame ==
  ASSUME [Next]_vars
  PROVE  Track \/ Receive \/ UNCHANGED <<trackVars, buf>>
<1> USE DEF vars, trackVars
<1>1. CASE Worker
  BY <1>1 DEF Worker, Skip, BeginSend, SendSucceeds, SendFails, ResetIfNeeded, Exit
<1>2. CASE \E c \in Closers : Shutdown(c)
  BY <1>2 DEF Shutdown, Proceed, CallShutdown, CloseEvents, StopTicker,
              AwaitWorker, CloseSubscriber
<1>3. CASE TickerFires \/ TimePasses \/ Finished \/ UNCHANGED vars
  BY <1>3 DEF TickerFires, TimePasses, Finished
<1> QED BY <1>1, <1>2, <1>3 DEF Next

LEMMA WorkerFrame ==
  ASSUME [Next]_vars
  PROVE  Worker \/ UNCHANGED <<worker, deliverVars, handled>>
<1> USE DEF vars
<1>1. CASE Track
  BY <1>1 DEF Track
<1>2. CASE \E c \in Closers : Shutdown(c)
  BY <1>2 DEF Shutdown, Proceed, CallShutdown, CloseEvents, StopTicker,
              AwaitWorker, CloseSubscriber
<1>3. CASE TickerFires \/ TimePasses \/ Finished \/ UNCHANGED vars
  BY <1>3 DEF TickerFires, TimePasses, Finished
<1> QED BY <1>1, <1>2, <1>3 DEF Next

LEMMA BreakerFrame ==
  ASSUME [Next]_vars
  PROVE  SendSucceeds \/ SendFails \/ ResetIfNeeded \/ UNCHANGED breakerVars
<1> USE DEF vars
<1>1. CASE Track
  BY <1>1 DEF Track
<1>2. CASE Worker
  BY <1>2 DEF Worker, Receive, Skip, BeginSend, Exit
<1>3. CASE \E c \in Closers : Shutdown(c)
  BY <1>3 DEF Shutdown, Proceed, CallShutdown, CloseEvents, StopTicker,
              AwaitWorker, CloseSubscriber
<1>4. CASE TickerFires \/ TimePasses \/ Finished \/ UNCHANGED vars
  BY <1>4 DEF TickerFires, TimePasses, Finished
<1> QED BY <1>1, <1>2, <1>3, <1>4 DEF Next

LEMMA CloserFrame ==
  ASSUME [Next]_vars
  PROVE  (\E c \in Closers : Shutdown(c)) \/ UNCHANGED closeVars
<1> USE DEF vars
<1>1. CASE Track
  BY <1>1 DEF Track
<1>2. CASE Worker
  BY <1>2 DEF Worker, Receive, Skip, BeginSend, SendSucceeds, SendFails,
              ResetIfNeeded, Exit
<1>3. CASE TickerFires \/ TimePasses \/ Finished \/ UNCHANGED vars
  BY <1>3 DEF TickerFires, TimePasses, Finished
<1> QED BY <1>1, <1>2, <1>3 DEF Next
-----------------------------------------------------------------------------
(* The type invariant, part by part. *)

LEMMA ChannelTypeStep ==
  ASSUME ChannelType, [Next]_vars PROVE ChannelType'
<1> USE QueueAssumption DEF ChannelType, trackVars
<1>1. CASE Track
  <2>1. tracked + 1 \in Event /\ tracked' \in 0..MaxEvents
    BY <1>1 DEF Track, Event
  <2>2. CASE TrackAccepted
    <3>1. accepted' \in Seq(Event) /\ buf' \in Seq(Event)
      BY <2>1, <2>2 DEF TrackAccepted
    <3>2. Len(buf') <= QueueSize
      BY <2>2 DEF TrackAccepted, HasRoom
    <3> QED BY <2>1, <2>2, <3>1, <3>2 DEF TrackAccepted
  <2>3. CASE TrackDropped
    BY <2>1, <2>3 DEF TrackDropped
  <2>4. CASE TrackPanics
    BY <2>1, <2>4 DEF TrackPanics
  <2> QED BY <1>1, <2>2, <2>3, <2>4 DEF Track
<1>2. CASE Receive
  BY <1>2 DEF Receive
<1> QED BY <1>1, <1>2, ChannelFrame

LEMMA SettleType ==
  ASSUME WorkerType, HandledType, worker \in {"check", "send"},
         NEW o \in Outcome, Settle(o), UNCHANGED sentAt
  PROVE  WorkerType' /\ HandledType'
<1> DEFINE Result == [event : Event, outcome : Outcome]
           res == [event |-> current, outcome |-> o]
<1>1. turn \in Subs /\ res \in Result
  BY QueueAssumption DEF Subs, WorkerType
<1>2. Append(handled[turn], res) \in Seq(Result)
  <2> HIDE DEF Result, res
  <2> QED BY <1>1, AppendProperties DEF Result, HandledType
<1>3. handled' \in [Subs -> Seq(Result)]
  <2>1. handled' = [handled EXCEPT ![turn] = Append(handled[turn], res)]
    BY DEF Settle
  <2> HIDE DEF res
  <2> QED BY <1>1, <1>2, <2>1 DEF HandledType
<1>4. NextSubscriber
  BY DEF Settle
<1>5. WorkerType'
  BY <1>4, QueueAssumption DEF WorkerType, NextSubscriber
<1> QED BY <1>3, <1>5 DEF HandledType

LEMMA WorkerTypeStep ==
  ASSUME ChannelType, WorkerType, HandledType, ClockType, [Next]_vars
  PROVE  WorkerType' /\ HandledType'
<1>1. CASE Receive
  <2>1. Head(buf) \in Event /\ Head(buf) # 0
    BY <1>1, QueueAssumption DEF Receive, ChannelType, Event
  <2>2. /\ worker' = "check" /\ turn' = 1 /\ current' = Head(buf)
        /\ UNCHANGED <<handled, sentAt>>
    BY <1>1 DEF Receive
  <2>3. turn' \in 0..NumSubs /\ turn' # 0
    BY <2>2, QueueAssumption
  <2>4. HandledType'
    BY <2>2 DEF HandledType
  <2> QED BY <2>1, <2>2, <2>3, <2>4 DEF WorkerType
<1>2. CASE Skip \/ SendSucceeds \/ SendFails
  <2>1. /\ worker \in {"check", "send"} /\ UNCHANGED sentAt
        /\ \E o \in Outcome : Settle(o)
    BY <1>2 DEF Skip, SendSucceeds, SendFails, Outcome
  <2> QED BY <2>1, SettleType
<1>3. CASE BeginSend
  BY <1>3 DEF BeginSend, WorkerType, HandledType, ClockType
<1>4. CASE ResetIfNeeded \/ Exit
  BY <1>4 DEF ResetIfNeeded, Exit, WorkerType, HandledType, deliverVars
<1>5. CASE UNCHANGED <<worker, deliverVars, handled>>
  BY <1>5 DEF WorkerType, HandledType, deliverVars
<1> QED BY <1>1, <1>2, <1>3, <1>4, <1>5, WorkerFrame DEF Worker

LEMMA BreakerTypeStep ==
  ASSUME WorkerType, BreakerType, [Next]_vars PROVE BreakerType'
<1> USE QueueAssumption DEF BreakerType
<1>1. CASE SendSucceeds
  BY <1>1 DEF SendSucceeds
<1>2. CASE SendFails
  <2> DEFINE t == TypeOf[turn]
  <2>1. t \in SubType
    BY <1>2 DEF SendFails, WorkerType, SubType, Subs
  <2>2. Wait(t) \in Nat
    BY <2>1 DEF Wait, Lesser
  <2>3. /\ errs[t] + 1 \in Nat
        /\ sentAt + Wait(t) \in Nat
        /\ Lesser(2 * Wait(t), BackoffMax) \in Nat
    BY <2>1, <2>2 DEF Lesser, WorkerType
  <2> QED BY <1>2, <2>3 DEF SendFails
<1>3. CASE ResetIfNeeded
  BY <1>3 DEF ResetIfNeeded
<1> QED BY <1>1, <1>2, <1>3, BreakerFrame DEF breakerVars

LEMMA CloserTypeStep ==
  ASSUME CloserType, CloseInv, [Next]_vars PROVE CloserType'
<1> USE QueueAssumption DEF CloserType, CloserState
<1>1. ASSUME NEW c \in Closers, Shutdown(c) PROVE CloserType'
  <2>1. CASE CallShutdown(c)
    BY <2>1 DEF CallShutdown, AlreadyClosed
  <2>2. CASE CloseEvents(c)
    BY <2>2 DEF CloseEvents
  <2>3. CASE StopTicker(c)
    BY <2>3 DEF StopTicker
  <2>4. CASE AwaitWorker(c)
    BY <2>4 DEF AwaitWorker, WorkerDone
  <2>5. CASE CloseSubscriber(c)
    BY <2>5 DEF CloseSubscriber, CloseInv
  <2> QED BY <1>1, <2>1, <2>2, <2>3, <2>4, <2>5 DEF Shutdown, Proceed
<1> QED BY <1>1, CloserFrame DEF closeVars

LEMMA ClockTypeStep ==
  ASSUME ClockType, [Next]_vars PROVE ClockType'
<1> USE DEF ClockType, vars, tickVars
<1>1. CASE Track
  BY <1>1 DEF Track
<1>2. CASE Worker
  BY <1>2 DEF Worker, Receive, Skip, BeginSend, SendSucceeds, SendFails,
              ResetIfNeeded, Exit
<1>3. CASE \E c \in Closers : Shutdown(c)
  BY <1>3 DEF Shutdown, Proceed, CallShutdown, CloseEvents, StopTicker,
              AwaitWorker, CloseSubscriber
<1>4. CASE TickerFires \/ TimePasses \/ Finished \/ UNCHANGED vars
  <2>1. tickerOn' \in BOOLEAN /\ tickPending' \in BOOLEAN
    BY <1>4 DEF TickerFires, TimePasses, Finished
  <2>2. clock' \in Nat
    BY <1>4 DEF TickerFires, TimePasses, Finished
  <2> QED BY <2>1, <2>2
<1> QED BY <1>1, <1>2, <1>3, <1>4 DEF Next

LEMMA InitType == Init => TypeOK
<1> SUFFICES ASSUME Init PROVE TypeOK
  OBVIOUS
<1> USE QueueAssumption DEF Init
<1>1. ChannelType
  BY DEF ChannelType
<1>2. WorkerType /\ HandledType
  BY DEF WorkerType, HandledType
<1>3. BreakerType
  BY DEF BreakerType
<1>4. CloserType
  <2>1. closer \in [Closers -> CloserState]
    BY DEF CloserState
  <2>2. subsClosed \in 0..NumSubs
    OBVIOUS
  <2>3. chanClosed \in BOOLEAN /\ closed \in BOOLEAN
    OBVIOUS
  <2> QED BY <2>1, <2>2, <2>3, Zenon DEF CloserType
<1>5. ClockType
  BY DEF ClockType
<1> QED BY <1>1, <1>2, <1>3, <1>4, <1>5 DEF TypeOK
-----------------------------------------------------------------------------
(* The inductive invariant, part by part. *)

LEMMA ChannelStep ==
  ASSUME TypeOK, ChannelInv, [Next]_vars PROVE ChannelInv'
<1> USE DEF ChannelInv, Received
<1>1. accepted \in Seq(Event) /\ buf \in Seq(Event)
  BY DEF TypeOK, ChannelType
<1>2. CASE Track /\ TrackAccepted
  <2>1. tracked + 1 \in Event
    BY <1>2, QueueAssumption DEF Track, Event, TypeOK, ChannelType
  <2>2. /\ accepted' = Append(accepted, tracked + 1)
        /\ buf' = Append(buf, tracked + 1)
    BY <1>2 DEF TrackAccepted
  <2>3. /\ Len(accepted') = Len(accepted) + 1 /\ Len(buf') = Len(buf) + 1
        /\ Len(accepted) \in Nat /\ Len(buf) \in Nat
    BY <1>1, <2>1, <2>2
  <2>4. ASSUME NEW i \in 1..Len(buf') PROVE buf'[i] = accepted'[Received' + i]
    <3>1. CASE i = Len(buf')
      BY <1>1, <2>1, <2>2, <2>3, <3>1
    <3>2. CASE i # Len(buf')
      <4>1. i \in 1..Len(buf) /\ Received + i \in 1..Len(accepted)
        BY <2>3, <3>2
      <4> QED BY <1>1, <2>1, <2>2, <2>3, <4>1
    <3> QED BY <3>1, <3>2
  <2> QED BY <2>3, <2>4
<1>3. CASE Track /\ ~TrackAccepted
  BY <1>3 DEF Track, TrackDropped, TrackPanics
<1>4. CASE Receive
  BY <1>1, <1>4 DEF Receive, trackVars
<1> QED BY <1>2, <1>3, <1>4, ChannelFrame DEF trackVars

\* What an outcome for one subscriber does to the record of offers.
LEMMA SettleOffers ==
  ASSUME TypeOK, ChannelInv, DeliverInv, ExactlyOnceInOrder, Delivering,
         NEW o \in Outcome, Settle(o), UNCHANGED <<accepted, buf>>
  PROVE  DeliverInv' /\ ExactlyOnceInOrder'
<1> DEFINE res == [event |-> current, outcome |-> o]
<1>1. /\ handled \in [Subs -> Seq([event : Event, outcome : Outcome])]
      /\ turn \in Subs /\ res \in [event : Event, outcome : Outcome]
      /\ NumSubs \in Nat
  <2>1. turn \in Subs /\ NumSubs \in Nat
    BY QueueAssumption DEF DeliverInv
  <2>2. current \in Event
    BY DEF TypeOK, WorkerType, Delivering
  <2> QED BY <2>1, <2>2 DEF TypeOK, HandledType
<1>2. /\ Received \in Nat /\ Received > 0 /\ Received' = Received
      /\ current = accepted[Received]
  BY DEF TypeOK, ChannelType, ChannelInv, DeliverInv, Received
<1>3. DeliverInv'
  BY <1>1, <1>2 DEF Settle, NextSubscriber, DeliverInv, Delivering, Subs
<1>4. ASSUME NEW s \in Subs, s # turn
      PROVE  handled'[s] = handled[s] /\ OfferedTo(s)' = OfferedTo(s)
  <2>1. handled'[s] = handled[s]
    BY <1>1, <1>4 DEF Settle
  <2>2. OfferedTo(s)' = OfferedTo(s)
    BY <1>1, <1>2, <1>4
       DEF Settle, NextSubscriber, OfferedTo, Delivering, Subs
  <2> QED BY <2>1, <2>2
<1>5. /\ handled'[turn] = Append(handled[turn], res)
      /\ Len(handled[turn]) = Received - 1
      /\ \A s \in Subs : s = turn => OfferedTo(s)' = Received
  <2>1. handled'[turn] = Append(handled[turn], res)
    BY <1>1 DEF Settle
  <2>2. Len(handled[turn]) = Received - 1
    BY <1>1 DEF ExactlyOnceInOrder, OfferedTo, Delivering, Subs
  <2>3. ASSUME NEW s \in Subs, s = turn PROVE OfferedTo(s)' = Received
    BY <1>1, <1>2, <2>3 DEF Settle, NextSubscriber, OfferedTo, Subs
  <2> QED BY <2>1, <2>2, <2>3
<1>6. ASSUME NEW s \in Subs
      PROVE  /\ Len(handled'[s]) = OfferedTo(s)'
             /\ \A i \in 1..Len(handled'[s]) : handled'[s][i].event = accepted'[i]
  <2>1. CASE s # turn
    BY <1>4, <2>1 DEF ExactlyOnceInOrder
  <2>2. CASE s = turn
    <3> DEFINE h == handled[turn]
    <3>1. h \in Seq([event : Event, outcome : Outcome])
      BY <1>1
    <3>2. /\ Len(Append(h, res)) = Received
          /\ \A i \in 1..(Received - 1) : Append(h, res)[i] = h[i]
          /\ Append(h, res)[Received] = res
      <4> HIDE DEF h, res
      <4> QED BY <1>1, <1>2, <1>5, <3>1, AppendProperties DEF h
    <3>3. res.event = accepted[Received]
      BY <1>2
    <3>4. \A i \in 1..(Received - 1) : h[i].event = accepted[i]
      BY <1>1, <1>5 DEF ExactlyOnceInOrder
    <3> HIDE DEF h, res
    <3> QED BY <1>2, <1>5, <2>2, <3>2, <3>3, <3>4 DEF h
  <2> QED BY <2>1, <2>2
<1> QED BY <1>3, <1>6 DEF ExactlyOnceInOrder

\* Receiving an event leaves the record of offers as it is.
LEMMA ReceiveOffers ==
  ASSUME TypeOK, ChannelInv, ExactlyOnceInOrder, Receive
  PROVE  DeliverInv' /\ ExactlyOnceInOrder'
<1>1. /\ accepted \in Seq(Event) /\ buf \in Seq(Event) /\ buf # <<>>
      /\ accepted' = accepted /\ buf' = Tail(buf) /\ handled' = handled
      /\ worker = "select" /\ worker' = "check" /\ turn' = 1
      /\ current' = Head(buf)
  BY DEF Receive, TypeOK, ChannelType, trackVars
<1>2. /\ Received \in Nat /\ Received' = Received + 1
      /\ buf[1] = accepted[Received + 1]
  BY <1>1 DEF ChannelInv, Received
<1>3. DeliverInv'
  <2>1. turn' \in Subs
    BY <1>1, QueueAssumption DEF Subs
  <2>2. Received' > 0 /\ current' = accepted'[Received']
    BY <1>1, <1>2
  <2> QED BY <2>1, <2>2 DEF DeliverInv
<1>4. ASSUME NEW s \in Subs PROVE OfferedTo(s)' = OfferedTo(s)
  BY <1>1, <1>2 DEF OfferedTo, Subs
<1> QED BY <1>1, <1>3, <1>4 DEF ExactlyOnceInOrder

\* Tracking an event only extends what has been accepted.
LEMMA TrackOffers ==
  ASSUME TypeOK, ChannelInv, DeliverInv, ExactlyOnceInOrder, Track
  PROVE  DeliverInv' /\ ExactlyOnceInOrder'
<1>1. UNCHANGED <<worker, current, turn, handled>>
  BY DEF Track, deliverVars
<1>2. /\ Received' = Received /\ Received \in Nat
      /\ Received <= Len(accepted)
      /\ \A i \in 1..Received : accepted'[i] = accepted[i]
  <2>1. /\ accepted \in Seq(Event) /\ buf \in Seq(Event)
        /\ Received \in Nat /\ Received <= Len(accepted)
    BY DEF TypeOK, ChannelType, ChannelInv, Received
  <2>2. CASE TrackAccepted
    <3>1. tracked + 1 \in Event
      BY QueueAssumption DEF Track, Event, TypeOK, ChannelType
    <3>2. /\ accepted' = Append(accepted, tracked + 1)
          /\ buf' = Append(buf, tracked + 1)
      BY <2>2 DEF TrackAccepted
    <3>3. Len(accepted') = Len(accepted) + 1 /\ Len(buf') = Len(buf) + 1
      BY <2>1, <3>1, <3>2
    <3>4. \A i \in 1..Len(accepted) : accepted'[i] = accepted[i]
      BY <2>1, <3>1, <3>2
    <3> QED BY <2>1, <3>3, <3>4 DEF Received
  <2>3. CASE TrackDropped \/ TrackPanics
    BY <2>1, <2>3 DEF TrackDropped, TrackPanics, Received
  <2> QED BY <2>2, <2>3 DEF Track
<1>3. DeliverInv'
  BY <1>1, <1>2 DEF DeliverInv, Delivering
<1>4. ASSUME NEW s \in Subs
      PROVE  /\ OfferedTo(s)' = OfferedTo(s)
             /\ Len(handled[s]) \in Nat /\ Len(handled[s]) <= Received
  <2>1. OfferedTo(s)' = OfferedTo(s) /\ OfferedTo(s) <= Received
    BY <1>1, <1>2 DEF OfferedTo
  <2>2. Len(handled[s]) \in Nat
    BY DEF TypeOK, HandledType
  <2> QED BY <2>1, <2>2 DEF ExactlyOnceInOrder
<1>5. ExactlyOnceInOrder'
  BY <1>1, <1>2, <1>4 DEF ExactlyOnceInOrder
<1> QED BY <1>3, <1>5

LEMMA OffersStep ==
  ASSUME TypeOK, ChannelInv, DeliverInv, ExactlyOnceInOrder, [Next]_vars
  PROVE  DeliverInv' /\ ExactlyOnceInOrder'
<1>1. CASE Skip \/ SendSucceeds \/ SendFails
  <2>1. /\ Delivering /\ UNCHANGED <<accepted, buf>>
        /\ \E o \in Outcome : Settle(o)
    BY <1>1 DEF Skip, SendSucceeds, SendFails, Outcome, Delivering, trackVars
  <2> QED BY <2>1, SettleOffers
<1>2. CASE BeginSend
  <2>1. /\ worker = "check" /\ worker' = "send"
        /\ UNCHANGED <<accepted, buf, current, turn, handled>>
    BY <1>2 DEF BeginSend, trackVars
  <2>2. Received' = Received /\ \A s \in Subs : OfferedTo(s)' = OfferedTo(s)
    BY <2>1 DEF Received, OfferedTo
  <2> QED BY <2>1, <2>2 DEF DeliverInv, Delivering, ExactlyOnceInOrder
<1>3. CASE ResetIfNeeded \/ Exit
  <2>1. /\ ~Delivering /\ ~Delivering'
        /\ UNCHANGED <<accepted, buf, handled>>
    BY <1>3 DEF ResetIfNeeded, Exit, Delivering, trackVars
  <2>2. \A s \in Subs : OfferedTo(s)' = OfferedTo(s)
    BY <2>1 DEF Received, OfferedTo, Delivering
  <2> QED BY <2>1, <2>2 DEF DeliverInv, ExactlyOnceInOrder
<1>4. CASE UNCHANGED <<trackVars, buf, worker, deliverVars, handled>>
  <2>1. UNCHANGED <<accepted, buf, worker, current, turn, handled>>
    BY <1>4 DEF trackVars, deliverVars
  <2>2. Received' = Received /\ \A s \in Subs : OfferedTo(s)' = OfferedTo(s)
    BY <2>1 DEF Received, OfferedTo
  <2> QED BY <2>1, <2>2 DEF DeliverInv, Delivering, ExactlyOnceInOrder
<1> QED
  BY <1>1, <1>2, <1>3, <1>4, ReceiveOffers, TrackOffers, ChannelFrame,
     WorkerFrame DEF Worker

\* Steps outside Shutdown: the worker exits only once the channel is closed
\* and empty, and nothing enters a closed channel.
LEMMA CloseStepOthers ==
  ASSUME TypeOK, CloseInv, [Next]_vars, UNCHANGED closeVars
  PROVE  CloseInv'
<1>1. UNCHANGED <<closer, closed, chanClosed, subsClosed>>
  BY DEF closeVars
<1>2. worker = "exited" => worker' = "exited" /\ buf' = buf
  <2>1. worker = "exited" => ~Worker
    BY DEF Worker, Receive, Skip, BeginSend, SendSucceeds, SendFails,
           ResetIfNeeded, Exit
  <2>2. worker = "exited" /\ Track => buf' = buf
    BY DEF CloseInv, Track, TrackAccepted, TrackDropped, TrackPanics
  <2>3. ~Receive /\ ~Track => buf' = buf
    BY ChannelFrame
  <2> QED BY <2>1, <2>2, <2>3, WorkerFrame DEF Worker
<1>3. worker' = "exited" => chanClosed' /\ buf' = <<>>
  <2>1. CASE worker = "exited"
    BY <1>1, <1>2, <2>1 DEF CloseInv
  <2>2. CASE worker # "exited" /\ Worker
    BY <1>1, <2>2
       DEF Worker, Receive, Skip, BeginSend, SendSucceeds, SendFails, Settle,
           NextSubscriber, ResetIfNeeded, Exit, Drained, deliverVars
  <2> QED BY <2>1, <2>2, WorkerFrame
<1> QED BY <1>1, <1>2, <1>3 DEF CloseInv

LEMMA CloseStepShutdown ==
  ASSUME TypeOK, CloseInv, NEW c \in Closers, Shutdown(c)
  PROVE  CloseInv'
<1> USE DEF CloseInv, Winner
<1>1. closer \in [Closers -> CloserState]
  BY DEF TypeOK, CloserType
<1>2. CASE CallShutdown(c)
  <2>1. /\ closer' = [closer EXCEPT ![c] = IF closed THEN "late" ELSE "closing"]
        /\ closer[c] = "idle" /\ closed'
        /\ UNCHANGED <<chanClosed, worker, buf, subsClosed>>
    BY <1>2 DEF CallShutdown, AlreadyClosed
  <2>2. CASE closed
    BY <1>1, <2>1, <2>2
  <2>3. CASE ~closed
    <3>1. /\ closer'[c] = "closing"
          /\ \A d \in Closers \ {c} : closer'[d] = closer[d] /\ closer[d] \notin Winner
          /\ ~chanClosed
      BY <1>1, <2>1, <2>3
    <3> QED BY <2>1, <3>1
  <2> QED BY <2>2, <2>3
<1>3. CASE CloseEvents(c)
  <2>1. /\ closer'[c] = "stopping" /\ closed /\ closed' = closed /\ chanClosed'
        /\ \A d \in Closers \ {c} : closer'[d] = closer[d] /\ closer[d] \notin Winner
        /\ UNCHANGED <<worker, buf, subsClosed>>
    BY <1>1, <1>3 DEF CloseEvents
  <2>2. subsClosed = 0 /\ worker # "exited"
    BY <1>3 DEF CloseEvents
  <2> QED BY <2>1, <2>2
<1>4. CASE StopTicker(c)
  BY <1>1, <1>4 DEF StopTicker
<1>5. CASE AwaitWorker(c)
  <2>1. /\ closer[c] = "waiting" /\ closer'[c] = "closingSubs" /\ closed /\ chanClosed
        /\ worker = "exited" /\ subsClosed < NumSubs
        /\ \A d \in Closers \ {c} : closer'[d] = closer[d] /\ closer[d] \notin Winner
        /\ UNCHANGED <<closed, chanClosed, worker, buf, subsClosed>>
    BY <1>1, <1>5, QueueAssumption DEF AwaitWorker, WorkerDone
  <2> QED BY <2>1
<1>6. CASE CloseSubscriber(c)
  <2>1. /\ closer[c] = "closingSubs" /\ closed /\ chanClosed /\ worker = "exited"
        /\ \A d \in Closers \ {c} : closer'[d] = closer[d] /\ closer[d] \notin Winner
        /\ UNCHANGED <<closed, chanClosed, worker, buf>>
    BY <1>1, <1>6 DEF CloseSubscriber
  <2>2. subsClosed \in 0..NumSubs /\ subsClosed < NumSubs
    BY <2>1 DEF TypeOK, CloserType
  <2>3. \/ closer'[c] = "drained"
        \/ closer'[c] = "closingSubs" /\ subsClosed' < NumSubs
    BY <1>1, <1>6, <2>2, QueueAssumption DEF CloseSubscriber
  <2> QED BY <2>1, <2>3
<1> QED BY <1>2, <1>3, <1>4, <1>5, <1>6 DEF Shutdown, Proceed

LEMMA InitIInv == Init => IInv
<1> SUFFICES ASSUME Init PROVE IInv
  OBVIOUS
<1>1. TypeOK
  BY InitType
<1>2. ChannelInv /\ DeliverInv
  BY DEF Init, ChannelInv, DeliverInv, Delivering
<1>3. ExactlyOnceInOrder
  BY DEF Init, ExactlyOnceInOrder, OfferedTo, Received
<1>4. CloseInv
  BY DEF Init, CloseInv, Winner
<1> QED BY <1>1, <1>2, <1>3, <1>4 DEF IInv

LEMMA NextIInv == IInv /\ [Next]_vars => IInv'
<1> SUFFICES ASSUME IInv, [Next]_vars PROVE IInv'
  OBVIOUS
<1>1. TypeOK'
  BY ChannelTypeStep, WorkerTypeStep, BreakerTypeStep, CloserTypeStep,
     ClockTypeStep DEF IInv, TypeOK
<1>2. ChannelInv' /\ DeliverInv' /\ ExactlyOnceInOrder'
  BY ChannelStep, OffersStep DEF IInv
<1>3. CloseInv'
  BY CloseStepOthers, CloseStepShutdown, CloserFrame DEF IInv
<1> QED BY <1>1, <1>2, <1>3 DEF IInv

THEOREM Invariance == Spec => []IInv
BY InitIInv, NextIInv, PTL DEF Spec
-----------------------------------------------------------------------------
(* The theorems. *)

\* Every reachable state has its declared shape; in particular the channel
\* never holds more than its capacity and at most NumSubs subscribers are
\* closed.
THEOREM TypeCorrect == Spec => []TypeOK
<1>1. IInv => TypeOK
  BY DEF IInv
<1> QED BY <1>1, Invariance, PTL

\* deliver neither loses, repeats nor reorders an event, for any number of
\* subscribers and any pattern of failures, ticks and shutdowns.
THEOREM DeliveryExact == Spec => []ExactlyOnceInOrder
<1>1. IInv => ExactlyOnceInOrder
  BY DEF IInv
<1> QED BY <1>1, Invariance, PTL

\* The Shutdown call that closes the queue returns only after every accepted
\* event has been offered to every subscriber.
THEOREM DrainOnShutdown == Spec => []ShutdownDrains
<1>1. IInv => ShutdownDrains
  <2> SUFFICES ASSUME IInv, NEW c \in Closers, closer[c] = "drained",
                      NEW s \in Subs
               PROVE  Len(handled[s]) = Len(accepted)
    BY DEF ShutdownDrains
  <2>1. worker = "exited" /\ buf = <<>>
    BY DEF IInv, CloseInv
  <2>2. Received = Len(accepted) /\ OfferedTo(s) = Received
    BY <2>1 DEF Received, OfferedTo, IInv, TypeOK, ChannelType
  <2> QED BY <2>2 DEF IInv, ExactlyOnceInOrder
<1> QED BY <1>1, Invariance, PTL

\* No subscriber is sent to once Shutdown has begun closing them.
THEOREM NoLateSend == Spec => []NoSendAfterClose
<1>1. IInv => NoSendAfterClose
  BY DEF IInv, CloseInv, NoSendAfterClose
<1> QED BY <1>1, Invariance, PTL

\* However many goroutines call Shutdown, close(q.events) runs once.
THEOREM OneClose == Spec => []ClosedOnce
<1>1. IInv => ClosedOnce
  BY DEF IInv, CloseInv, ClosedOnce
<1> QED BY <1>1, Invariance, PTL

\* Shutdown by any number of goroutines closes the channel once, drains it, and
\* then closes the subscribers.
THEOREM Orderly == Spec => []OrderlyShutdown
BY DrainOnShutdown, NoLateSend, OneClose, PTL DEF OrderlyShutdown
-----------------------------------------------------------------------------
(* The back-off.  A power of two is the number of subsets of a set, which   *)
(* doubles with each element the set gains.                                 *)

LEMMA Doubling ==
  ASSUME NEW n \in Nat
  PROVE  2^n \in Nat \ {0} /\ 2^(n+1) = 2*2^n
<1> DEFINE S == 1..n
           x == n+1
           A == SUBSET S
           B == {T \cup {x} : T \in A}
<1>1. IsFiniteSet(S) /\ Cardinality(S) = n
  BY FS_Interval
<1>2. IsFiniteSet(S \cup {x}) /\ Cardinality(S \cup {x}) = n+1
  BY <1>1, FS_AddElement
<1>3. IsFiniteSet(A) /\ Cardinality(A) = 2^n
  BY <1>1, FS_SUBSET
<1>4. Cardinality(SUBSET (S \cup {x})) = 2^(n+1)
  BY <1>2, FS_SUBSET
<1>5. x \notin S
  OBVIOUS
<1> HIDE DEF x, S
<1>6. SUBSET (S \cup {x}) = A \cup B
  <2>1. ASSUME NEW T \in SUBSET (S \cup {x}) PROVE T \in A \cup B
    <3>1. CASE x \in T
      <4>1. T \ {x} \in A /\ T = (T \ {x}) \cup {x}
        BY <3>1
      <4> QED BY <4>1
    <3>2. CASE x \notin T
      BY <3>2
    <3> QED BY <3>1, <3>2
  <2> QED BY <2>1
<1>7. A \cap B = {}
  BY <1>5
<1>8. ExistsBijection(A, B)
  <2> DEFINE f == [T \in A |-> T \cup {x}]
  <2>1. ASSUME NEW T \in A, NEW U \in A, f[T] = f[U] PROVE T = U
    BY <2>1, <1>5
  <2>2. f \in Bijection(A, B)
    <3>1. f \in [A -> B] /\ \A U \in B : \E T \in A : f[T] = U
      OBVIOUS
    <3>2. IsInjective(f)
      BY <2>1 DEF IsInjective
    <3> HIDE DEF f, A, B
    <3> QED BY <3>1, <3>2 DEF Bijection, Injection, Surjection
  <2> QED BY <2>2 DEF ExistsBijection
<1>9. IsFiniteSet(B) /\ Cardinality(B) = Cardinality(A)
  BY <1>3, <1>8, FS_Bijection
<1>10. Cardinality(A \cup B) = Cardinality(A) + Cardinality(B) - Cardinality({})
  <2> HIDE DEF A, B
  <2>1. Cardinality(A \cup B) = Cardinality(A) + Cardinality(B) - Cardinality(A \cap B)
    BY <1>3, <1>9, FS_Union
  <2> QED BY <1>7, <2>1
<1>11. Cardinality(A) \in Nat
  BY <1>3, FS_CardinalityType
<1>12. Cardinality({}) = 0
  BY FS_EmptySet
<1>13. 2^n \in Nat \ {0}
  <2>1. {} \in A
    OBVIOUS
  <2> HIDE DEF A
  <2>2. Cardinality(A) # 0
    BY <1>3, <2>1, FS_EmptySet
  <2> QED BY <1>3, <1>11, <2>2
<1>14. 2^(n+1) = 2^n + 2^n
  <2>1. Cardinality(A \cup B) = 2^(n+1)
    BY <1>4, <1>6
  <2> HIDE DEF A, B
  <2> QED BY <1>3, <1>9, <1>10, <1>11, <1>12, <2>1
<1> QED BY <1>13, <1>14

\* What the doubling of the back-off rests on: the send the worker waits for
\* began no later than now, and a type without failures has no back-off yet,
\* or the minimal one.
Paced ==
    /\ sentAt <= clock
    /\ \A t \in SubType : errs[t] = 0 => backoff[t] \in {0, BackoffMin}

\* One wait that doubles stays the capped power of two it was.
LEMMA CappedDoubling ==
  ASSUME NEW x \in Nat \ {0}, NEW max \in Nat \ {0}
  PROVE  /\ Lesser(x, max) \in Nat \ {0} /\ Lesser(x, max) <= max
         /\ Lesser(Lesser(x, max), max) = Lesser(x, max)
         /\ Lesser(2 * Lesser(x, max), max) = Lesser(2 * x, max)
BY DEF Lesser

\* The wait a failure earns, and the back-off it leaves.
LEMMA WaitDoubles ==
  ASSUME TypeOK, Paced, BackoffFollowsFailures, NEW t \in SubType
  PROVE  /\ Wait(t) \in Nat \ {0} /\ Wait(t) <= BackoffMax
         /\ Lesser(2 * Wait(t), BackoffMax)
              = Lesser(BackoffMin * 2 ^ (errs[t] + 1), BackoffMax)
<1> DEFINE n == errs[t]
           x == BackoffMin * 2 ^ n
<1>1. n \in Nat /\ backoff[t] \in Nat /\ BackoffMin \in Nat \ {0} /\ BackoffMax \in Nat \ {0}
  BY QueueAssumption DEF TypeOK, BreakerType
<1>2. 2 ^ n \in Nat \ {0} /\ 2 ^ (n + 1) = 2 * 2 ^ n
  BY <1>1, Doubling
<1>3. x \in Nat \ {0} /\ BackoffMin * 2 ^ (n + 1) = 2 * x
  <2> DEFINE p == 2 ^ n
  <2>1. p \in Nat \ {0} /\ 2 ^ (n + 1) = 2 * p
    BY <1>2
  <2> HIDE DEF p
  <2>2. BackoffMin * p \in Nat \ {0} /\ BackoffMin * (2 * p) = 2 * (BackoffMin * p)
    BY <1>1, <2>1
  <2> QED BY <2>1, <2>2 DEF p
<1>4. CASE n = 0
  <2>1. 2 ^ n = 1 /\ x = BackoffMin
    <3>1. 2 ^ 0 = 1
      OBVIOUS
    <3> QED BY <1>1, <1>4, <3>1
  <2>2. Wait(t) = Lesser(BackoffMin, BackoffMax)
    BY <1>4 DEF Wait, Paced
  <2> HIDE DEF n, x
  <2> QED BY <1>1, <1>3, <2>1, <2>2, CappedDoubling DEF n
<1>5. CASE n > 0
  <2>1. backoff[t] = Lesser(x, BackoffMax)
    BY <1>5 DEF BackoffFollowsFailures
  <2> HIDE DEF n, x
  <2>2. backoff[t] # 0 /\ Wait(t) = Lesser(x, BackoffMax)
    BY <1>1, <1>3, <2>1, CappedDoubling DEF Wait
  <2> QED BY <1>1, <1>3, <2>2, CappedDoubling DEF n
<1> QED BY <1>1, <1>4, <1>5

LEMMA ClockFrame ==
  ASSUME TypeOK, [Next]_vars
  PROVE  /\ clock' = clock \/ clock' = clock + 1
         /\ sentAt' = sentAt \/ sentAt' = clock
<1> USE DEF vars, deliverVars
<1>1. CASE Track
  BY <1>1 DEF Track
<1>2. CASE Worker
  BY <1>2 DEF Worker, Receive, Skip, BeginSend, SendSucceeds, SendFails,
              ResetIfNeeded, Exit
<1>3. CASE \E c \in Closers : Shutdown(c)
  BY <1>3 DEF Shutdown, Proceed, CallShutdown, CloseEvents, StopTicker,
              AwaitWorker, CloseSubscriber
<1>4. CASE TickerFires \/ TimePasses \/ Finished \/ UNCHANGED vars
  BY <1>4 DEF TickerFires, TimePasses, Finished
<1> QED BY <1>1, <1>2, <1>3, <1>4 DEF Next

LEMMA PacedStep ==
  ASSUME TypeOK, TypeOK', Paced, BackoffFollowsFailures, [Next]_vars
  PROVE  Paced' /\ BackoffFollowsFailures'
<1> USE QueueAssumption DEF Paced, BackoffFollowsFailures
<1>1. /\ errs \in [SubType -> Nat] /\ nextAllowed \in [SubType -> Nat]
      /\ backoff \in [SubType -> Nat]
      /\ sentAt \in Nat /\ clock \in Nat
      /\ sentAt' <= clock' /\ clock <= clock' /\ clock' \in Nat
  BY ClockFrame DEF TypeOK, BreakerType, WorkerType, ClockType
<1>2. CASE SendSucceeds
  <2>1. \A t \in SubType :
          \/ UNCHANGED <<errs[t], nextAllowed[t], backoff[t]>>
          \/ errs'[t] = 0 /\ nextAllowed'[t] = 0 /\ backoff'[t] = BackoffMin
    BY <1>1, <1>2 DEF SendSucceeds
  <2> QED BY <1>1, <2>1
<1>3. CASE SendFails
  <2> DEFINE u == TypeOf[turn]
  <2>1. u \in SubType
    BY <1>3 DEF SendFails, TypeOK, WorkerType, SubType, Subs
  <2>2. /\ Wait(u) \in Nat \ {0} /\ Wait(u) <= BackoffMax
        /\ Lesser(2 * Wait(u), BackoffMax)
             = Lesser(BackoffMin * 2 ^ (errs[u] + 1), BackoffMax)
    BY <2>1, WaitDoubles
  <2>3. /\ errs' = [errs EXCEPT ![u] = @ + 1]
        /\ nextAllowed' = [nextAllowed EXCEPT ![u] = sentAt + Wait(u)]
        /\ backoff' = [backoff EXCEPT ![u] = Lesser(2 * Wait(u), BackoffMax)]
        /\ sentAt' = sentAt
    BY <1>3 DEF SendFails
  <2> HIDE DEF u
  <2>4. /\ errs'[u] = errs[u] + 1 /\ nextAllowed'[u] = sentAt + Wait(u)
        /\ backoff'[u] = Lesser(BackoffMin * 2 ^ (errs[u] + 1), BackoffMax)
    BY <1>1, <2>1, <2>2, <2>3
  <2>5. ASSUME NEW t \in SubType
        PROVE  /\ errs'[t] = 0 <=> nextAllowed'[t] = 0
               /\ errs'[t] > 0 =>
                    backoff'[t] = Lesser(BackoffMin * 2 ^ errs'[t], BackoffMax)
               /\ nextAllowed'[t] <= clock' + BackoffMax
               /\ errs'[t] = 0 => backoff'[t] \in {0, BackoffMin}
    <3>1. CASE t = u
      <4>1. errs[u] \in Nat
        BY <1>1, <2>1
      <4>2. sentAt + Wait(u) # 0 /\ sentAt + Wait(u) <= clock' + BackoffMax
        BY <1>1, <2>2
      <4>3. errs[u] + 1 # 0
        BY <4>1
      <4> QED BY <2>4, <3>1, <4>2, <4>3
    <3>2. CASE t # u
      <4>1. UNCHANGED <<errs[t], nextAllowed[t], backoff[t]>>
        BY <1>1, <2>3, <3>2
      <4> QED BY <1>1, <4>1
    <3> QED BY <3>1, <3>2
  <2> QED BY <1>1, <2>5
<1>4. CASE ResetIfNeeded
  <2>1. \A t \in SubType :
          errs'[t] = 0 /\ nextAllowed'[t] = 0 /\ backoff'[t] \in {0, BackoffMin}
    BY <1>4 DEF ResetIfNeeded
  <2> QED BY <1>1, <2>1
<1>5. CASE UNCHANGED breakerVars
  BY <1>1, <1>5 DEF breakerVars
<1> QED BY <1>2, <1>3, <1>4, <1>5, BreakerFrame

\* For any back-off settings and any interleaving of sends, ticks and time, a
\* type is paused exactly while it has failures on record, the wait is the
\* minimum doubled once per failure up to the maximum, and no pause outlasts it.
THEOREM BackoffExact == Spec => []BackoffFollowsFailures
<1>1. Init => Paced /\ BackoffFollowsFailures
  BY QueueAssumption DEF Init, Paced, BackoffFollowsFailures
<1>2. /\ IInv /\ IInv' /\ Paced /\ BackoffFollowsFailures /\ [Next]_vars
      => Paced' /\ BackoffFollowsFailures'
  BY PacedStep DEF IInv
<1> QED BY <1>1, <1>2, Invariance, PTL DEF Spec
-----------------------------------------------------------------------------
(* The refinement: each step of the queue is one of EventDelivery or none.  *)

\* The events of a subscriber's record, what the mapping puts for offered[s].
EventsOf(h) == [i \in DOMAIN h |-> h[i].event]
Result == [event : Event, outcome : Outcome]
Phase == IF \E c \in Closers : closer[c] = "drained" THEN "drained"
         ELSE IF chanClosed THEN "sealed" ELSE "open"
Offered == [s \in Subs |-> EventsOf(handled[s])]

\* An event the channel took is none that is still to be tracked.
Numbered == \A i \in 1..Len(accepted) : accepted[i] <= tracked

LEMMA EventsOfRecord ==
  ASSUME NEW h \in Seq(Result)
  PROVE  /\ EventsOf(h) \in Seq(Event) /\ Len(EventsOf(h)) = Len(h)
         /\ \A i \in 1..Len(h) : EventsOf(h)[i] = h[i].event
<1>1. /\ Len(h) \in Nat /\ DOMAIN h = 1..Len(h)
      /\ \A i \in 1..Len(h) : h[i] \in Result
  BY ElementOfSeq
<1>2. EventsOf(h) = [i \in 1..Len(h) |-> h[i].event]
  BY <1>1 DEF EventsOf
<1>3. \A i \in 1..Len(h) : h[i].event \in Event
  BY <1>1 DEF Result
<1> QED BY <1>1, <1>2, <1>3

LEMMA EventsOfAppend ==
  ASSUME NEW h \in Seq(Result), NEW res \in Result
  PROVE  EventsOf(Append(h, res)) = Append(EventsOf(h), res.event)
<1> DEFINE longer == Append(h, res)
<1>1. /\ longer \in Seq(Result) /\ Len(longer) = Len(h) + 1 /\ Len(h) \in Nat
      /\ \A i \in 1..Len(h) : longer[i] = h[i]
      /\ longer[Len(h) + 1] = res
  BY AppendProperties
<1>2. res.event \in Event
  BY DEF Result
<1> HIDE DEF longer
<1>3. /\ EventsOf(longer) \in Seq(Event) /\ Len(EventsOf(longer)) = Len(h) + 1
      /\ \A i \in 1..(Len(h) + 1) : EventsOf(longer)[i] = longer[i].event
  BY <1>1, EventsOfRecord
<1> DEFINE more == Append(EventsOf(h), res.event)
<1>4. /\ more \in Seq(Event) /\ Len(more) = Len(h) + 1
      /\ \A i \in 1..Len(h) : more[i] = EventsOf(h)[i]
      /\ more[Len(h) + 1] = res.event
  BY <1>2, EventsOfRecord, AppendProperties
<1> HIDE DEF more
<1>5. \A i \in 1..(Len(h) + 1) : EventsOf(longer)[i] = more[i]
  BY <1>1, <1>3, <1>4, EventsOfRecord
<1>6. EventsOf(longer) = more
  BY <1>1, <1>3, <1>4, <1>5, SeqEqual
<1> QED BY <1>6 DEF longer, more

LEMMA NumberedStep ==
  ASSUME TypeOK, Numbered, [Next]_vars PROVE Numbered'
<1>1. accepted \in Seq(Event) /\ tracked \in Nat
  BY DEF TypeOK, ChannelType
<1>2. CASE Track /\ TrackAccepted
  <2>1. tracked + 1 \in Event /\ tracked' = tracked + 1
    BY <1>1, <1>2, QueueAssumption DEF Track, Event
  <2>2. /\ Len(accepted') = Len(accepted) + 1
        /\ \A i \in 1..Len(accepted) : accepted'[i] = accepted[i]
        /\ accepted'[Len(accepted) + 1] = tracked + 1
    BY <1>1, <1>2, <2>1, AppendProperties DEF TrackAccepted
  <2>3. ASSUME NEW i \in 1..Len(accepted) PROVE accepted[i] \in Nat
    BY <1>1, ElementOfSeq, QueueAssumption DEF Event
  <2> QED BY <1>1, <2>1, <2>2, <2>3 DEF Numbered
<1>3. CASE Track /\ ~TrackAccepted
  <2>1. tracked' = tracked + 1 /\ accepted' = accepted
    BY <1>3 DEF Track, TrackDropped, TrackPanics
  <2>2. ASSUME NEW i \in 1..Len(accepted) PROVE accepted[i] \in Nat
    BY <1>1, ElementOfSeq, QueueAssumption DEF Event
  <2> QED BY <1>1, <2>1, <2>2 DEF Numbered
<1>4. CASE Receive \/ UNCHANGED <<trackVars, buf>>
  BY <1>4 DEF Receive, trackVars, Numbered
<1> QED BY <1>2, <1>3, <1>4, ChannelFrame

\* The abstract actions, in terms of the queue.
LEMMA Mapping ==
  /\ Delivery!vars = <<accepted, Offered, Phase>>
  /\ Delivery!vars' = <<accepted', Offered', Phase'>>
  /\ Delivery!Accept <=>
       /\ Phase = "open"
       /\ \E e \in Event : /\ \A i \in DOMAIN accepted : accepted[i] # e
                           /\ accepted' = Append(accepted, e)
       /\ Offered' = Offered /\ Phase' = Phase
  /\ \A s \in Subs : Delivery!Offer(s) <=>
       /\ Len(Offered[s]) < Len(accepted)
       /\ Offered' = [Offered EXCEPT ![s] = Append(@, accepted[Len(@) + 1])]
       /\ accepted' = accepted /\ Phase' = Phase
  /\ Delivery!Seal <=>
       Phase = "open" /\ Phase' = "sealed" /\ accepted' = accepted /\ Offered' = Offered
  /\ Delivery!Drained <=>
       /\ Phase = "sealed" /\ \A s \in Subs : Len(Offered[s]) = Len(accepted)
       /\ Phase' = "drained" /\ accepted' = accepted /\ Offered' = Offered
BY DEF Delivery!vars, Delivery!Accept, Delivery!Offer, Delivery!Seal, Delivery!Drained,
       Delivery!Subs, Delivery!Event, Subs, Event, Offered, Phase, EventsOf

\* A step that changes no one's record and no one's place stutters.
LEMMA SamePhase ==
  ASSUME UNCHANGED <<closer, chanClosed>> PROVE Phase' = Phase
BY DEF Phase
LEMMA SameOffered ==
  ASSUME handled' = handled PROVE Offered' = Offered
BY DEF Offered

\* The phases of a queue whose invariant holds.
LEMMA Phases ==
  ASSUME CloseInv
  PROVE  /\ Phase = "open" <=> ~chanClosed
         /\ Phase = "drained" <=> \E c \in Closers : closer[c] = "drained"
BY DEF Phase, CloseInv, Winner

LEMMA TrackMaps ==
  ASSUME IInv, Numbered, Track PROVE Delivery!Accept \/ UNCHANGED Delivery!vars
<1>1. Offered' = Offered /\ Phase' = Phase
  BY SamePhase, SameOffered DEF Track, closeVars
<1>2. CASE TrackAccepted
  <2>1. Phase = "open"
    BY <1>2, Phases DEF TrackAccepted, IInv
  <2>2. /\ accepted \in Seq(Event) /\ tracked \in Nat /\ tracked + 1 \in Event
    BY QueueAssumption DEF Track, Event, IInv, TypeOK, ChannelType
  <2>3. ASSUME NEW i \in DOMAIN accepted PROVE accepted[i] # tracked + 1
    <3>1. i \in 1..Len(accepted) /\ accepted[i] \in Nat
      BY <2>2, ElementOfSeq, QueueAssumption DEF Event
    <3> QED BY <2>2, <3>1 DEF Numbered
  <2>4. accepted' = Append(accepted, tracked + 1)
    BY <1>2 DEF TrackAccepted
  <2> QED BY <1>1, <2>1, <2>2, <2>3, <2>4, Mapping
<1>3. CASE ~TrackAccepted
  BY <1>1, <1>3, Mapping DEF Track, TrackDropped, TrackPanics
<1> QED BY <1>2, <1>3

\* An outcome for the subscriber in turn is the abstract offer to it.
LEMMA SettleMaps ==
  ASSUME IInv, Delivering, NEW o \in Outcome, Settle(o),
         UNCHANGED <<accepted, closer, chanClosed>>, NEW s \in Subs, s = turn
  PROVE  Delivery!Offer(s)
<1> DEFINE res == [event |-> current, outcome |-> o]
           h == handled[turn]
<1>1. /\ turn \in Subs /\ Received > 0 /\ Received <= Len(accepted)
      /\ current = accepted[Received] /\ Received \in Nat
  BY DEF IInv, DeliverInv, ChannelInv, Received, TypeOK, ChannelType
<1>2. /\ handled \in [Subs -> Seq(Result)] /\ h \in Seq(Result)
      /\ res \in Result
  BY <1>1 DEF IInv, TypeOK, HandledType, WorkerType, Delivering, Result
<1>3. handled' = [handled EXCEPT ![turn] = Append(h, res)]
  BY DEF Settle
<1>4. Len(h) = Received - 1
  BY <1>1 DEF IInv, ExactlyOnceInOrder, OfferedTo, Delivering, Subs
<1> HIDE DEF h, res
<1>5. /\ EventsOf(Append(h, res)) = Append(EventsOf(h), res.event)
      /\ Len(EventsOf(h)) = Received - 1
  BY <1>2, <1>4, EventsOfAppend, EventsOfRecord
<1>6. res.event = accepted[(Received - 1) + 1]
  BY <1>1 DEF res
<1>7. Offered[turn] = EventsOf(h)
  BY <1>1 DEF Offered, h
<1>8. Offered' = [Offered EXCEPT ![turn] = Append(EventsOf(h), res.event)]
  BY <1>2, <1>3, <1>5 DEF Offered
<1>9. Len(Offered[turn]) < Len(accepted)
  <2>1. Len(accepted) \in Nat
    BY DEF IInv, TypeOK, ChannelType
  <2> QED BY <1>1, <1>5, <1>7, <2>1
<1>10. Offered' = [Offered EXCEPT ![turn] = Append(@, accepted[Len(@) + 1])]
  BY <1>5, <1>6, <1>7, <1>8
<1>11. Phase' = Phase
  BY SamePhase
<1> QED BY <1>9, <1>10, <1>11, Mapping

LEMMA WorkerMaps ==
  ASSUME IInv, Worker
  PROVE  (\E s \in Subs : Delivery!Offer(s)) \/ UNCHANGED Delivery!vars
<1>1. UNCHANGED <<accepted, closer, chanClosed>>
  BY DEF Worker, Receive, Skip, BeginSend, SendSucceeds, SendFails, ResetIfNeeded,
         Exit, trackVars, closeVars
<1>2. ASSUME NEW o \in Outcome, Settle(o), Delivering
      PROVE  \E s \in Subs : Delivery!Offer(s)
  <2>1. turn \in Subs
    BY <1>2 DEF IInv, DeliverInv
  <2>2. PICK s \in Subs : s = turn
    BY <2>1
  <2> QED BY <1>1, <1>2, <2>2, SettleMaps
<1>3. CASE Skip \/ SendSucceeds \/ SendFails
  BY <1>2, <1>3 DEF Skip, SendSucceeds, SendFails, Delivering, Outcome
<1>4. CASE Receive \/ BeginSend \/ ResetIfNeeded \/ Exit
  BY <1>1, <1>4, SamePhase, SameOffered, Mapping
     DEF Receive, BeginSend, ResetIfNeeded, Exit
<1> QED BY <1>3, <1>4 DEF Worker

LEMMA ShutdownMaps ==
  ASSUME IInv, IInv', NEW c \in Closers, Shutdown(c)
  PROVE  Delivery!Seal \/ Delivery!Drained \/ UNCHANGED Delivery!vars
<1>1. accepted' = accepted /\ Offered' = Offered
  BY SameOffered DEF Shutdown, Proceed, CallShutdown, CloseEvents, StopTicker,
     AwaitWorker, CloseSubscriber, trackVars
<1>2. closer \in [Closers -> CloserState] /\ CloseInv /\ CloseInv'
  BY DEF IInv, TypeOK, CloserType
<1>3. CASE CloseEvents(c)
  <2>1. ~chanClosed /\ chanClosed' /\ closer' = [closer EXCEPT ![c] = "stopping"]
    BY <1>2, <1>3 DEF CloseEvents, CloseInv
  <2>2. Phase = "open"
    BY <1>2, <2>1, Phases
  <2>3. \A d \in Closers : closer'[d] # "drained"
    BY <1>2, <2>1 DEF CloseInv, Winner
  <2>4. Phase' = "sealed"
    BY <2>1, <2>3 DEF Phase
  <2> QED BY <1>1, <2>2, <2>4, Mapping
<1>4. CASE CloseSubscriber(c) /\ subsClosed + 1 = NumSubs
  <2>1. /\ closer[c] = "closingSubs" /\ closer' = [closer EXCEPT ![c] = "drained"]
    BY <1>4 DEF CloseSubscriber
  <2>2. /\ chanClosed /\ worker = "exited" /\ buf = <<>>
        /\ \A d \in Closers : closer[d] # "drained"
    BY <1>2, <2>1 DEF CloseInv, Winner
  <2>3. Phase = "sealed" /\ Phase' = "drained"
    BY <1>2, <2>1, <2>2 DEF Phase
  <2>4. ASSUME NEW s \in Subs PROVE Len(Offered[s]) = Len(accepted)
    <3>1. handled[s] \in Seq(Result)
      BY DEF IInv, TypeOK, HandledType, Result
    <3>2. Len(handled[s]) = Len(accepted)
      BY <2>2 DEF IInv, ExactlyOnceInOrder, OfferedTo, Received, TypeOK, ChannelType
    <3> QED BY <3>1, <3>2, EventsOfRecord DEF Offered
  <2> QED BY <1>1, <2>3, <2>4, Mapping
<1>5. CASE CallShutdown(c) \/ StopTicker(c) \/ AwaitWorker(c)
             \/ (CloseSubscriber(c) /\ subsClosed + 1 # NumSubs)
  <2>1. /\ chanClosed' = chanClosed
        /\ closer[c] # "drained" /\ closer'[c] # "drained"
        /\ \A d \in Closers : d # c => closer'[d] = closer[d]
    BY <1>2, <1>5 DEF CallShutdown, StopTicker, AwaitWorker, CloseSubscriber
  <2>2. Phase' = Phase
    BY <2>1 DEF Phase
  <2> QED BY <1>1, <2>2, Mapping
<1> QED BY <1>3, <1>4, <1>5 DEF Shutdown, Proceed

\* The queue does nothing that EventDelivery does not allow, for any subscribers,
\* callers, capacity and back-off: no accepted event is lost, repeated or
\* reordered for any subscriber, nothing is accepted once the channel is closed,
\* and a Shutdown that closed it returns only when all has been offered.
THEOREM Refinement == Spec => Delivery!Safety
<1>1. Init => Delivery!Init
  BY DEF Init, Delivery!Init, Delivery!Subs, Subs
<1>2. IInv /\ IInv' /\ Numbered /\ [Next]_vars => [Delivery!Next]_(Delivery!vars)
  <2> SUFFICES ASSUME IInv, IInv', Numbered, [Next]_vars
               PROVE  Delivery!Next \/ UNCHANGED Delivery!vars
    OBVIOUS
  <2>1. CASE Track
    BY <2>1, TrackMaps DEF Delivery!Next
  <2>2. CASE Worker
    BY <2>2, WorkerMaps DEF Delivery!Next, Delivery!Subs, Subs
  <2>3. CASE \E c \in Closers : Shutdown(c)
    BY <2>3, ShutdownMaps DEF Delivery!Next
  <2>4. CASE TickerFires \/ TimePasses \/ Finished \/ UNCHANGED vars
    <3>1. UNCHANGED <<accepted, handled, closer, chanClosed>>
      BY <2>4 DEF TickerFires, TimePasses, Finished, vars, trackVars, closeVars
    <3> QED BY <3>1, SamePhase, SameOffered, Mapping
  <2> QED BY <2>1, <2>2, <2>3, <2>4 DEF Next
<1>3. Init => Numbered
  BY DEF Init, Numbered
<1>4. IInv /\ Numbered /\ [Next]_vars => Numbered'
  BY NumberedStep DEF IInv
<1> QED BY <1>1, <1>2, <1>3, <1>4, Invariance, PTL DEF Spec, Delivery!Safety
=============================================================================

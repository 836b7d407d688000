---------------------------- MODULE HTTPRequests ----------------------------
(***************************************************************************)
(* A request on its way through services that use middleware.HTTPMiddleware *)
(* and middleware.NewHTTPClient (middleware/http.go, httpclient.go), with   *)
(* the correlation ID of correlationid.go.  Service 1 is called from        *)
(* outside; each handler may call the next service, more than once when a   *)
(* call fails or is redirected, and from several goroutines, on the same    *)
(* *http.Request.                                                           *)
(*                                                                          *)
(* A caller and the handlers it reached share the headers and nothing else. *)
(* RoundTrip returns at the response headers, or by a timeout, a cancelled  *)
(* context or a lost connection, while the handler runs on; so a retry may  *)
(* overlap it, or even come first.  The base transport and the network may  *)
(* deliver one attempt twice.                                               *)
(***************************************************************************)
EXTENDS Integers, Sequences

CONSTANTS Depth,       \* the services, 1..Depth
          Statuses,    \* what a handler may answer with
          Settings,    \* how it may set a correlation ID: <<store, inBaggage>>
          MaxSpans,    \* bounds: the spans started,
          MaxTrips,    \* the calls made
          MaxHandlers  \* and the requests served

ASSUME HTTPAssumption ==
    /\ Depth \in Nat \ {0} /\ Statuses \subseteq 100..599
    /\ Settings \subseteq (BOOLEAN \X BOOLEAN) \ {<<FALSE, FALSE>>}

VARIABLES
    spans,      \* every span started, in order; a span's ID is its place
    trips,      \* every RoundTrip, with the headers it sent; and as history the
                \* correlation ID its caller resolves, and whether the caller
                \* keeps one to itself
    handlers    \* every request served: the context it is served in, the status
                \* its caller has been sent, and whether it is running

httpVars == <<spans, trips, handlers>>

\* Definitions named Faulty... are variants that no action uses: each breaks a
\* property when it takes the place of the definition it stands beside.

Services == 1..Depth
NoSpan == 0
NoTrip == 0
NoReply == 0
NoID == <<>>

\* What a context.Context holds: the current span, which may be a remote one,
\* the correlation ID stored in it and the one in its baggage.
EmptyContext == [span |-> NoSpan, id |-> NoID, baggage |-> NoID]

HTTPInit == spans = <<>> /\ trips = <<>> /\ handlers = <<>>
-----------------------------------------------------------------------------
(* correlationid.go.  IDs: a trace's is named for its root span. *)

TraceOf(span) == spans[span].trace

\* GetCorrelationID.
GetCorrelationID(ctx) ==
    IF ctx.id # NoID THEN ctx.id
    ELSE IF ctx.baggage # NoID THEN ctx.baggage
    ELSE IF ctx.span # NoSpan THEN <<"trace", TraceOf(ctx.span)>> ELSE NoID

GetOrCreateCorrelationID(ctx, h) ==
    IF GetCorrelationID(ctx) # NoID THEN GetCorrelationID(ctx) ELSE <<"generated", h>>

\* SetCorrelationID, and SetCorrelationIDInBaggage when it is not stored.  A
\* baggage that refuses the value leaves what was set so far.
FaultyWithCorrelationID(ctx, id, store, inBaggage) ==
    IF store THEN [ctx EXCEPT !.id = id] ELSE ctx
WithCorrelationID(ctx, id, store, inBaggage) ==
    [ctx EXCEPT !.id = IF store THEN id ELSE @,
                !.baggage = IF inBaggage THEN id ELSE @]
-----------------------------------------------------------------------------
(* Spans. *)

Started(kind, service, parent) ==
    Append(spans, [kind |-> kind, service |-> service, parent |-> parent,
                   trace |-> IF parent = NoSpan THEN Len(spans) + 1 ELSE TraceOf(parent),
                   status |-> "unset", ended |-> FALSE])

Outcome(failed) == IF failed THEN "error" ELSE "unset"

Ended(span, status) ==
    IF span = NoSpan THEN spans
    ELSE [spans EXCEPT ![span].ended = TRUE, ![span].status = status]

\* propagator.Inject: what the headers of an outbound request say.
Inject(ctx) == [span |-> ctx.span, baggage |-> ctx.baggage]
-----------------------------------------------------------------------------
(* otelhttp and instrumented. *)

\* The context a handler runs in.  A path to skip is handed on as it came, its
\* headers unread.
Serve(service, trip, headers, skipped) ==
    /\ Len(handlers) < MaxHandlers /\ (skipped \/ Len(spans) < MaxSpans)
    /\ spans' = IF skipped THEN spans ELSE Started("server", service, headers.span)
    /\ handlers' = Append(handlers,
         [service |-> service, trip |-> trip,
          ctx |-> IF skipped THEN EmptyContext
                  ELSE [span |-> Len(spans) + 1, id |-> NoID, baggage |-> headers.baggage],
          kept |-> FALSE, reply |-> NoReply, running |-> TRUE])
    /\ UNCHANGED trips

\* A call from outside, without headers.
Receive(skipped) ==
    /\ handlers = <<>>
    /\ Serve(1, NoTrip, Inject(EmptyContext), skipped)

\* A request reaches the next service, whatever has become of the call by then.
Arrives(t, skipped) ==
    Serve(handlers[trips[t].from].service + 1, t, trips[t].headers, skipped)

SetCorrelationID(h, store, inBaggage) ==
    /\ handlers[h].running
    /\ LET id == GetOrCreateCorrelationID(handlers[h].ctx, h)
       IN  handlers' = [handlers EXCEPT
             ![h].ctx = WithCorrelationID(@, id, store, inBaggage),
             ![h].kept = ~inBaggage /\ (@ \/ store)]
    /\ UNCHANGED <<spans, trips>>

\* The response headers go out: at a flush, or just before the handler returns.
SendsHeaders(h, status) ==
    /\ handlers[h].running /\ handlers[h].reply = NoReply
    /\ handlers' = [handlers EXCEPT ![h].reply = status]
    /\ UNCHANGED <<spans, trips>>

\* The handler returns or panics: the deferred function of instrumented, and the
\* end of otelhttp's span, for which a status from 500 on is an error.
Finish(h, panics) ==
    /\ handlers[h].running /\ (panics \/ handlers[h].reply # NoReply)
    /\ handlers' = [handlers EXCEPT ![h].running = FALSE]
    /\ spans' = Ended(handlers[h].ctx.span, Outcome(panics \/ handlers[h].reply >= 500))
    /\ UNCHANGED trips
-----------------------------------------------------------------------------
(* RoundTrip of the traced transport. *)

\* The context of the outbound clone: the request's own without spans, and that
\* of the attempt's span otherwise.
FaultyOutboundContext(ctx, attempt) == ctx   \* injects before it starts the span
OutboundContext(ctx, attempt) ==
    IF attempt = NoSpan THEN ctx ELSE [ctx EXCEPT !.span = attempt]

RoundTrip(h, withSpans) ==
    /\ handlers[h].running /\ handlers[h].service < Depth
    /\ Len(trips) < MaxTrips /\ (withSpans => Len(spans) < MaxSpans)
    /\ LET ctx == handlers[h].ctx
           attempt == IF withSpans THEN Len(spans) + 1 ELSE NoSpan
       IN  /\ spans' = IF withSpans THEN Started("client", handlers[h].service, ctx.span)
                       ELSE spans
           /\ trips' = Append(trips,
                [from |-> h, attempt |-> attempt, waiting |-> TRUE,
                 headers |-> Inject(OutboundContext(ctx, attempt)),
                 callerID |-> GetCorrelationID(ctx), kept |-> handlers[h].kept])
    /\ UNCHANGED handlers

FaultyAttemptFailed(error, status) == error   \* forgets the answer's status
AttemptFailed(error, status) == error \/ status >= 400

\* RoundTrip returns, and its span ends.
TripReturns(t, error, status) ==
    /\ trips[t].waiting
    /\ trips' = [trips EXCEPT ![t].waiting = FALSE]
    /\ spans' = Ended(trips[t].attempt, Outcome(AttemptFailed(error, status)))
    /\ UNCHANGED handlers

\* With an error: the client's timeout, its context, or the connection, wherever
\* the request is.
GivesUp(t) == TripReturns(t, TRUE, 0)

\* With a response, whose headers a handler has sent.
Answered(t) ==
    \E h \in DOMAIN handlers :
      /\ handlers[h].trip = t /\ handlers[h].reply # NoReply
      /\ TripReturns(t, FALSE, handlers[h].reply)

HTTPNext ==
    \/ \E skipped \in BOOLEAN : Receive(skipped)
    \/ \E h \in DOMAIN handlers :
         \/ \E setting \in Settings : SetCorrelationID(h, setting[1], setting[2])
         \/ \E withSpans \in BOOLEAN : RoundTrip(h, withSpans)
         \/ \E status \in Statuses : SendsHeaders(h, status)
         \/ \E panics \in BOOLEAN : Finish(h, panics)
    \/ \E t \in DOMAIN trips :
         \/ \E skipped \in BOOLEAN : Arrives(t, skipped)
         \/ GivesUp(t) \/ Answered(t)

HTTPSpec == HTTPInit /\ [][HTTPNext]_httpVars
-----------------------------------------------------------------------------
HTTPTypeOK ==
    /\ \A i \in DOMAIN spans :
         /\ spans[i].kind \in {"server", "client"} /\ spans[i].service \in Services
         /\ spans[i].parent \in 0..(i - 1) /\ spans[i].trace \in 1..i
    /\ \A t \in DOMAIN trips : trips[t].from \in DOMAIN handlers
                               /\ trips[t].attempt \in 0..Len(spans)
    /\ \A h \in DOMAIN handlers : handlers[h].service \in Services
                                  /\ handlers[h].trip \in 0..Len(trips)

\* A server span, and the call it was made by.
Traced(h) == handlers[h].ctx.span # NoSpan
TripOf(h) == trips[handlers[h].trip]
Caller(h) == handlers[TripOf(h).from]

\* httpclient.go: "Clone onto the span context so the injected headers carry
\* this span": however retries, redirects and late handlers of attempts given up
\* overlap on one request, each attempt has a client span of its own under its
\* caller's, and a server span hangs under the attempt that brought it and no
\* other, or under its caller's span if there is none; in its caller's trace.
AttemptsAreDistinct ==
    /\ \A t, u \in DOMAIN trips :
         t # u /\ trips[t].attempt # NoSpan => trips[t].attempt # trips[u].attempt
    /\ \A h \in DOMAIN handlers : Traced(h) /\ handlers[h].trip # NoTrip =>
         LET own == spans[handlers[h].ctx.span]
             parent == IF TripOf(h).attempt # NoSpan THEN TripOf(h).attempt ELSE Caller(h).ctx.span
         IN  /\ own.parent = parent
             /\ parent # NoSpan => spans[parent].service = own.service - 1
             /\ TripOf(h).attempt # NoSpan =>
                  spans[parent].kind = "client" /\ spans[parent].parent = Caller(h).ctx.span
             /\ Caller(h).ctx.span # NoSpan => own.trace = TraceOf(Caller(h).ctx.span)

\* A span is open just while its handler runs or its call is waited for, in
\* whatever order the two end; and a call looks well only if a handler it reached
\* answered below 400, so that a service that fails before it answers fails its
\* caller's attempt too, while one that fails later does not.
SpansEndWithTheirCalls ==
    /\ \A i \in DOMAIN spans :
         ~spans[i].ended <=>
           \/ \E h \in DOMAIN handlers : handlers[h].running /\ handlers[h].ctx.span = i
           \/ \E t \in DOMAIN trips : trips[t].waiting /\ trips[t].attempt = i
    /\ \A t \in DOMAIN trips :
         (~trips[t].waiting /\ trips[t].attempt # NoSpan
            /\ spans[trips[t].attempt].status # "error")
           => \E h \in DOMAIN handlers :
                handlers[h].trip = t /\ handlers[h].reply # NoReply /\ handlers[h].reply < 400

\* correlationid.go: "a stable join key across events, logs, and spans": a service
\* resolves the ID its caller had when it called, from baggage or else from the
\* trace, unless the caller kept it out of its baggage or the service read no
\* headers; however late it is served, and whatever its caller does since.
CorrelationJoins ==
    \A h \in DOMAIN handlers :
      (Traced(h) /\ handlers[h].trip # NoTrip /\ TripOf(h).callerID # NoID /\ ~TripOf(h).kept)
        => GetCorrelationID(handlers[h].ctx) = TripOf(h).callerID
=============================================================================

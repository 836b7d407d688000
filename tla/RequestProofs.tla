--------------------------- MODULE RequestProofs ---------------------------
(* What the runs of MCRequests check of HTTP requests, of the request logger, *)
(* of traced calls, of baggage and of the configuration, for any number of    *)
(* services, spans, goroutines, calls and values, and whatever sources say.   *)
(*                                                                            *)
(* A request.  AttemptsAreDistinct, SpansEndWithTheirCalls and                *)
(* CorrelationJoins speak of spans and of neighbouring services.  HTTPInv     *)
(* adds that a call's and a handler's place in the chain is fixed once it is  *)
(* made: the span each has to itself, and what the headers between them said, *)
(* however late they are read and whatever has become of the call by then.    *)
(*                                                                            *)
(* The logger.  LoggerInv adds to OneRecord that no record is on the span     *)
(* before one is sealed, so that fields may still change; an error's          *)
(* attributes change the span and no record.                                  *)
(*                                                                            *)
(* Traced calls.  CallsAreTold speaks of calls that are over.  CallsInv adds  *)
(* what is true of those under way, and that a last result that cannot be nil *)
(* leaves a function of TraceFunc and no other.                               *)
(*                                                                            *)
(* Baggage.  GuardrailsHold speaks of what spans and contexts carry.          *)
(* BaggageInv adds what a call has yet to store: past the check it is         *)
(* counted, and in the form its field is sent in.                             *)
(*                                                                            *)
(* Configuration.  HighestSourceWins and TLSIsKept speak of what Init ends    *)
(* with.  ConfigInv says that what is settled so far is what the layers make  *)
(* of the sources, and that the program's Config holds its last options.      *)
EXTENDS HTTPRequests, RequestLogger, TracedCalls, BaggageLimits, Configuration,
        SequenceTheorems, FiniteSetTheorems, TLAPS

(***************************************************************************)
(* HTTPRequests.  What is fixed once it is made: the trips' and handlers'  *)
(* places in the chain of calls, the span each has to itself, and that     *)
(* every span is somebody's.  What changes: which spans are open, what a   *)
(* call's answer was, and the IDs in a handler's context.                  *)
(***************************************************************************)

IDs == {NoID} \cup ({"trace"} \X Nat) \cup ({"generated"} \X Nat)
Contexts == [span : Nat, id : IDs, baggage : IDs]
SpanRecords ==
    [kind : {"server", "client"}, service : Services, parent : Nat, trace : Nat,
     status : {"unset", "error"}, ended : BOOLEAN]
TripRecords ==
    [from : Nat, attempt : Nat, waiting : BOOLEAN,
     headers : [span : Nat, baggage : IDs], callerID : IDs, kept : BOOLEAN]
HandlerRecords ==
    [service : Services, trip : Nat, ctx : Contexts, kept : BOOLEAN, reply : Nat,
     running : BOOLEAN]

HTTPType == /\ spans \in Seq(SpanRecords)
            /\ trips \in Seq(TripRecords)
            /\ handlers \in Seq(HandlerRecords)

AllSpans == 1..Len(spans)
AllTrips == 1..Len(trips)
AllHandlers == 1..Len(handlers)

From(t) == handlers[trips[t].from]

\* A trip was made by a handler that has a next service to call.  Its headers
\* name the attempt's span, or the caller's, in the caller's trace; and carry
\* the ID the caller resolves, unless that follows from the trace.
TripPlaced(t) ==
    LET attempt == trips[t].attempt
        own == From(t).ctx.span
        sent == trips[t].headers
    IN  /\ trips[t].from \in AllHandlers /\ From(t).service + 1 \in Services
        /\ sent.span = IF attempt # NoSpan THEN attempt ELSE own
        /\ attempt # NoSpan =>
             /\ attempt \in AllSpans /\ spans[attempt].kind = "client"
             /\ spans[attempt].service = From(t).service /\ spans[attempt].parent = own
             /\ own # NoSpan => spans[attempt].trace = spans[own].trace
        /\ trips[t].callerID # NoID /\ ~trips[t].kept =>
             \/ sent.baggage = trips[t].callerID
             \/ /\ sent.baggage = NoID /\ sent.span # NoSpan
                /\ trips[t].callerID = <<"trace", spans[sent.span].trace>>

\* A handler serves the service its trip was for, in a span under the one the
\* headers named.
HandlerPlaced(h) ==
    LET own == handlers[h].ctx.span
        t == handlers[h].trip
    IN  /\ t \in 0..Len(trips)
        /\ own # NoSpan =>
             /\ own \in AllSpans /\ spans[own].kind = "server"
             /\ spans[own].service = handlers[h].service
        /\ t # NoTrip => handlers[h].service = From(t).service + 1
        /\ t # NoTrip /\ own # NoSpan =>
             /\ spans[own].parent = trips[t].headers.span
             /\ spans[own].parent # NoSpan =>
                  spans[own].trace = spans[spans[own].parent].trace

\* Nobody shares a span, and every span is somebody's.
Owned ==
    /\ \A t, u \in AllTrips :
         t # u /\ trips[t].attempt # NoSpan => trips[t].attempt # trips[u].attempt
    /\ \A i \in AllSpans : \/ \E h \in AllHandlers : handlers[h].ctx.span = i
                           \/ \E t \in AllTrips : trips[t].attempt = i
OwnSpans ==
    \A h, g \in AllHandlers :
      h # g /\ handlers[h].ctx.span # NoSpan => handlers[h].ctx.span # handlers[g].ctx.span

Placed == /\ \A t \in AllTrips : TripPlaced(t)
          /\ \A h \in AllHandlers : HandlerPlaced(h)
          /\ Owned /\ OwnSpans

\* A span is open while its handler runs or its trip waits.
OpenWhile ==
    /\ \A h \in AllHandlers : handlers[h].ctx.span # NoSpan =>
         (spans[handlers[h].ctx.span].ended <=> ~handlers[h].running)
    /\ \A t \in AllTrips : trips[t].attempt # NoSpan =>
         (spans[trips[t].attempt].ended <=> ~trips[t].waiting)

AnsweredWell(t) ==
    \E h \in AllHandlers :
      handlers[h].trip = t /\ handlers[h].reply # NoReply /\ handlers[h].reply < 400

LooksWell ==
    \A t \in AllTrips :
      ~trips[t].waiting /\ trips[t].attempt # NoSpan
        /\ spans[trips[t].attempt].status # "error" => AnsweredWell(t)

\* What a handler sets and does not keep is in its baggage; and it resolves what
\* its caller did.
JoinsAt(h) ==
    /\ ~handlers[h].kept => \/ handlers[h].ctx.id = NoID
                            \/ handlers[h].ctx.baggage = handlers[h].ctx.id
    /\ handlers[h].ctx.span # NoSpan /\ handlers[h].trip # NoTrip
         /\ trips[handlers[h].trip].callerID # NoID /\ ~trips[handlers[h].trip].kept
         => GetCorrelationID(handlers[h].ctx) = trips[handlers[h].trip].callerID
Joins == \A h \in AllHandlers : JoinsAt(h)

HTTPInv == HTTPType /\ Placed /\ OpenWhile /\ LooksWell /\ Joins
-----------------------------------------------------------------------------
(* What a step leaves as it was. *)

SameSpan(old, new) ==
    /\ new.kind = old.kind /\ new.service = old.service
    /\ new.parent = old.parent /\ new.trace = old.trace
SameTrip(old, new) ==
    /\ new.from = old.from /\ new.attempt = old.attempt /\ new.headers = old.headers
    /\ new.callerID = old.callerID /\ new.kept = old.kept
SameHandler(old, new) ==
    /\ new.service = old.service /\ new.trip = old.trip /\ new.ctx.span = old.ctx.span
    /\ old.reply # NoReply => new.reply = old.reply

Grows == /\ HTTPType'
         /\ Len(spans) <= Len(spans') /\ Len(trips) <= Len(trips')
         /\ Len(handlers) <= Len(handlers')
         /\ \A i \in AllSpans : SameSpan(spans[i], spans'[i])
         /\ \A t \in AllTrips : SameTrip(trips[t], trips'[t])
         /\ \A h \in AllHandlers : SameHandler(handlers[h], handlers'[h])

LEMMA TypeFacts ==
  ASSUME HTTPType
  PROVE  /\ Len(spans) \in Nat /\ Len(trips) \in Nat /\ Len(handlers) \in Nat
         /\ DOMAIN spans = AllSpans /\ DOMAIN trips = AllTrips
         /\ DOMAIN handlers = AllHandlers
         /\ \A i \in AllSpans : /\ spans[i] \in SpanRecords
                                /\ spans[i].trace \in Nat /\ spans[i].parent \in Nat
         /\ \A t \in AllTrips :
              /\ trips[t] \in TripRecords /\ trips[t].from \in Nat /\ trips[t].attempt \in Nat
              /\ trips[t].headers.span \in Nat /\ trips[t].headers.baggage \in IDs
         /\ \A h \in AllHandlers :
              /\ handlers[h] \in HandlerRecords /\ handlers[h].trip \in Nat
              /\ handlers[h].ctx \in Contexts /\ handlers[h].ctx.span \in Nat
              /\ handlers[h].ctx.id \in IDs /\ handlers[h].ctx.baggage \in IDs
              /\ handlers[h].service \in Services /\ handlers[h].reply \in Nat
              /\ handlers[h].kept \in BOOLEAN /\ handlers[h].running \in BOOLEAN
<1>1. /\ Len(spans) \in Nat /\ Len(trips) \in Nat /\ Len(handlers) \in Nat
      /\ DOMAIN spans = AllSpans /\ DOMAIN trips = AllTrips /\ DOMAIN handlers = AllHandlers
  BY DEF HTTPType, AllSpans, AllTrips, AllHandlers
<1>2. \A i \in AllSpans : spans[i] \in SpanRecords
  BY ElementOfSeq DEF HTTPType, AllSpans
<1>3. \A t \in AllTrips : trips[t] \in TripRecords
  BY ElementOfSeq DEF HTTPType, AllTrips
<1>4. \A h \in AllHandlers : handlers[h] \in HandlerRecords
  BY ElementOfSeq DEF HTTPType, AllHandlers
<1> QED BY <1>1, <1>2, <1>3, <1>4 DEF SpanRecords, TripRecords, HandlerRecords, Contexts

\* What is placed stays so.
LEMMA PlacesStay ==
  ASSUME HTTPInv, Grows
  PROVE  /\ \A t \in AllTrips : TripPlaced(t)'
         /\ \A h \in AllHandlers : HandlerPlaced(h)'
         /\ AllSpans \subseteq AllSpans' /\ AllTrips \subseteq AllTrips'
         /\ AllHandlers \subseteq AllHandlers'
<1>1. /\ Len(spans) \in Nat /\ Len(trips) \in Nat /\ Len(handlers) \in Nat
      /\ Len(spans') \in Nat /\ Len(trips') \in Nat /\ Len(handlers') \in Nat
  BY TypeFacts DEF HTTPInv, Grows, HTTPType
<1>2. /\ AllSpans \subseteq AllSpans' /\ AllTrips \subseteq AllTrips'
      /\ AllHandlers \subseteq AllHandlers'
  BY <1>1 DEF Grows, AllSpans, AllTrips, AllHandlers
<1>3. \A t \in AllTrips : trips[t].from \in AllHandlers /\ trips[t].attempt \in 0..Len(spans)
                          /\ trips[t].headers.span \in 0..Len(spans)
  <2> SUFFICES ASSUME NEW t \in AllTrips
               PROVE  trips[t].from \in AllHandlers /\ trips[t].attempt \in 0..Len(spans)
                      /\ trips[t].headers.span \in 0..Len(spans)
    OBVIOUS
  <2>1. TripPlaced(t) /\ trips[t].attempt \in Nat /\ trips[t].from \in AllHandlers
    BY TypeFacts DEF HTTPInv, Placed, TripPlaced
  <2>2. HandlerPlaced(trips[t].from) /\ From(t).ctx.span \in Nat
    BY <2>1, TypeFacts DEF HTTPInv, Placed, From
  <2>3. From(t).ctx.span \in 0..Len(spans)
    BY <1>1, <2>2 DEF HandlerPlaced, From, AllSpans, NoSpan
  <2> QED BY <1>1, <2>1, <2>3 DEF TripPlaced, AllSpans, NoSpan
<1>4. ASSUME NEW h \in AllHandlers
      PROVE  handlers[h].ctx.span \in 0..Len(spans) /\ handlers[h].trip \in 0..Len(trips)
  <2>1. HandlerPlaced(h) /\ handlers[h].ctx.span \in Nat
    BY TypeFacts DEF HTTPInv, Placed
  <2> QED BY <1>1, <2>1 DEF HandlerPlaced, AllSpans, NoSpan
<1>5. ASSUME NEW t \in AllTrips PROVE TripPlaced(t)'
  <2>1. TripPlaced(t) /\ trips[t].from \in AllHandlers
    BY <1>3 DEF HTTPInv, Placed
  <2>2. /\ SameTrip(trips[t], trips'[t]) /\ SameHandler(From(t), handlers'[trips[t].from])
        /\ From(t)' = handlers'[trips[t].from]
    BY <2>1 DEF Grows, From, SameTrip
  <2>3. \A i \in 0..Len(spans) : i # NoSpan => SameSpan(spans[i], spans'[i])
    BY <1>1 DEF Grows, AllSpans, NoSpan
  <2>4. From(t).ctx.span \in 0..Len(spans)
    BY <1>4, <2>1 DEF From
  <2> QED BY <1>1, <1>2, <1>3, <2>1, <2>2, <2>3, <2>4
          DEF TripPlaced, SameTrip, SameHandler, SameSpan
<1>6. ASSUME NEW h \in AllHandlers PROVE HandlerPlaced(h)'
  <2>1. HandlerPlaced(h) /\ SameHandler(handlers[h], handlers'[h])
    BY DEF HTTPInv, Placed, Grows
  <2>2. \A i \in 0..Len(spans) : i # NoSpan => SameSpan(spans[i], spans'[i])
    BY <1>1 DEF Grows, AllSpans, NoSpan
  <2>3. handlers[h].trip # NoTrip =>
          /\ handlers[h].trip \in AllTrips
          /\ SameTrip(trips[handlers[h].trip], trips'[handlers[h].trip])
          /\ From(handlers[h].trip)'.service = From(handlers[h].trip).service
    <3> SUFFICES ASSUME handlers[h].trip # NoTrip
                 PROVE  /\ handlers[h].trip \in AllTrips
                        /\ SameTrip(trips[handlers[h].trip], trips'[handlers[h].trip])
                        /\ From(handlers[h].trip)'.service = From(handlers[h].trip).service
      OBVIOUS
    <3>1. handlers[h].trip \in AllTrips /\ handlers'[h].trip = handlers[h].trip
      BY <1>1, <1>4, <2>1 DEF AllTrips, NoTrip, SameHandler
    <3>2. SameTrip(trips[handlers[h].trip], trips'[handlers[h].trip])
      BY <3>1 DEF Grows
    <3>3. SameHandler(From(handlers[h].trip), handlers'[trips[handlers[h].trip].from])
      BY <1>3, <3>1 DEF Grows, From
    <3> QED BY <3>1, <3>2, <3>3 DEF From, SameTrip, SameHandler
  <2>4. handlers[h].ctx.span # NoSpan => handlers[h].ctx.span \in AllSpans
    BY <2>1 DEF HandlerPlaced
  <2>5. handlers[h].ctx.span # NoSpan /\ handlers[h].trip # NoTrip =>
          spans[handlers[h].ctx.span].parent \in 0..Len(spans)
    BY <1>3, <2>1, <2>3 DEF HandlerPlaced
  <2>6. /\ handlers'[h].ctx.span = handlers[h].ctx.span /\ handlers'[h].trip = handlers[h].trip
        /\ handlers'[h].service = handlers[h].service
    BY <2>1 DEF SameHandler
  <2>7. handlers'[h].trip \in 0..Len(trips')
    BY <1>1, <1>4, <2>6 DEF Grows
  <2>8. handlers'[h].ctx.span # NoSpan =>
          /\ handlers'[h].ctx.span \in AllSpans'
          /\ spans'[handlers'[h].ctx.span].kind = "server"
          /\ spans'[handlers'[h].ctx.span].service = handlers'[h].service
    BY <1>2, <2>1, <2>4, <2>6 DEF HandlerPlaced, Grows, SameSpan
  <2>9. handlers'[h].trip # NoTrip =>
          handlers'[h].service = From(handlers[h].trip)'.service + 1
    BY <2>1, <2>3, <2>6 DEF HandlerPlaced
  <2>10. handlers'[h].trip # NoTrip /\ handlers'[h].ctx.span # NoSpan =>
          LET own == handlers'[h].ctx.span
          IN  /\ spans'[own].parent = trips'[handlers'[h].trip].headers.span
              /\ spans'[own].parent # NoSpan =>
                   spans'[own].trace = spans'[spans'[own].parent].trace
    <3> SUFFICES ASSUME handlers[h].trip # NoTrip, handlers[h].ctx.span # NoSpan
                 PROVE  LET own == handlers[h].ctx.span
                        IN  /\ spans'[own].parent = trips'[handlers[h].trip].headers.span
                            /\ spans'[own].parent # NoSpan =>
                                 spans'[own].trace = spans'[spans'[own].parent].trace
      BY <2>6
    <3> DEFINE own == handlers[h].ctx.span
    <3>1. SameSpan(spans[own], spans'[own])
      BY <2>4 DEF Grows
    <3>2. spans[own].parent # NoSpan =>
            SameSpan(spans[spans[own].parent], spans'[spans[own].parent])
      BY <2>2, <2>5
    <3> QED BY <2>1, <2>3, <3>1, <3>2 DEF HandlerPlaced, SameSpan, SameTrip
  <2> QED BY <2>6, <2>7, <2>8, <2>9, <2>10 DEF HandlerPlaced
<1> QED BY <1>2, <1>5, <1>6

\* The spans a step starts and ends.
LEMMA StartedFacts ==
  ASSUME HTTPType, NEW kind \in {"server", "client"}, NEW service \in Services,
         NEW parent \in 0..Len(spans), spans' = Started(kind, service, parent)
  PROVE  /\ spans' \in Seq(SpanRecords) /\ Len(spans') = Len(spans) + 1
         /\ \A i \in AllSpans : spans'[i] = spans[i]
         /\ LET new == spans'[Len(spans) + 1]
            IN  /\ new.kind = kind /\ new.service = service /\ new.parent = parent
                /\ new.trace = IF parent = NoSpan THEN Len(spans) + 1 ELSE spans[parent].trace
                /\ new.status = "unset" /\ new.ended = FALSE
<1> DEFINE new == [kind |-> kind, service |-> service, parent |-> parent,
                   trace |-> IF parent = NoSpan THEN Len(spans) + 1 ELSE TraceOf(parent),
                   status |-> "unset", ended |-> FALSE]
<1>1. Len(spans) \in Nat /\ (parent # NoSpan => TraceOf(parent) \in Nat)
  BY TypeFacts DEF AllSpans, NoSpan, TraceOf
<1>2. new \in SpanRecords
  BY <1>1 DEF SpanRecords
<1>3. spans' = Append(spans, new) /\ spans \in Seq(SpanRecords)
  BY DEF Started, HTTPType
<1> HIDE DEF new
<1>4. /\ spans' \in Seq(SpanRecords) /\ Len(spans') = Len(spans) + 1
      /\ \A i \in 1..Len(spans) : spans'[i] = spans[i]
      /\ spans'[Len(spans) + 1] = new
  BY <1>2, <1>3, AppendProperties
<1> QED BY <1>4 DEF new, AllSpans, TraceOf

LEMMA EndedFacts ==
  ASSUME HTTPType, NEW span \in 0..Len(spans), NEW status \in {"unset", "error"},
         spans' = Ended(span, status)
  PROVE  /\ spans' \in Seq(SpanRecords) /\ Len(spans') = Len(spans)
         /\ \A i \in AllSpans : SameSpan(spans[i], spans'[i])
         /\ \A i \in AllSpans : i # span => spans'[i] = spans[i]
         /\ span # NoSpan => spans'[span].ended = TRUE /\ spans'[span].status = status
<1>1. CASE span = NoSpan
  BY <1>1, TypeFacts DEF Ended, SameSpan, HTTPType
<1>2. CASE span # NoSpan
  <2>1. span \in AllSpans /\ DOMAIN spans = AllSpans /\ AllSpans = 1..Len(spans)
    BY <1>2, TypeFacts DEF AllSpans, NoSpan
  <2>2. spans[span] \in SpanRecords
    BY <2>1, TypeFacts
  <2> DEFINE new == [[spans[span] EXCEPT !.ended = TRUE] EXCEPT !.status = status]
  <2>3. /\ new \in SpanRecords /\ SameSpan(spans[span], new)
        /\ new.ended = TRUE /\ new.status = status
    BY <2>2 DEF SpanRecords, SameSpan
  <2>4. spans' = [spans EXCEPT ![span] = new]
    BY <1>2, <2>1, <2>2 DEF Ended, SpanRecords
  <2> HIDE DEF new
  <2>5. spans' \in Seq(SpanRecords) /\ Len(spans') = Len(spans) /\ spans'[span] = new
        /\ \A i \in AllSpans : i # span => spans'[i] = spans[i]
    BY <2>1, <2>3, <2>4, ExceptSeq DEF HTTPType
  <2> QED BY <1>2, <2>1, <2>3, <2>5 DEF SameSpan
<1> QED BY <1>1, <1>2

\* One step starts at most one span, for one new trip or handler.
LEMMA PlacedStays ==
  ASSUME HTTPInv, Grows,
         Len(trips') + Len(handlers') <= Len(trips) + Len(handlers) + 1,
         \A t \in AllTrips' \ AllTrips :
           TripPlaced(t)' /\ (trips'[t].attempt # NoSpan => trips'[t].attempt \notin AllSpans),
         \A h \in AllHandlers' \ AllHandlers :
           /\ HandlerPlaced(h)'
           /\ handlers'[h].ctx.span # NoSpan => handlers'[h].ctx.span \notin AllSpans,
         \A i \in AllSpans' \ AllSpans : \/ \E h \in AllHandlers' : handlers'[h].ctx.span = i
                                         \/ \E t \in AllTrips' : trips'[t].attempt = i
  PROVE  Placed'
<1>1. (\A t \in AllTrips' : TripPlaced(t)') /\ (\A h \in AllHandlers' : HandlerPlaced(h)')
  BY PlacesStay
<1>2. /\ Len(spans) \in Nat /\ Len(trips) \in Nat /\ Len(handlers) \in Nat
      /\ Len(spans') \in Nat /\ Len(trips') \in Nat /\ Len(handlers') \in Nat
  BY TypeFacts DEF HTTPInv, Grows, HTTPType
<1>3. /\ \A t, u \in AllTrips' \ AllTrips : t = u
      /\ \A h, g \in AllHandlers' \ AllHandlers : h = g
  BY <1>2 DEF Grows, AllTrips, AllHandlers
<1>4. /\ \A t \in AllTrips : trips'[t].attempt = trips[t].attempt
      /\ \A h \in AllHandlers : handlers'[h].ctx.span = handlers[h].ctx.span
  BY DEF Grows, SameTrip, SameHandler
<1>5. /\ \A t \in AllTrips : trips[t].attempt # NoSpan => trips[t].attempt \in AllSpans
      /\ \A h \in AllHandlers :
           handlers[h].ctx.span # NoSpan => handlers[h].ctx.span \in AllSpans
  BY DEF HTTPInv, Placed, TripPlaced, HandlerPlaced
<1>6. ASSUME NEW t \in AllTrips', NEW u \in AllTrips', t # u, trips'[t].attempt # NoSpan
      PROVE  trips'[t].attempt # trips'[u].attempt
  <2>1. trips'[u].attempt = NoSpan \/ trips'[u].attempt # NoSpan
    OBVIOUS
  <2>2. CASE t \in AllTrips /\ u \in AllTrips
    BY <1>4, <1>6, <2>2 DEF HTTPInv, Placed, Owned
  <2>3. CASE t \in AllTrips /\ u \notin AllTrips
    BY <1>4, <1>5, <1>6, <2>3
  <2>4. CASE t \notin AllTrips /\ u \in AllTrips
    BY <1>4, <1>5, <1>6, <2>4
  <2> QED BY <1>3, <1>6, <2>2, <2>3, <2>4
<1>7. ASSUME NEW h \in AllHandlers', NEW g \in AllHandlers', h # g,
             handlers'[h].ctx.span # NoSpan
      PROVE  handlers'[h].ctx.span # handlers'[g].ctx.span
  <2>1. CASE h \in AllHandlers /\ g \in AllHandlers
    BY <1>4, <1>7, <2>1 DEF HTTPInv, Placed, OwnSpans
  <2>2. CASE h \in AllHandlers /\ g \notin AllHandlers
    BY <1>4, <1>5, <1>7, <2>2
  <2>3. CASE h \notin AllHandlers /\ g \in AllHandlers
    BY <1>4, <1>5, <1>7, <2>3
  <2> QED BY <1>3, <1>7, <2>1, <2>2, <2>3
<1>8. ASSUME NEW i \in AllSpans'
      PROVE  \/ \E h \in AllHandlers' : handlers'[h].ctx.span = i
             \/ \E t \in AllTrips' : trips'[t].attempt = i
  <2>1. CASE i \in AllSpans
    <3>1. (\E h \in AllHandlers : handlers[h].ctx.span = i)
            \/ \E t \in AllTrips : trips[t].attempt = i
      BY <2>1 DEF HTTPInv, Placed, Owned
    <3> QED BY <1>4, <3>1, PlacesStay
  <2> QED BY <1>8, <2>1
<1> QED BY <1>1, <1>6, <1>7, <1>8 DEF Placed, Owned, OwnSpans

LEMMA AnsweredStays ==
  ASSUME HTTPInv, Grows, NEW t \in AllTrips, AnsweredWell(t)
  PROVE  AnsweredWell(t)'
<1>1. PICK h \in AllHandlers : handlers[h].trip = t /\ handlers[h].reply # NoReply
                               /\ handlers[h].reply < 400
  BY DEF AnsweredWell
<1>2. handlers'[h].trip = t /\ handlers'[h].reply = handlers[h].reply
  BY <1>1 DEF Grows, SameHandler
<1> QED BY <1>1, <1>2, PlacesStay DEF AnsweredWell

\* A handler whose context stays still resolves its caller's ID.
LEMMA JoinsStay ==
  ASSUME HTTPInv, Grows, NEW h \in AllHandlers,
         handlers'[h].ctx = handlers[h].ctx, handlers'[h].kept = handlers[h].kept
  PROVE  JoinsAt(h)'
<1>1. JoinsAt(h) /\ HandlerPlaced(h) /\ SameHandler(handlers[h], handlers'[h])
  BY DEF HTTPInv, Joins, Placed, Grows
<1>2. handlers[h].ctx.span # NoSpan =>
        spans'[handlers[h].ctx.span].trace = spans[handlers[h].ctx.span].trace
  BY <1>1 DEF HandlerPlaced, Grows, SameSpan
<1>3. handlers[h].trip # NoTrip =>
        SameTrip(trips[handlers[h].trip], trips'[handlers[h].trip])
  <2>1. handlers[h].trip # NoTrip => handlers[h].trip \in AllTrips
    BY <1>1, TypeFacts DEF HandlerPlaced, HTTPInv, AllTrips, NoTrip
  <2> QED BY <2>1 DEF Grows
<1>4. GetCorrelationID(handlers[h].ctx)' = GetCorrelationID(handlers[h].ctx)
  BY <1>2 DEF GetCorrelationID, TraceOf
<1> QED BY <1>1, <1>3, <1>4 DEF JoinsAt, SameHandler, SameTrip

\* A step that starts a handler.
LEMMA ServeKeeps ==
  ASSUME HTTPInv, NEW service \in Services, NEW trip \in 0..Len(trips), NEW headers,
         headers \in [span : 0..Len(spans), baggage : IDs], NEW skipped \in BOOLEAN,
         trip = NoTrip => headers.span = NoSpan,
         trip # NoTrip => headers = trips[trip].headers /\ service = From(trip).service + 1,
         Serve(service, trip, headers, skipped)
  PROVE  HTTPInv'
<1> SUFFICES ASSUME NEW n, n = Len(handlers) + 1, NEW ctx,
                    ctx = IF skipped THEN EmptyContext
                          ELSE [span |-> Len(spans) + 1, id |-> NoID,
                                baggage |-> headers.baggage]
             PROVE  HTTPInv'
  OBVIOUS
<1> DEFINE new == [service |-> service, trip |-> trip, ctx |-> ctx, kept |-> FALSE,
                   reply |-> NoReply, running |-> TRUE]
<1>1. /\ HTTPType /\ Len(spans) \in Nat /\ Len(trips) \in Nat /\ Len(handlers) \in Nat
      /\ headers.span \in 0..Len(spans) /\ headers.baggage \in IDs
  BY TypeFacts DEF HTTPInv
<1>2. /\ spans' \in Seq(SpanRecords)
      /\ \A i \in AllSpans : spans'[i] = spans[i]
      /\ skipped => spans' = spans
      /\ ~skipped => /\ Len(spans') = Len(spans) + 1
                     /\ LET own == spans'[Len(spans) + 1]
                        IN  /\ own.kind = "server" /\ own.service = service
                            /\ own.parent = headers.span /\ own.ended = FALSE
                            /\ own.trace = IF headers.span = NoSpan THEN Len(spans) + 1
                                           ELSE spans[headers.span].trace
  <2>1. CASE skipped
    BY <2>1, <1>1 DEF Serve, HTTPType
  <2>2. CASE ~skipped
    <3>1. spans' = Started("server", service, headers.span)
      BY <2>2 DEF Serve
    <3> QED BY <1>1, <2>2, <3>1, StartedFacts
  <2> QED BY <2>1, <2>2
<1>3. /\ ctx \in Contexts /\ ctx.id = NoID
      /\ ctx.span = IF skipped THEN NoSpan ELSE Len(spans) + 1
      /\ ~skipped => ctx.baggage = headers.baggage
  BY <1>1 DEF Contexts, EmptyContext, IDs, NoSpan
<1>4. handlers' = Append(handlers, new) /\ trips' = trips
  BY DEF Serve
<1>5. new \in HandlerRecords
  BY <1>1, <1>3 DEF HandlerRecords, NoReply
<1>6. /\ handlers' \in Seq(HandlerRecords) /\ Len(handlers') = n
      /\ \A h \in AllHandlers : handlers'[h] = handlers[h]
      /\ handlers'[n] = new
  BY <1>1, <1>4, <1>5, AppendProperties DEF HTTPType, AllHandlers
<1>7. /\ handlers'[n].service = service /\ handlers'[n].trip = trip /\ handlers'[n].ctx = ctx
      /\ handlers'[n].kept = FALSE /\ handlers'[n].running = TRUE
      /\ handlers'[n].reply = NoReply
  BY <1>6
<1> HIDE DEF new
<1>8. Grows
  <2>1. HTTPType' /\ Len(spans) <= Len(spans')
    BY <1>1, <1>2, <1>4, <1>6 DEF HTTPType
  <2>2. Len(trips) <= Len(trips') /\ Len(handlers) <= Len(handlers')
    BY <1>1, <1>4, <1>6
  <2> QED BY <1>2, <1>4, <1>6, <2>1, <2>2 DEF Grows, SameSpan, SameTrip, SameHandler
<1>9. /\ AllTrips' = AllTrips /\ AllHandlers' = AllHandlers \cup {n}
      /\ AllSpans' = IF skipped THEN AllSpans ELSE AllSpans \cup {Len(spans) + 1}
      /\ Len(spans) + 1 \notin AllSpans /\ Len(spans) + 1 # NoSpan
  <2>1. AllTrips' = AllTrips /\ AllHandlers' = AllHandlers \cup {n}
    BY <1>1, <1>4, <1>6 DEF AllTrips, AllHandlers
  <2>2. AllSpans' = IF skipped THEN AllSpans ELSE AllSpans \cup {Len(spans) + 1}
    <3>1. CASE skipped
      BY <1>2, <3>1 DEF AllSpans
    <3>2. CASE ~skipped
      BY <1>1, <1>2, <3>2 DEF AllSpans
    <3> QED BY <3>1, <3>2
  <2> QED BY <1>1, <2>1, <2>2 DEF AllSpans, NoSpan
<1>10. trip # NoTrip =>
         /\ trip \in AllTrips /\ TripPlaced(trip) /\ trips[trip].from \in AllHandlers
         /\ From(trip)'.service = From(trip).service
  <2>1. trip # NoTrip => trip \in AllTrips
    BY <1>1 DEF AllTrips, NoTrip
  <2>2. trip # NoTrip => TripPlaced(trip) /\ trips[trip].from \in AllHandlers
    BY <2>1 DEF HTTPInv, Placed, TripPlaced
  <2> QED BY <1>4, <1>6, <2>1, <2>2 DEF From
<1>11. headers.span # NoSpan => spans'[headers.span] = spans[headers.span]
  BY <1>1, <1>2 DEF AllSpans, NoSpan
<1>12. HandlerPlaced(n)'
  <2>1. ctx.span # NoSpan =>
          /\ ~skipped /\ ctx.span = Len(spans) + 1 /\ ctx.span \in AllSpans'
    BY <1>3, <1>9
  <2>2. trip \in 0..Len(trips)'
    BY <1>4
  <2>3. ctx.span # NoSpan /\ trip # NoTrip =>
          /\ spans'[ctx.span].parent = trips'[trip].headers.span
          /\ spans'[ctx.span].parent # NoSpan =>
               spans'[ctx.span].trace = spans'[spans'[ctx.span].parent].trace
    BY <1>2, <1>4, <1>11, <2>1
  <2>4. trip # NoTrip => service = From(trip)'.service + 1
    BY <1>10
  <2> QED BY <1>2, <1>7, <2>1, <2>2, <2>3, <2>4 DEF HandlerPlaced
<1>13. Placed'
  <2>1. \A i \in AllSpans' \ AllSpans : handlers'[n].ctx.span = i
    BY <1>3, <1>7, <1>9
  <2>2. handlers'[n].ctx.span # NoSpan => handlers'[n].ctx.span \notin AllSpans
    BY <1>3, <1>7, <1>9
  <2>3. Len(trips') + Len(handlers') <= Len(trips) + Len(handlers) + 1
    BY <1>1, <1>4, <1>6
  <2> QED BY <1>8, <1>9, <1>12, <2>1, <2>2, <2>3, PlacedStays
<1>14. OpenWhile'
  <2>1. \A h \in AllHandlers : handlers[h].ctx.span # NoSpan =>
           spans'[handlers[h].ctx.span] = spans[handlers[h].ctx.span]
    BY <1>2 DEF HTTPInv, Placed, HandlerPlaced
  <2>2. \A t \in AllTrips : trips[t].attempt # NoSpan =>
           spans'[trips[t].attempt] = spans[trips[t].attempt]
    BY <1>2 DEF HTTPInv, Placed, TripPlaced
  <2>3. ctx.span # NoSpan => spans'[ctx.span].ended = FALSE
    BY <1>2, <1>3
  <2> QED BY <1>4, <1>6, <1>7, <1>9, <2>1, <2>2, <2>3 DEF OpenWhile, HTTPInv
<1>15. LooksWell'
  <2> SUFFICES ASSUME NEW t \in AllTrips, ~trips[t].waiting, trips[t].attempt # NoSpan,
                      spans'[trips[t].attempt].status # "error"
               PROVE  AnsweredWell(t)'
    BY <1>4, <1>9 DEF LooksWell
  <2>1. spans'[trips[t].attempt] = spans[trips[t].attempt]
    BY <1>2 DEF HTTPInv, Placed, TripPlaced
  <2>2. AnsweredWell(t)
    BY <2>1 DEF HTTPInv, LooksWell
  <2> QED BY <1>8, <2>2, AnsweredStays
<1>16. Joins'
  <2>1. \A h \in AllHandlers : JoinsAt(h)'
    BY <1>6, <1>8, JoinsStay
  <2>2. JoinsAt(n)'
    <3> SUFFICES ASSUME ctx.span # NoSpan, trip # NoTrip, trips[trip].callerID # NoID,
                        ~trips[trip].kept
                 PROVE  GetCorrelationID(ctx)' = trips[trip].callerID
      <4>1. ctx.id = NoID
        BY <1>3
      <4> QED BY <1>4, <1>7, <4>1 DEF JoinsAt
    <3>1. ~skipped /\ ctx.baggage = headers.baggage /\ ctx.span = Len(spans) + 1
      BY <1>3
    <3>2. \/ headers.baggage = trips[trip].callerID
          \/ /\ headers.baggage = NoID /\ headers.span # NoSpan
             /\ trips[trip].callerID = <<"trace", spans[headers.span].trace>>
      BY <1>10 DEF TripPlaced
    <3>3. GetCorrelationID(ctx)' =
            IF ctx.baggage # NoID THEN ctx.baggage ELSE <<"trace", spans'[ctx.span].trace>>
      BY <1>3 DEF GetCorrelationID, TraceOf
    <3> QED BY <1>2, <3>1, <3>2, <3>3
  <2> QED BY <1>9, <2>1, <2>2 DEF Joins
<1> QED BY <1>8, <1>13, <1>14, <1>15, <1>16 DEF HTTPInv, Grows

\* A step that changes one handler and leaves its place alone.
LEMMA HandlerChanges ==
  ASSUME HTTPType, NEW h \in AllHandlers, NEW new \in HandlerRecords,
         handlers' = [handlers EXCEPT ![h] = new]
  PROVE  /\ handlers' \in Seq(HandlerRecords) /\ Len(handlers') = Len(handlers)
         /\ AllHandlers' = AllHandlers
         /\ handlers'[h] = new
         /\ \A g \in AllHandlers : g # h => handlers'[g] = handlers[g]
<1>1. /\ handlers' \in Seq(HandlerRecords) /\ Len(handlers') = Len(handlers)
      /\ handlers'[h] = new
      /\ \A g \in AllHandlers : g # h => handlers'[g] = handlers[g]
  BY ExceptSeq DEF HTTPType, AllHandlers
<1> QED BY <1>1 DEF AllHandlers

\* A step that starts nothing leaves everything placed.
LEMMA NothingNew ==
  ASSUME HTTPInv, Grows, AllSpans' = AllSpans, AllTrips' = AllTrips,
         AllHandlers' = AllHandlers
  PROVE  Placed'
<1>1. (\A t \in AllTrips' : TripPlaced(t)') /\ (\A h \in AllHandlers' : HandlerPlaced(h)')
  BY PlacesStay
<1>2. /\ \A t \in AllTrips : trips'[t].attempt = trips[t].attempt
      /\ \A h \in AllHandlers : handlers'[h].ctx.span = handlers[h].ctx.span
  BY DEF Grows, SameTrip, SameHandler
<1> QED BY <1>1, <1>2 DEF HTTPInv, Placed, Owned, OwnSpans

LEMMA SetCorrelationIDKeeps ==
  ASSUME HTTPInv, NEW h \in AllHandlers, NEW store \in BOOLEAN, NEW inBaggage \in BOOLEAN,
         store \/ inBaggage, SetCorrelationID(h, store, inBaggage)
  PROVE  HTTPInv'
<1> SUFFICES ASSUME NEW id, id = GetOrCreateCorrelationID(handlers[h].ctx, h),
                    NEW ctx, ctx = WithCorrelationID(handlers[h].ctx, id, store, inBaggage),
                    NEW new, new = [handlers[h] EXCEPT !.ctx = ctx,
                                       !.kept = ~inBaggage /\ (handlers[h].kept \/ store)]
             PROVE  HTTPInv'
  OBVIOUS
<1>1. /\ HTTPType /\ handlers[h] \in HandlerRecords /\ handlers[h].ctx \in Contexts
      /\ h \in Nat /\ DOMAIN handlers = AllHandlers
      /\ handlers[h].ctx.id \in IDs /\ handlers[h].ctx.baggage \in IDs
      /\ handlers[h].kept \in BOOLEAN
  BY TypeFacts DEF HTTPInv, AllHandlers
<1>2. handlers[h].ctx.span # NoSpan => TraceOf(handlers[h].ctx.span) \in Nat
  BY TypeFacts DEF HTTPInv, Placed, HandlerPlaced, TraceOf
<1>3. id \in IDs /\ (GetCorrelationID(handlers[h].ctx) # NoID
                       => id = GetCorrelationID(handlers[h].ctx))
  BY <1>1, <1>2 DEF GetOrCreateCorrelationID, GetCorrelationID, IDs
<1>4. /\ ctx \in Contexts /\ ctx.span = handlers[h].ctx.span
      /\ ctx.id = IF store THEN id ELSE handlers[h].ctx.id
      /\ ctx.baggage = IF inBaggage THEN id ELSE handlers[h].ctx.baggage
  BY <1>1, <1>3 DEF WithCorrelationID, Contexts
<1>5. /\ new \in HandlerRecords /\ SameHandler(handlers[h], new) /\ new.ctx = ctx
      /\ new.kept = (~inBaggage /\ (handlers[h].kept \/ store))
      /\ new.running = handlers[h].running /\ new.reply = handlers[h].reply
      /\ new.trip = handlers[h].trip
  BY <1>1, <1>4 DEF HandlerRecords, SameHandler
<1>6. handlers' = [handlers EXCEPT ![h] = new] /\ spans' = spans /\ trips' = trips
  BY <1>1 DEF SetCorrelationID, HandlerRecords
<1>7. /\ handlers' \in Seq(HandlerRecords) /\ Len(handlers') = Len(handlers)
      /\ AllHandlers' = AllHandlers /\ handlers'[h] = new
      /\ \A g \in AllHandlers : g # h => handlers'[g] = handlers[g]
  BY <1>1, <1>5, <1>6, HandlerChanges
<1>8. AllSpans' = AllSpans /\ AllTrips' = AllTrips
  BY <1>6 DEF AllSpans, AllTrips
<1>9. Grows
  <2>1. HTTPType'
    BY <1>1, <1>6, <1>7 DEF HTTPType
  <2>2. Len(spans) <= Len(spans') /\ Len(trips) <= Len(trips') /\ Len(handlers) <= Len(handlers')
    BY <1>1, <1>6, <1>7, TypeFacts
  <2>3. \A g \in AllHandlers : SameHandler(handlers[g], handlers'[g])
    BY <1>5, <1>7 DEF SameHandler
  <2> QED BY <1>6, <2>1, <2>2, <2>3 DEF Grows, SameSpan, SameTrip
<1>10. Placed'
  BY <1>7, <1>8, <1>9, NothingNew
<1>11. \A g \in AllHandlers : /\ handlers'[g].ctx.span = handlers[g].ctx.span
                              /\ handlers'[g].running = handlers[g].running
  BY <1>4, <1>5, <1>7
<1>12. OpenWhile'
  BY <1>6, <1>7, <1>8, <1>11 DEF OpenWhile, HTTPInv
<1>13. LooksWell'
  BY <1>6, <1>8, <1>9, AnsweredStays DEF LooksWell, HTTPInv
<1>14. JoinsAt(h)'
  <2>1. ~new.kept => ctx.id = NoID \/ ctx.baggage = ctx.id
    <3>1. JoinsAt(h)
      BY DEF HTTPInv, Joins
    <3>2. handlers[h].ctx.id # NoID => id = handlers[h].ctx.id
      BY <1>3 DEF GetCorrelationID
    <3> QED BY <1>4, <1>5, <3>1, <3>2 DEF JoinsAt
  <2>2. JoinsAt(h)
    BY DEF HTTPInv, Joins
  <2>3. ASSUME handlers[h].ctx.span # NoSpan, handlers[h].trip # NoTrip,
               trips[handlers[h].trip].callerID # NoID, ~trips[handlers[h].trip].kept
        PROVE  GetCorrelationID(ctx)' = trips[handlers[h].trip].callerID
    <3>1. GetCorrelationID(handlers[h].ctx) = trips[handlers[h].trip].callerID
      BY <2>2, <2>3 DEF JoinsAt
    <3>2. id = trips[handlers[h].trip].callerID /\ id # NoID
      BY <1>3, <2>3, <3>1
    <3> QED BY <1>4, <1>6, <3>1, <3>2 DEF GetCorrelationID, TraceOf
  <2> QED BY <1>4, <1>5, <1>6, <1>7, <2>1, <2>3 DEF JoinsAt
<1>15. Joins'
  BY <1>7, <1>9, <1>14, JoinsStay DEF Joins
<1> QED BY <1>9, <1>10, <1>12, <1>13, <1>15 DEF HTTPInv, Grows

LEMMA SendsHeadersKeeps ==
  ASSUME HTTPInv, NEW h \in AllHandlers, NEW status \in Statuses, SendsHeaders(h, status)
  PROVE  HTTPInv'
<1> SUFFICES ASSUME NEW new, new = [handlers[h] EXCEPT !.reply = status]
             PROVE  HTTPInv'
  OBVIOUS
<1>0. status \in Nat
  <2>1. status \in 100..599
    BY HTTPAssumption
  <2> QED BY <2>1
<1>1. HTTPType /\ handlers[h] \in HandlerRecords /\ status \in Nat
      /\ DOMAIN handlers = AllHandlers
  BY <1>0, TypeFacts DEF HTTPInv
<1>2. /\ new \in HandlerRecords /\ SameHandler(handlers[h], new) /\ new.ctx = handlers[h].ctx
      /\ new.kept = handlers[h].kept /\ new.running = handlers[h].running
  BY <1>1 DEF HandlerRecords, SameHandler, SendsHeaders
<1>3. handlers' = [handlers EXCEPT ![h] = new] /\ spans' = spans /\ trips' = trips
  BY <1>1 DEF SendsHeaders, HandlerRecords
<1>4. /\ handlers' \in Seq(HandlerRecords) /\ Len(handlers') = Len(handlers)
      /\ AllHandlers' = AllHandlers /\ handlers'[h] = new
      /\ \A g \in AllHandlers : g # h => handlers'[g] = handlers[g]
  BY <1>1, <1>2, <1>3, HandlerChanges
<1>5. AllSpans' = AllSpans /\ AllTrips' = AllTrips
  BY <1>3 DEF AllSpans, AllTrips
<1>6. Grows
  <2>1. HTTPType'
    BY <1>1, <1>3, <1>4 DEF HTTPType
  <2>2. Len(spans) <= Len(spans') /\ Len(trips) <= Len(trips') /\ Len(handlers) <= Len(handlers')
    BY <1>1, <1>3, <1>4, TypeFacts
  <2>3. \A g \in AllHandlers : SameHandler(handlers[g], handlers'[g])
    BY <1>2, <1>4 DEF SameHandler
  <2> QED BY <1>3, <2>1, <2>2, <2>3 DEF Grows, SameSpan, SameTrip
<1>7. Placed'
  BY <1>4, <1>5, <1>6, NothingNew
<1>8. \A g \in AllHandlers : /\ handlers'[g].ctx = handlers[g].ctx
                             /\ handlers'[g].kept = handlers[g].kept
                             /\ handlers'[g].running = handlers[g].running
  BY <1>2, <1>4
<1>9. OpenWhile'
  BY <1>3, <1>4, <1>5, <1>8 DEF OpenWhile, HTTPInv
<1>10. LooksWell'
  BY <1>3, <1>5, <1>6, AnsweredStays DEF LooksWell, HTTPInv
<1>11. Joins'
  BY <1>4, <1>6, <1>8, JoinsStay DEF Joins
<1> QED BY <1>6, <1>7, <1>9, <1>10, <1>11 DEF HTTPInv, Grows

LEMMA FinishKeeps ==
  ASSUME HTTPInv, NEW h \in AllHandlers, NEW panics \in BOOLEAN, Finish(h, panics)
  PROVE  HTTPInv'
<1> SUFFICES ASSUME NEW new, new = [handlers[h] EXCEPT !.running = FALSE],
                    NEW own, own = handlers[h].ctx.span,
                    NEW status, status = Outcome(panics \/ handlers[h].reply >= 500)
             PROVE  HTTPInv'
  OBVIOUS
<1>1. HTTPType /\ handlers[h] \in HandlerRecords /\ DOMAIN handlers = AllHandlers
  BY TypeFacts DEF HTTPInv
<1>2. /\ new \in HandlerRecords /\ SameHandler(handlers[h], new) /\ new.ctx = handlers[h].ctx
      /\ new.kept = handlers[h].kept /\ new.running = FALSE
  BY <1>1 DEF HandlerRecords, SameHandler
<1>3. handlers' = [handlers EXCEPT ![h] = new] /\ trips' = trips
  BY <1>1 DEF Finish, HandlerRecords
<1>4. /\ handlers' \in Seq(HandlerRecords) /\ Len(handlers') = Len(handlers)
      /\ AllHandlers' = AllHandlers /\ handlers'[h] = new
      /\ \A g \in AllHandlers : g # h => handlers'[g] = handlers[g]
  BY <1>1, <1>2, <1>3, HandlerChanges
<1>5. own \in 0..Len(spans) /\ (own # NoSpan => own \in AllSpans /\ spans[own].kind = "server")
  BY TypeFacts DEF HTTPInv, Placed, HandlerPlaced, AllSpans, NoSpan
<1>6. /\ spans' \in Seq(SpanRecords) /\ Len(spans') = Len(spans)
      /\ \A i \in AllSpans : SameSpan(spans[i], spans'[i])
      /\ \A i \in AllSpans : i # own => spans'[i] = spans[i]
      /\ own # NoSpan => spans'[own].ended = TRUE /\ spans'[own].status = status
  <2>1. status \in {"unset", "error"}
    BY DEF Outcome
  <2>2. spans' = Ended(own, status)
    BY DEF Finish
  <2>3. HTTPType /\ own \in 0..Len(spans)
    BY <1>1, <1>5
  <2> QED BY ONLY <2>1, <2>2, <2>3, EndedFacts
<1>7. AllSpans' = AllSpans /\ AllTrips' = AllTrips
  BY <1>3, <1>6 DEF AllSpans, AllTrips
<1>8. Grows
  <2>1. HTTPType'
    BY <1>1, <1>3, <1>4, <1>6 DEF HTTPType
  <2>2. Len(spans) <= Len(spans') /\ Len(trips) <= Len(trips') /\ Len(handlers) <= Len(handlers')
    BY <1>1, <1>3, <1>4, <1>6, TypeFacts
  <2>3. \A g \in AllHandlers : SameHandler(handlers[g], handlers'[g])
    BY <1>2, <1>4 DEF SameHandler
  <2> QED BY <1>3, <1>6, <2>1, <2>2, <2>3 DEF Grows, SameTrip
<1>9. Placed'
  BY <1>4, <1>7, <1>8, NothingNew
<1>10. \A g \in AllHandlers : /\ handlers'[g].ctx = handlers[g].ctx
                              /\ handlers'[g].kept = handlers[g].kept
                              /\ g # h => handlers'[g].running = handlers[g].running
  BY <1>2, <1>4
<1>11. \A t \in AllTrips : trips[t].attempt # NoSpan =>
         trips[t].attempt \in AllSpans /\ spans'[trips[t].attempt] = spans[trips[t].attempt]
  <2>1. \A t \in AllTrips : trips[t].attempt # NoSpan =>
          trips[t].attempt \in AllSpans /\ spans[trips[t].attempt].kind = "client"
    BY DEF HTTPInv, Placed, TripPlaced
  <2> QED BY <1>5, <1>6, <2>1
<1>12. OpenWhile'
  <2>1. ASSUME NEW g \in AllHandlers, handlers[g].ctx.span # NoSpan
        PROVE  spans'[handlers[g].ctx.span].ended <=> ~handlers'[g].running
    <3>1. CASE g = h
      BY <1>2, <1>4, <1>6, <2>1, <3>1
    <3>2. CASE g # h
      <4>1. handlers[g].ctx.span # own /\ handlers[g].ctx.span \in AllSpans
        BY <2>1, <3>2 DEF HTTPInv, Placed, OwnSpans, HandlerPlaced
      <4> QED BY <1>6, <1>10, <2>1, <3>2, <4>1 DEF HTTPInv, OpenWhile
    <3> QED BY <3>1, <3>2
  <2> QED BY <1>3, <1>4, <1>7, <1>10, <1>11, <2>1 DEF OpenWhile, HTTPInv
<1>13. LooksWell'
  BY <1>3, <1>7, <1>8, <1>11, AnsweredStays DEF LooksWell, HTTPInv
<1>14. Joins'
  BY <1>4, <1>8, <1>10, JoinsStay DEF Joins
<1> QED BY <1>8, <1>9, <1>12, <1>13, <1>14 DEF HTTPInv, Grows

LEMMA TripReturnsKeeps ==
  ASSUME HTTPInv, NEW t \in AllTrips, NEW error \in BOOLEAN, NEW answer \in Nat,
         ~error /\ answer < 400 => AnsweredWell(t), TripReturns(t, error, answer)
  PROVE  HTTPInv'
<1> SUFFICES ASSUME NEW new, new = [trips[t] EXCEPT !.waiting = FALSE],
                    NEW own, own = trips[t].attempt,
                    NEW status, status = Outcome(AttemptFailed(error, answer))
             PROVE  HTTPInv'
  OBVIOUS
<1>1. HTTPType /\ trips[t] \in TripRecords /\ DOMAIN trips = AllTrips
  BY TypeFacts DEF HTTPInv
<1>2. new \in TripRecords /\ SameTrip(trips[t], new) /\ new.waiting = FALSE
  BY <1>1 DEF TripRecords, SameTrip
<1>3. trips' = [trips EXCEPT ![t] = new] /\ handlers' = handlers
  BY <1>1 DEF TripReturns, TripRecords
<1>4. /\ trips' \in Seq(TripRecords) /\ Len(trips') = Len(trips) /\ trips'[t] = new
      /\ \A u \in AllTrips : u # t => trips'[u] = trips[u]
  BY <1>1, <1>2, <1>3, ExceptSeq DEF HTTPType, AllTrips
<1>5. own \in 0..Len(spans) /\ (own # NoSpan => own \in AllSpans /\ spans[own].kind = "client")
  BY TypeFacts DEF HTTPInv, Placed, TripPlaced, AllSpans, NoSpan
<1>6. /\ spans' \in Seq(SpanRecords) /\ Len(spans') = Len(spans)
      /\ \A i \in AllSpans : SameSpan(spans[i], spans'[i])
      /\ \A i \in AllSpans : i # own => spans'[i] = spans[i]
      /\ own # NoSpan => spans'[own].ended = TRUE /\ spans'[own].status = status
  <2>1. status \in {"unset", "error"}
    BY DEF Outcome
  <2>2. spans' = Ended(own, status)
    BY DEF TripReturns
  <2> QED BY <1>1, <1>5, <2>1, <2>2, EndedFacts
<1>7. AllSpans' = AllSpans /\ AllTrips' = AllTrips /\ AllHandlers' = AllHandlers
  BY <1>3, <1>4, <1>6 DEF AllSpans, AllTrips, AllHandlers
<1>8. Grows
  <2>1. HTTPType'
    BY <1>1, <1>3, <1>4, <1>6 DEF HTTPType
  <2>2. Len(spans) <= Len(spans') /\ Len(trips) <= Len(trips') /\ Len(handlers) <= Len(handlers')
    BY <1>1, <1>3, <1>4, <1>6, TypeFacts
  <2>3. \A u \in AllTrips : SameTrip(trips[u], trips'[u])
    BY <1>2, <1>4 DEF SameTrip
  <2> QED BY <1>3, <1>6, <2>1, <2>2, <2>3 DEF Grows, SameHandler
<1>9. Placed'
  BY <1>7, <1>8, NothingNew
<1>10. \A g \in AllHandlers : handlers[g].ctx.span # NoSpan =>
         spans'[handlers[g].ctx.span] = spans[handlers[g].ctx.span]
  <2>1. \A g \in AllHandlers : handlers[g].ctx.span # NoSpan =>
          handlers[g].ctx.span \in AllSpans /\ spans[handlers[g].ctx.span].kind = "server"
    BY DEF HTTPInv, Placed, HandlerPlaced
  <2> QED BY <1>5, <1>6, <2>1
<1>11. \A u \in AllTrips : trips'[u].attempt = trips[u].attempt
  BY <1>2, <1>4 DEF SameTrip
<1>12. \A u \in AllTrips : u # t /\ trips[u].attempt # NoSpan =>
         spans'[trips[u].attempt] = spans[trips[u].attempt]
  <2>1. \A u \in AllTrips : u # t /\ trips[u].attempt # NoSpan =>
          trips[u].attempt # own /\ trips[u].attempt \in AllSpans
    BY DEF HTTPInv, Placed, Owned, TripPlaced
  <2> QED BY <1>6, <2>1
<1>13. OpenWhile'
  <2>1. ASSUME NEW u \in AllTrips, trips[u].attempt # NoSpan
        PROVE  spans'[trips[u].attempt].ended <=> ~trips'[u].waiting
    <3>1. CASE u = t
      BY <1>2, <1>4, <1>6, <2>1, <3>1
    <3>2. CASE u # t
      BY <1>4, <1>12, <2>1, <3>2 DEF HTTPInv, OpenWhile
    <3> QED BY <3>1, <3>2
  <2> QED BY <1>3, <1>7, <1>10, <1>11, <2>1 DEF OpenWhile, HTTPInv
<1>14. LooksWell'
  <2> SUFFICES ASSUME NEW u \in AllTrips, ~trips'[u].waiting, trips[u].attempt # NoSpan,
                      spans'[trips[u].attempt].status # "error"
               PROVE  AnsweredWell(u)
    BY <1>7, <1>8, <1>11, AnsweredStays DEF LooksWell
  <2>1. CASE u = t
    BY <1>6, <2>1 DEF Outcome, AttemptFailed
  <2>2. CASE u # t
    BY <1>4, <1>12, <2>2 DEF HTTPInv, LooksWell
  <2> QED BY <2>1, <2>2
<1>15. Joins'
  BY <1>3, <1>7, <1>8, JoinsStay DEF Joins
<1> QED BY <1>8, <1>9, <1>13, <1>14, <1>15 DEF HTTPInv, Grows

LEMMA RoundTripKeeps ==
  ASSUME HTTPInv, NEW h \in AllHandlers, NEW withSpans \in BOOLEAN, RoundTrip(h, withSpans)
  PROVE  HTTPInv'
<1> SUFFICES ASSUME NEW n, n = Len(trips) + 1,
                    NEW ctx, ctx = handlers[h].ctx,
                    NEW attempt, attempt = IF withSpans THEN Len(spans) + 1 ELSE NoSpan,
                    NEW headers, headers = Inject(OutboundContext(ctx, attempt)),
                    NEW id, id = GetCorrelationID(ctx),
                    NEW new, new = [from |-> h, attempt |-> attempt, waiting |-> TRUE,
                                    headers |-> headers, callerID |-> id,
                                    kept |-> handlers[h].kept]
             PROVE  HTTPInv'
  OBVIOUS
<1>1. /\ HTTPType /\ Len(spans) \in Nat /\ Len(trips) \in Nat /\ Len(handlers) \in Nat
      /\ h \in Nat /\ ctx \in Contexts /\ ctx.span \in Nat /\ ctx.id \in IDs
      /\ ctx.baggage \in IDs /\ handlers[h].kept \in BOOLEAN
      /\ handlers[h].service \in Services
  BY TypeFacts DEF HTTPInv, AllHandlers
<1>2. /\ ctx.span \in 0..Len(spans) /\ (ctx.span # NoSpan => ctx.span \in AllSpans)
      /\ ctx.span # NoSpan => TraceOf(ctx.span) \in Nat
  <2>1. ctx.span # NoSpan => ctx.span \in AllSpans
    BY DEF HTTPInv, Placed, HandlerPlaced
  <2> QED BY <1>1, <2>1, TypeFacts DEF AllSpans, NoSpan, TraceOf
<1>3. /\ id \in IDs /\ headers \in [span : Nat, baggage : IDs]
      /\ headers.baggage = ctx.baggage
      /\ headers.span = IF withSpans THEN attempt ELSE ctx.span
  <2>1. id \in IDs
    BY <1>1, <1>2 DEF GetCorrelationID, IDs
  <2>2. /\ headers.baggage = ctx.baggage
        /\ headers.span = IF withSpans THEN attempt ELSE ctx.span
        /\ headers = [span |-> headers.span, baggage |-> headers.baggage]
    BY <1>1 DEF Inject, OutboundContext, NoSpan, Contexts
  <2>3. headers.span \in Nat
    BY <1>1, <2>2
  <2> QED BY <1>1, <2>1, <2>2, <2>3
<1>4. /\ new \in TripRecords /\ new.from = h /\ new.attempt = attempt /\ new.waiting = TRUE
      /\ new.headers = headers /\ new.callerID = id /\ new.kept = handlers[h].kept
  BY <1>1, <1>3 DEF TripRecords, NoSpan
<1>5. trips' = Append(trips, new) /\ handlers' = handlers
  BY DEF RoundTrip
<1>6. /\ trips' \in Seq(TripRecords) /\ Len(trips') = n /\ trips'[n] = new
      /\ \A t \in AllTrips : trips'[t] = trips[t]
  BY <1>1, <1>4, <1>5, AppendProperties DEF HTTPType, AllTrips
<1>7. /\ spans' \in Seq(SpanRecords)
      /\ \A i \in AllSpans : spans'[i] = spans[i]
      /\ ~withSpans => spans' = spans
      /\ withSpans => /\ Len(spans') = Len(spans) + 1
                      /\ LET own == spans'[Len(spans) + 1]
                         IN  /\ own.kind = "client" /\ own.service = handlers[h].service
                             /\ own.parent = ctx.span /\ own.ended = FALSE
                             /\ own.trace = IF ctx.span = NoSpan THEN Len(spans) + 1
                                            ELSE spans[ctx.span].trace
  <2>1. CASE ~withSpans
    BY <2>1, <1>1 DEF RoundTrip, HTTPType
  <2>2. CASE withSpans
    <3>1. spans' = Started("client", handlers[h].service, ctx.span)
      BY <2>2 DEF RoundTrip
    <3> SUFFICES ASSUME NEW service, service = handlers[h].service
                 PROVE  /\ spans' \in Seq(SpanRecords)
                        /\ \A i \in AllSpans : spans'[i] = spans[i]
                        /\ Len(spans') = Len(spans) + 1
                        /\ LET own == spans'[Len(spans) + 1]
                           IN  /\ own.kind = "client" /\ own.service = service
                               /\ own.parent = ctx.span /\ own.ended = FALSE
                               /\ own.trace = IF ctx.span = NoSpan THEN Len(spans) + 1
                                              ELSE spans[ctx.span].trace
      BY <2>2
    <3> QED BY <1>1, <1>2, <3>1, StartedFacts
  <2> QED BY <2>1, <2>2
<1>8. Grows
  <2>1. HTTPType' /\ Len(spans) <= Len(spans')
    BY <1>1, <1>5, <1>6, <1>7 DEF HTTPType
  <2>2. Len(trips) <= Len(trips') /\ Len(handlers) <= Len(handlers')
    BY <1>1, <1>5, <1>6
  <2> QED BY <1>5, <1>6, <1>7, <2>1, <2>2 DEF Grows, SameSpan, SameTrip, SameHandler
<1>9. /\ AllHandlers' = AllHandlers /\ AllTrips' = AllTrips \cup {n}
      /\ AllSpans' = IF withSpans THEN AllSpans \cup {attempt} ELSE AllSpans
      /\ withSpans => attempt \notin AllSpans /\ attempt # NoSpan
  <2>1. AllHandlers' = AllHandlers /\ AllTrips' = AllTrips \cup {n}
    BY <1>1, <1>5, <1>6 DEF AllTrips, AllHandlers
  <2>2. AllSpans' = IF withSpans THEN AllSpans \cup {attempt} ELSE AllSpans
    <3>1. CASE ~withSpans
      BY <1>7, <3>1 DEF AllSpans
    <3>2. CASE withSpans
      BY <1>1, <1>7, <3>2 DEF AllSpans
    <3> QED BY <3>1, <3>2
  <2> QED BY <1>1, <2>1, <2>2 DEF AllSpans, NoSpan
<1>10. TripPlaced(n)'
  <2>1. /\ h \in AllHandlers' /\ From(n)' = handlers[h]
        /\ handlers[h].service + 1 \in Services
    <3>1. From(n)' = handlers[h]
      BY <1>4, <1>5, <1>6 DEF From
    <3>2. handlers[h].service < Depth
      BY DEF RoundTrip
    <3>3. handlers[h].service + 1 \in Services
      BY <1>1, <3>2, HTTPAssumption DEF Services
    <3> QED BY <1>9, <3>1, <3>3
  <2>2. headers.span = IF attempt # NoSpan THEN attempt ELSE ctx.span
    BY <1>3, <1>9
  <2>3. attempt # NoSpan =>
          /\ attempt \in AllSpans' /\ spans'[attempt].kind = "client"
          /\ spans'[attempt].service = handlers[h].service
          /\ spans'[attempt].parent = ctx.span
          /\ ctx.span # NoSpan => spans'[attempt].trace = spans'[ctx.span].trace
    BY <1>2, <1>7, <1>9
  <2>4. id # NoID /\ ~handlers[h].kept =>
          \/ headers.baggage = id
          \/ /\ headers.baggage = NoID /\ headers.span # NoSpan
             /\ id = <<"trace", spans'[headers.span].trace>>
    <3>1. ~handlers[h].kept => ctx.id = NoID \/ ctx.baggage = ctx.id
      BY DEF HTTPInv, Joins, JoinsAt
    <3>2. ctx.span # NoSpan => spans'[headers.span].trace = spans[ctx.span].trace
                               /\ headers.span # NoSpan
      BY <1>2, <1>3, <1>7, <2>2, <2>3
    <3> QED BY <1>3, <3>1, <3>2 DEF GetCorrelationID, TraceOf
  <2> QED BY <1>4, <1>6, <2>1, <2>2, <2>3, <2>4 DEF TripPlaced
<1>11. Placed'
  <2>1. \A i \in AllSpans' \ AllSpans : trips'[n].attempt = i
    BY <1>4, <1>6, <1>9
  <2>2. trips'[n].attempt # NoSpan => trips'[n].attempt \notin AllSpans
    BY <1>4, <1>6, <1>9
  <2>3. Len(trips') + Len(handlers') <= Len(trips) + Len(handlers) + 1
    BY <1>1, <1>5, <1>6
  <2> QED BY <1>8, <1>9, <1>10, <2>1, <2>2, <2>3, PlacedStays
<1>12. \A t \in AllTrips : trips[t].attempt # NoSpan =>
         spans'[trips[t].attempt] = spans[trips[t].attempt]
  BY <1>7 DEF HTTPInv, Placed, TripPlaced
<1>13. OpenWhile'
  <2>1. \A g \in AllHandlers : handlers[g].ctx.span # NoSpan =>
           spans'[handlers[g].ctx.span] = spans[handlers[g].ctx.span]
    BY <1>7 DEF HTTPInv, Placed, HandlerPlaced
  <2>2. attempt # NoSpan => spans'[attempt].ended = FALSE
    BY <1>7, <1>9
  <2>3. \A g \in AllHandlers' : handlers'[g].ctx.span # NoSpan =>
          (spans'[handlers'[g].ctx.span].ended <=> ~handlers'[g].running)
    BY <1>5, <1>9, <2>1 DEF OpenWhile, HTTPInv
  <2>4. \A t \in AllTrips : trips'[t].attempt # NoSpan =>
          (spans'[trips'[t].attempt].ended <=> ~trips'[t].waiting)
    BY <1>6, <1>12 DEF OpenWhile, HTTPInv
  <2>5. trips'[n].attempt # NoSpan =>
          (spans'[trips'[n].attempt].ended <=> ~trips'[n].waiting)
    BY <1>4, <1>6, <2>2
  <2> QED BY <1>9, <2>3, <2>4, <2>5 DEF OpenWhile
<1>14. LooksWell'
  <2> SUFFICES ASSUME NEW t \in AllTrips, ~trips[t].waiting, trips[t].attempt # NoSpan,
                      spans'[trips[t].attempt].status # "error"
               PROVE  AnsweredWell(t)'
    BY <1>4, <1>6, <1>9 DEF LooksWell
  <2>1. AnsweredWell(t)
    BY <1>12 DEF HTTPInv, LooksWell
  <2> QED BY <1>8, <2>1, AnsweredStays
<1>15. Joins'
  BY <1>5, <1>8, <1>9, JoinsStay DEF Joins
<1> QED BY <1>8, <1>11, <1>13, <1>14, <1>15 DEF HTTPInv, Grows

LEMMA InitHTTPInv == ASSUME HTTPInit PROVE HTTPInv
<1>1. spans = <<>> /\ trips = <<>> /\ handlers = <<>>
  BY DEF HTTPInit
<1>2. AllSpans = {} /\ AllTrips = {} /\ AllHandlers = {}
  BY <1>1 DEF AllSpans, AllTrips, AllHandlers
<1>3. HTTPType
  BY <1>1 DEF HTTPType
<1> QED BY <1>2, <1>3
        DEF HTTPInv, Placed, Owned, OwnSpans, OpenWhile, LooksWell, Joins

LEMMA ReceiveKeeps ==
  ASSUME HTTPInv, NEW skipped \in BOOLEAN, Receive(skipped)
  PROVE  HTTPInv'
<1> SUFFICES ASSUME NEW headers, headers = Inject(EmptyContext)
             PROVE  HTTPInv'
  OBVIOUS
<1>1. Len(spans) \in Nat /\ Len(trips) \in Nat
  BY TypeFacts DEF HTTPInv
<1>2. headers \in [span : 0..Len(spans), baggage : IDs] /\ headers.span = NoSpan
  BY <1>1 DEF Inject, EmptyContext, NoSpan, NoID, IDs
<1>3. 1 \in Services /\ NoTrip \in 0..Len(trips)
  BY <1>1, HTTPAssumption DEF Services, NoTrip
<1>4. Serve(1, NoTrip, headers, skipped)
  BY DEF Receive
<1>5. ASSUME NEW trip, trip = NoTrip PROVE HTTPInv'
  BY <1>2, <1>3, <1>4, <1>5, ServeKeeps
<1> QED BY <1>5

LEMMA ArrivesKeeps ==
  ASSUME HTTPInv, NEW t \in AllTrips, NEW skipped \in BOOLEAN, Arrives(t, skipped)
  PROVE  HTTPInv'
<1> SUFFICES ASSUME NEW headers, headers = trips[t].headers,
                    NEW service, service = From(t).service + 1
             PROVE  HTTPInv'
  OBVIOUS
<1>1. Len(spans) \in Nat /\ Len(trips) \in Nat /\ trips[t] \in TripRecords
      /\ trips[t].attempt \in Nat /\ TripPlaced(t)
  BY TypeFacts DEF HTTPInv, Placed
<1>2. headers.span \in 0..Len(spans)
  <2>1. From(t).ctx.span \in 0..Len(spans)
    <3>1. HandlerPlaced(trips[t].from) /\ trips[t].from \in AllHandlers
      BY <1>1 DEF HTTPInv, Placed, TripPlaced
    <3> QED BY <1>1, <3>1 DEF HandlerPlaced, From, AllSpans, NoSpan
  <2> QED BY <1>1, <2>1 DEF TripPlaced, AllSpans
<1>3. headers \in [span : 0..Len(spans), baggage : IDs]
  BY <1>1, <1>2 DEF TripRecords
<1>4. service \in Services /\ t \in 0..Len(trips) /\ t # NoTrip
  BY <1>1 DEF TripPlaced, AllTrips, NoTrip
<1>5. Serve(service, t, headers, skipped)
  BY DEF Arrives, From
<1> QED BY <1>3, <1>4, <1>5, ServeKeeps

LEMMA NextHTTPInv == ASSUME HTTPInv, [HTTPNext]_httpVars PROVE HTTPInv'
<1>1. DOMAIN handlers = AllHandlers /\ DOMAIN trips = AllTrips
  BY TypeFacts DEF HTTPInv
<1>2. ASSUME NEW skipped \in BOOLEAN, Receive(skipped) PROVE HTTPInv'
  BY <1>2, ReceiveKeeps
<1>3. ASSUME NEW h \in AllHandlers, NEW pair \in Settings,
             SetCorrelationID(h, pair[1], pair[2])
      PROVE  HTTPInv'
  <2> SUFFICES ASSUME NEW store, store = pair[1], NEW inBaggage, inBaggage = pair[2]
               PROVE  HTTPInv'
    OBVIOUS
  <2>1. store \in BOOLEAN /\ inBaggage \in BOOLEAN /\ (store \/ inBaggage)
    <3>1. pair \in BOOLEAN \X BOOLEAN /\ pair # <<FALSE, FALSE>>
      BY HTTPAssumption
    <3>2. PICK a \in BOOLEAN, b \in BOOLEAN : pair = <<a, b>>
      BY <3>1
    <3>3. store = a /\ inBaggage = b
      BY <3>2
    <3> QED BY <3>1, <3>2, <3>3
  <2> QED BY <1>3, <2>1, SetCorrelationIDKeeps
<1>4. ASSUME NEW h \in AllHandlers, NEW withSpans \in BOOLEAN, RoundTrip(h, withSpans)
      PROVE  HTTPInv'
  BY <1>4, RoundTripKeeps
<1>5. ASSUME NEW h \in AllHandlers, NEW status \in Statuses, SendsHeaders(h, status)
      PROVE  HTTPInv'
  BY <1>5, SendsHeadersKeeps
<1>6. ASSUME NEW h \in AllHandlers, NEW panics \in BOOLEAN, Finish(h, panics)
      PROVE  HTTPInv'
  BY <1>6, FinishKeeps
<1>7. ASSUME NEW t \in AllTrips, NEW skipped \in BOOLEAN, Arrives(t, skipped)
      PROVE  HTTPInv'
  BY <1>7, ArrivesKeeps
<1>8. ASSUME NEW t \in AllTrips, GivesUp(t) PROVE HTTPInv'
  BY <1>8, TripReturnsKeeps DEF GivesUp
<1>9. ASSUME NEW t \in AllTrips, Answered(t) PROVE HTTPInv'
  <2>1. PICK h \in AllHandlers : /\ handlers[h].trip = t /\ handlers[h].reply # NoReply
                                 /\ TripReturns(t, FALSE, handlers[h].reply)
    BY <1>1, <1>9 DEF Answered
  <2>2. handlers[h].reply \in Nat
    BY TypeFacts DEF HTTPInv
  <2> SUFFICES ASSUME NEW reply, reply = handlers[h].reply PROVE HTTPInv'
    OBVIOUS
  <2>3. reply < 400 => AnsweredWell(t)
    BY <2>1 DEF AnsweredWell
  <2> QED BY <2>1, <2>2, <2>3, TripReturnsKeeps
<1>10. CASE UNCHANGED httpVars
  <2>1. spans' = spans /\ trips' = trips /\ handlers' = handlers
    BY <1>10 DEF httpVars
  <2>2. Grows /\ AllSpans' = AllSpans /\ AllTrips' = AllTrips /\ AllHandlers' = AllHandlers
    BY <2>1, TypeFacts DEF Grows, SameSpan, SameTrip, SameHandler, HTTPInv, HTTPType,
                           AllSpans, AllTrips, AllHandlers
  <2>3. Placed'
    BY <2>2, NothingNew
  <2>4. OpenWhile'
    BY <2>1, <2>2 DEF HTTPInv, OpenWhile
  <2>5. LooksWell'
    BY <2>1, <2>2, AnsweredStays DEF HTTPInv, LooksWell
  <2>6. Joins'
    BY <2>1, <2>2, JoinsStay DEF Joins
  <2> QED BY <2>2, <2>3, <2>4, <2>5, <2>6 DEF HTTPInv, Grows
<1> QED
  BY <1>1, <1>2, <1>3, <1>4, <1>5, <1>6, <1>7, <1>8, <1>9, <1>10 DEF HTTPNext

THEOREM HTTPInvariance == HTTPSpec => []HTTPInv
  BY InitHTTPInv, NextHTTPInv, PTL DEF HTTPSpec

\* middleware/httpclient.go, RoundTrip: every attempt has a span of its own, under
\* its caller's, and what it reached hangs under it and no other.  For any number
\* of services, concurrent calls, retries, late handlers and duplicates.
THEOREM EachAttemptIsItsOwn == HTTPSpec => []AttemptsAreDistinct
<1>1. HTTPInv => AttemptsAreDistinct
  <2> SUFFICES ASSUME HTTPInv PROVE AttemptsAreDistinct
    OBVIOUS
  <2>1. DOMAIN trips = AllTrips /\ DOMAIN handlers = AllHandlers
    BY TypeFacts DEF HTTPInv
  <2>2. \A t, u \in AllTrips :
          t # u /\ trips[t].attempt # NoSpan => trips[t].attempt # trips[u].attempt
    BY DEF HTTPInv, Placed, Owned
  <2>3. ASSUME NEW h \in AllHandlers, Traced(h), handlers[h].trip # NoTrip
        PROVE  LET own == spans[handlers[h].ctx.span]
                   parent == IF TripOf(h).attempt # NoSpan THEN TripOf(h).attempt
                             ELSE Caller(h).ctx.span
               IN  /\ own.parent = parent
                   /\ parent # NoSpan => spans[parent].service = own.service - 1
                   /\ TripOf(h).attempt # NoSpan =>
                        spans[parent].kind = "client" /\ spans[parent].parent = Caller(h).ctx.span
                   /\ Caller(h).ctx.span # NoSpan => own.trace = TraceOf(Caller(h).ctx.span)
    <3> DEFINE own == spans[handlers[h].ctx.span]
               parent == IF TripOf(h).attempt # NoSpan THEN TripOf(h).attempt
                         ELSE Caller(h).ctx.span
    <3>1. HandlerPlaced(h) /\ handlers[h].trip \in AllTrips
      BY <2>3, TypeFacts DEF HTTPInv, Placed, HandlerPlaced, AllTrips, NoTrip
    <3>2. TripPlaced(handlers[h].trip)
      BY <3>1 DEF HTTPInv, Placed
    <3>3. /\ TripOf(h).from \in AllHandlers /\ Caller(h).service \in Services
          /\ HandlerPlaced(TripOf(h).from)
      BY <3>2, TypeFacts DEF HTTPInv, Placed, TripPlaced, TripOf, Caller, From
    <3>4. /\ own.service = Caller(h).service + 1 /\ own.parent = TripOf(h).headers.span
          /\ own.parent # NoSpan => own.trace = spans[own.parent].trace
      BY <2>3, <3>1 DEF HandlerPlaced, Traced, TripOf, Caller, From
    <3>5. /\ TripOf(h).headers.span = parent
          /\ TripOf(h).attempt # NoSpan =>
               /\ spans[parent].kind = "client" /\ spans[parent].service = Caller(h).service
               /\ spans[parent].parent = Caller(h).ctx.span
               /\ Caller(h).ctx.span # NoSpan =>
                    spans[parent].trace = spans[Caller(h).ctx.span].trace
      BY <3>2 DEF TripPlaced, TripOf, Caller, From
    <3>6. TripOf(h).attempt = NoSpan /\ parent # NoSpan => spans[parent].service = Caller(h).service
      BY <3>3 DEF HandlerPlaced, Caller
    <3>7. own.service - 1 = Caller(h).service
      <4>1. own.service = Caller(h).service + 1 /\ Caller(h).service \in Int
        BY <3>3, <3>4, HTTPAssumption DEF Services
      <4> QED BY <4>1
    <3>8. Caller(h).ctx.span # NoSpan => own.trace = TraceOf(Caller(h).ctx.span)
      <4>1. Caller(h).ctx.span # NoSpan => parent # NoSpan
        OBVIOUS
      <4> QED BY <3>4, <3>5, <4>1 DEF TraceOf
    <3>9. parent # NoSpan => spans[parent].service = own.service - 1
      <4>1. parent # NoSpan => spans[parent].service = Caller(h).service
        BY <3>5, <3>6
      <4> QED BY <3>7, <4>1
    <3>10. own.parent = parent
      BY <3>4, <3>5
    <3> HIDE DEF parent
    <3> QED BY <3>5, <3>8, <3>9, <3>10 DEF parent
  <2> QED BY <2>1, <2>2, <2>3 DEF AttemptsAreDistinct
<1> QED BY <1>1, HTTPInvariance, PTL

\* middleware/http.go and httpclient.go: a span is open just while its handler runs
\* or its call is waited for, and a call looks well only if it was answered well,
\* whichever of caller and handler ends first.
THEOREM SpansEnd == HTTPSpec => []SpansEndWithTheirCalls
<1>1. HTTPInv => SpansEndWithTheirCalls
  <2> SUFFICES ASSUME HTTPInv PROVE SpansEndWithTheirCalls
    OBVIOUS
  <2>1. /\ DOMAIN trips = AllTrips /\ DOMAIN handlers = AllHandlers
        /\ DOMAIN spans = AllSpans
    BY TypeFacts DEF HTTPInv
  <2>2. ASSUME NEW i \in AllSpans
        PROVE  ~spans[i].ended <=>
                 \/ \E h \in AllHandlers : handlers[h].running /\ handlers[h].ctx.span = i
                 \/ \E t \in AllTrips : trips[t].waiting /\ trips[t].attempt = i
    <3>1. i # NoSpan
      BY <2>2 DEF AllSpans, NoSpan
    <3>2. \/ \E h \in AllHandlers : handlers[h].ctx.span = i
          \/ \E t \in AllTrips : trips[t].attempt = i
      BY DEF HTTPInv, Placed, Owned
    <3>3. ASSUME NEW h \in AllHandlers, handlers[h].ctx.span = i
          PROVE  ~spans[i].ended <=> handlers[h].running
      BY <3>1, <3>3 DEF HTTPInv, OpenWhile
    <3>4. ASSUME NEW t \in AllTrips, trips[t].attempt = i
          PROVE  ~spans[i].ended <=> trips[t].waiting
      BY <3>1, <3>4 DEF HTTPInv, OpenWhile
    <3> QED BY <3>2, <3>3, <3>4
  <2>3. \A t \in AllTrips :
          ~trips[t].waiting /\ trips[t].attempt # NoSpan
            /\ spans[trips[t].attempt].status # "error" => AnsweredWell(t)
    BY DEF HTTPInv, LooksWell
  <2> QED BY <2>1, <2>2, <2>3 DEF SpansEndWithTheirCalls, AnsweredWell
<1> QED BY <1>1, HTTPInvariance, PTL

\* correlationid.go: the ID joins a service to its caller through any chain of
\* services, with and without spans, whatever they store or put in their baggage
\* and however late a handler is served.
THEOREM TheIDJoins == HTTPSpec => []CorrelationJoins
<1>1. HTTPInv => CorrelationJoins
  <2> SUFFICES ASSUME HTTPInv PROVE CorrelationJoins
    OBVIOUS
  <2>1. DOMAIN handlers = AllHandlers
    BY TypeFacts DEF HTTPInv
  <2> QED BY <2>1 DEF HTTPInv, Joins, JoinsAt, CorrelationJoins, Traced, TripOf
<1> QED BY <1>1, HTTPInvariance, PTL
-----------------------------------------------------------------------------
(* RequestLogger. *)

FieldRecords == UNION {[names -> Values] : names \in SUBSET Names}
Labels == {"log.info", "log.warn", "log.error", "log.emit.manual", "exception"}
SpanEvents == [name : Labels, fields : FieldRecords]
Stages == [stage : {"none", "exception", "attributes"}, left : ErrorAttributes]
IsEmit(i) == events[i].name = "log.emit.manual"

LoggerType ==
    /\ fields \in FieldRecords /\ events \in Seq(SpanEvents)
    /\ failing \in [Goroutines -> Stages]
    /\ erred \in ErrorAttributes
    /\ recording \in BOOLEAN /\ missed \in BOOLEAN
    /\ DOMAIN got = Goroutines

\* The parts of OneRecord, and that no record is on the span before it is sealed.
SameForAll == \A g \in Goroutines : got[g] \in {NotEmitted, emitted}
SealedAsFields == Sealed(emitted) => emitted = Snapshot(fields)
SpanShowsFields == ~missed => attributes = Copied(fields, erred)
RecordIsLast ==
    \A i \in 1..Len(events) : IsEmit(i) =>
      /\ Sealed(emitted) /\ events[i].fields = fields
      /\ \A j \in 1..Len(events) : j > i => events[j].name = "exception"

LoggerInv == LoggerType /\ SameForAll /\ SealedAsFields /\ SpanShowsFields /\ RecordIsLast
-----------------------------------------------------------------------------
LEMMA CopiedFacts ==
  ASSUME NEW into \in FieldRecords, NEW from \in Given
  PROVE  /\ from \in FieldRecords /\ Copied(into, from) \in FieldRecords
         /\ from = NoFields => Copied(into, from) = into
<1>1. PICK A \in SUBSET Names : into \in [A -> Values]
  BY DEF FieldRecords
<1>2. \E B \in SUBSET Names : from \in [B -> Values]
  <2>1. CASE from = NoFields
    <3>1. from \in [{} -> Values]
      BY <2>1 DEF NoFields
    <3> QED BY <3>1
  <2>2. CASE from # NoFields
    <3>1. from \in OneField
      BY <2>2 DEF Given
    <3>2. PICK n \in Names, v \in Values : from = [field \in {n} |-> v]
      BY <3>1 DEF OneField
    <3>3. from \in [{n} -> Values]
      BY <3>2
    <3> QED BY <3>3
  <2> QED BY <2>1, <2>2
<1>3. PICK B \in SUBSET Names : from \in [B -> Values]
  BY <1>2
<1>4. Copied(into, from) \in [A \cup B -> Values]
  BY <1>1, <1>3 DEF Copied
<1>5. ASSUME from = NoFields PROVE Copied(into, from) = into
  <2>1. DOMAIN from = {}
    BY <1>5 DEF NoFields
  <2>2. Copied(into, from) = [n \in DOMAIN into |-> into[n]]
    BY <2>1 DEF Copied
  <2> QED BY <1>1, <2>2
<1>6. from \in FieldRecords /\ Copied(into, from) \in FieldRecords
  BY <1>3, <1>4 DEF FieldRecords
<1> QED BY <1>5, <1>6

\* What replaces a name goes before what it replaces.
LEMMA CopiedTwice ==
  ASSUME NEW f, NEW e, NEW h
  PROVE  /\ Copied(Copied(f, e), h) = Copied(f, Copied(e, h))
         /\ Copied(Copied(f, e), h) = Copied(Copied(f, h), Without(e, DOMAIN h))
<1>1. /\ DOMAIN Copied(Copied(f, e), h) = DOMAIN f \cup DOMAIN e \cup DOMAIN h
      /\ \A n \in DOMAIN f \cup DOMAIN e \cup DOMAIN h :
            Copied(Copied(f, e), h)[n] =
              IF n \in DOMAIN h THEN h[n] ELSE IF n \in DOMAIN e THEN e[n] ELSE f[n]
  BY DEF Copied
<1>2. /\ DOMAIN Copied(f, Copied(e, h)) = DOMAIN f \cup DOMAIN e \cup DOMAIN h
      /\ \A n \in DOMAIN f \cup DOMAIN e \cup DOMAIN h :
            Copied(f, Copied(e, h))[n] =
              IF n \in DOMAIN h THEN h[n] ELSE IF n \in DOMAIN e THEN e[n] ELSE f[n]
  BY DEF Copied
<1>3. /\ DOMAIN Copied(Copied(f, h), Without(e, DOMAIN h))
            = DOMAIN f \cup DOMAIN e \cup DOMAIN h
      /\ \A n \in DOMAIN f \cup DOMAIN e \cup DOMAIN h :
            Copied(Copied(f, h), Without(e, DOMAIN h))[n] =
              IF n \in DOMAIN h THEN h[n] ELSE IF n \in DOMAIN e THEN e[n] ELSE f[n]
  BY DEF Copied, Without
<1>4. /\ Copied(Copied(f, e), h) = Copied(f, Copied(e, h))
  <2> DEFINE a == Copied(Copied(f, e), h)   b == Copied(f, Copied(e, h))
  <2>1. a = [n \in DOMAIN a |-> a[n]] /\ b = [n \in DOMAIN b |-> b[n]]
    BY DEF Copied
  <2> QED BY <1>1, <1>2, <2>1
<1>5. Copied(Copied(f, e), h) = Copied(Copied(f, h), Without(e, DOMAIN h))
  <2> DEFINE a == Copied(Copied(f, e), h)   b == Copied(Copied(f, h), Without(e, DOMAIN h))
  <2>1. a = [n \in DOMAIN a |-> a[n]] /\ b = [n \in DOMAIN b |-> b[n]]
    BY DEF Copied
  <2> QED BY <1>1, <1>3, <2>1
<1> QED BY <1>4, <1>5

\* The attributes of an error, with one more and without some.
LEMMA ErrorFacts ==
  ASSUME NEW e \in ErrorAttributes
  PROVE  /\ NoFields \in ErrorAttributes
         /\ \A names : Without(e, names) \in ErrorAttributes
         /\ Without(e, DOMAIN NoFields) = e
         /\ \A n \in ErrorNames, v \in Values :
               Copied(e, [m \in {n} |-> v]) \in ErrorAttributes
         /\ \A n \in DOMAIN e : n \in ErrorNames /\ e[n] \in Values
<1>1. PICK E \in SUBSET ErrorNames : e \in [E -> Values]
  BY DEF ErrorAttributes
<1>2. NoFields \in ErrorAttributes
  <2>1. NoFields \in [{} -> Values]
    BY DEF NoFields
  <2> QED BY <2>1 DEF ErrorAttributes
<1>3. ASSUME NEW names PROVE Without(e, names) \in ErrorAttributes
  <2>1. Without(e, names) \in [E \ names -> Values]
    BY <1>1 DEF Without
  <2> QED BY <2>1 DEF ErrorAttributes
<1>4. Without(e, DOMAIN NoFields) = e
  <2>1. DOMAIN NoFields = {}
    BY DEF NoFields
  <2>2. Without(e, DOMAIN NoFields) = [n \in DOMAIN e |-> e[n]]
    BY <2>1 DEF Without
  <2> QED BY <1>1, <2>2
<1>5. ASSUME NEW n \in ErrorNames, NEW v \in Values
      PROVE  Copied(e, [m \in {n} |-> v]) \in ErrorAttributes
  <2>1. Copied(e, [m \in {n} |-> v]) \in [E \cup {n} -> Values]
    BY <1>1 DEF Copied
  <2> QED BY <2>1 DEF ErrorAttributes
<1> QED BY <1>1, <1>2, <1>3, <1>4, <1>5

\* Where Error goes on, whatever it has done.
LEMMA MovesOnFails ==
  ASSUME failing \in [Goroutines -> Stages], NEW g \in Goroutines,
         NEW left \in ErrorAttributes, MovesOn(g, "attributes", left)
  PROVE  failing' \in [Goroutines -> Stages]
<1>1. NotFailing \in Stages /\ Failing("attributes", left) \in Stages
  BY ErrorFacts DEF NotFailing, Failing, Stages
<1> QED BY <1>1 DEF MovesOn

\* While the record is open there is none on the span, so that fields may change.
LEMMA NoneYet ==
  ASSUME LoggerInv, ~Sealed(emitted)
  PROVE  /\ \A i \in 1..Len(events) : ~IsEmit(i)
         /\ \A g \in Goroutines : got[g] = NotEmitted
BY DEF LoggerInv, RecordIsLast, SameForAll, Sealed

\* What an event, other than the record, does to the span's events.
LEMMA AppendEvent ==
  ASSUME events \in Seq(SpanEvents), NEW e \in SpanEvents, NEW rec \in BOOLEAN,
         events' = IF rec THEN Append(events, e) ELSE events
  PROVE  /\ events' \in Seq(SpanEvents)
         /\ Len(events) \in Nat
         /\ Len(events') = IF rec THEN Len(events) + 1 ELSE Len(events)
         /\ \A i \in 1..Len(events) : events'[i] = events[i]
         /\ rec => events'[Len(events) + 1] = e
BY AppendProperties

LEMMA MergedKeeps ==
  ASSUME LoggerInv, NEW given \in Given, Merged(given)
  PROVE  /\ fields' \in FieldRecords /\ erred' \in ErrorAttributes
         /\ missed' \in BOOLEAN /\ SpanShowsFields'
<1>1. /\ fields' = Copied(fields, given)
      /\ attributes' = IF recording THEN Copied(attributes, given) ELSE attributes
      /\ missed' = (missed \/ (~recording /\ given # NoFields))
      /\ erred' = Without(erred, DOMAIN given)
  BY DEF Merged
<1>2. fields' \in FieldRecords /\ (given = NoFields => fields' = fields)
  BY <1>1, CopiedFacts DEF LoggerInv, LoggerType
<1>3. erred' \in ErrorAttributes /\ (given = NoFields => erred' = erred)
  BY <1>1, ErrorFacts DEF LoggerInv, LoggerType
<1>4. SpanShowsFields'
  <2> SUFFICES ASSUME ~missed' PROVE attributes' = Copied(fields', erred')
    BY DEF SpanShowsFields
  <2>1. ~missed /\ attributes = Copied(fields, erred)
    BY <1>1 DEF LoggerInv, SpanShowsFields
  <2>2. CASE recording
    BY <1>1, <2>1, <2>2, CopiedTwice
  <2>3. CASE ~recording
    BY <1>1, <1>2, <1>3, <2>1, <2>3
  <2> QED BY <2>2, <2>3
<1> QED BY <1>1, <1>2, <1>3, <1>4

LEMMA SetKeeps ==
  ASSUME LoggerInv, NEW g \in Goroutines, NEW given \in Given, Set(g, given)
  PROVE  LoggerInv'
<1>1. /\ ~Sealed(emitted) /\ Merged(given)
      /\ UNCHANGED <<emitted, recording, events, failing, got>>
  BY DEF Set
<1>2. /\ fields' \in FieldRecords /\ erred' \in ErrorAttributes
      /\ missed' \in BOOLEAN /\ SpanShowsFields'
  BY <1>1, MergedKeeps
<1> QED
  BY <1>1, <1>2, NoneYet
     DEF LoggerInv, LoggerType, SameForAll, SealedAsFields, RecordIsLast, IsEmit, Sealed

LEMMA LogEventKeeps ==
  ASSUME LoggerInv, NEW g \in Goroutines, NEW given \in Given,
         NEW name \in {"log.info", "log.warn", "log.error"}, LogEvent(g, name, given)
  PROVE  LoggerInv'
<1> DEFINE e == Event(name, given)
<1>1. /\ ~Sealed(emitted) /\ Merged(given)
      /\ events' = IF recording THEN Append(events, e) ELSE events
      /\ \/ UNCHANGED failing
         \/ \E err \in ErrorAttributes :
               failing' = [failing EXCEPT ![g] = Failing("exception", err)]
      /\ UNCHANGED <<emitted, recording, got>>
  BY DEF LogEvent
<1>2. /\ fields' \in FieldRecords /\ erred' \in ErrorAttributes
      /\ missed' \in BOOLEAN /\ SpanShowsFields'
  BY <1>1, MergedKeeps
<1>3. e \in SpanEvents /\ e.name = name
  BY CopiedFacts DEF Event, SpanEvents, Labels, LoggerInv, LoggerType
<1> HIDE DEF e
<1>4. /\ events' \in Seq(SpanEvents) /\ Len(events) \in Nat
      /\ Len(events') = IF recording THEN Len(events) + 1 ELSE Len(events)
      /\ \A i \in 1..Len(events) : events'[i] = events[i]
      /\ recording => events'[Len(events) + 1] = e
  BY <1>1, <1>3, AppendEvent DEF LoggerInv, LoggerType
<1>5. ASSUME NEW i \in 1..Len(events') PROVE ~IsEmit(i)'
  <2>1. i \in 1..Len(events) \/ (recording /\ i = Len(events) + 1)
    BY <1>4
  <2>2. i \in 1..Len(events) => ~IsEmit(i) /\ events'[i] = events[i]
    BY <1>1, <1>4, NoneYet
  <2>3. name # "log.emit.manual"
    OBVIOUS
  <2> QED BY <1>3, <1>4, <2>1, <2>2, <2>3 DEF IsEmit
<1>6. LoggerType'
  <2>1. failing' \in [Goroutines -> Stages]
    BY <1>1 DEF LoggerInv, LoggerType, Failing, Stages
  <2> QED BY <1>1, <1>2, <1>4, <2>1 DEF LoggerInv, LoggerType
<1>7. SameForAll' /\ SealedAsFields' /\ RecordIsLast'
  BY <1>1, <1>5 DEF LoggerInv, SameForAll, SealedAsFields, RecordIsLast, Sealed
<1> QED BY <1>2, <1>6, <1>7 DEF LoggerInv

LEMMA RecordErrorKeeps ==
  ASSUME LoggerInv, NEW g \in Goroutines, RecordError(g) PROVE LoggerInv'
<1> DEFINE e == Event("exception", NoFields)
<1>1. /\ events' = IF recording THEN Append(events, e) ELSE events
      /\ MovesOn(g, "attributes", failing[g].left)
      /\ UNCHANGED <<fields, emitted, recording, attributes, got, missed, erred>>
  BY DEF RecordError
<1>2. e \in SpanEvents /\ e.name = "exception"
  <2>1. NoFields \in FieldRecords
    BY CopiedFacts DEF Given, LoggerInv, LoggerType
  <2> QED BY <2>1 DEF Event, SpanEvents, Labels
<1> HIDE DEF e
<1>3. /\ events' \in Seq(SpanEvents) /\ Len(events) \in Nat
      /\ Len(events') = IF recording THEN Len(events) + 1 ELSE Len(events)
      /\ \A i \in 1..Len(events) : events'[i] = events[i]
      /\ recording => events'[Len(events) + 1] = e
  BY <1>1, <1>2, AppendEvent DEF LoggerInv, LoggerType
<1>4. LoggerType'
  <2>1. failing' \in [Goroutines -> Stages]
    BY <1>1, MovesOnFails DEF LoggerInv, LoggerType, Stages
  <2> QED BY <1>1, <1>3, <2>1 DEF LoggerInv, LoggerType
<1>5. RecordIsLast'
  <2> SUFFICES ASSUME NEW i \in 1..Len(events'), IsEmit(i)'
               PROVE  /\ Sealed(emitted) /\ events'[i].fields = fields
                      /\ \A j \in 1..Len(events') : j > i => events'[j].name = "exception"
    BY <1>1 DEF RecordIsLast, Sealed
  <2>1. i \in 1..Len(events) /\ events'[i] = events[i] /\ IsEmit(i)
    BY <1>2, <1>3 DEF IsEmit
  <2>2. /\ Sealed(emitted) /\ events[i].fields = fields
        /\ \A j \in 1..Len(events) : j > i => events[j].name = "exception"
    BY <2>1 DEF LoggerInv, RecordIsLast
  <2>3. ASSUME NEW j \in 1..Len(events'), j > i PROVE events'[j].name = "exception"
    BY <1>2, <1>3, <2>2, <2>3
  <2> QED BY <2>1, <2>2, <2>3
<1>6. SameForAll' /\ SealedAsFields' /\ SpanShowsFields'
  BY <1>1 DEF LoggerInv, SameForAll, SealedAsFields, SpanShowsFields, Sealed
<1> QED BY <1>4, <1>5, <1>6 DEF LoggerInv

LEMMA SetErrorAttributeKeeps ==
  ASSUME LoggerInv, NEW g \in Goroutines, SetErrorAttribute(g) PROVE LoggerInv'
<1> DEFINE left == failing[g].left
<1>1. left \in ErrorAttributes
  BY DEF LoggerInv, LoggerType, Stages
<1>2. PICK n \in DOMAIN left :
        /\ attributes' = IF recording THEN Copied(attributes, [m \in {n} |-> left[n]])
                         ELSE attributes
        /\ erred' = IF recording THEN Copied(erred, [m \in {n} |-> left[n]]) ELSE erred
        /\ MovesOn(g, "attributes", Without(left, {n}))
  BY DEF SetErrorAttribute
<1>3. UNCHANGED <<fields, emitted, recording, events, got, missed>>
  BY DEF SetErrorAttribute
<1>4. failing' \in [Goroutines -> Stages]
  <2>1. Without(left, {n}) \in ErrorAttributes
    BY <1>1, ErrorFacts
  <2> QED BY <1>2, <2>1, MovesOnFails DEF LoggerInv, LoggerType
<1>5. erred' \in ErrorAttributes
  <2>1. n \in ErrorNames /\ left[n] \in Values
    BY <1>1, ErrorFacts
  <2> QED BY <1>2, <2>1, ErrorFacts DEF LoggerInv, LoggerType
<1>6. SpanShowsFields'
  BY <1>2, <1>3, CopiedTwice DEF LoggerInv, SpanShowsFields
<1>7. LoggerType' /\ SameForAll' /\ SealedAsFields' /\ RecordIsLast'
  BY <1>3, <1>4, <1>5
     DEF LoggerInv, LoggerType, SameForAll, SealedAsFields, RecordIsLast, IsEmit, Sealed
<1> QED BY <1>6, <1>7 DEF LoggerInv

LEMMA EmitNowKeeps ==
  ASSUME LoggerInv, NEW g \in Goroutines, EmitNow(g) PROVE LoggerInv'
<1>1. UNCHANGED <<fields, recording, attributes, failing, missed, erred>>
  BY DEF EmitNow
<1>2. CASE Sealed(emitted)
  <2>1. got' = [got EXCEPT ![g] = emitted] /\ UNCHANGED <<emitted, events>>
    BY <1>2 DEF EmitNow
  <2>2. LoggerType' /\ SealedAsFields' /\ SpanShowsFields' /\ RecordIsLast'
    BY <1>1, <2>1 DEF LoggerInv, LoggerType, SealedAsFields, SpanShowsFields, RecordIsLast,
                      IsEmit, Sealed
  <2>3. SameForAll'
    BY <2>1 DEF LoggerInv, LoggerType, SameForAll
  <2> QED BY <2>2, <2>3 DEF LoggerInv
<1>3. CASE ~Sealed(emitted)
  <2> DEFINE e == Event("log.emit.manual", fields)
  <2>1. /\ emitted' = Snapshot(fields)
        /\ got' = [got EXCEPT ![g] = Snapshot(fields)]
        /\ events' = IF recording THEN Append(events, e) ELSE events
    BY <1>3 DEF EmitNow
  <2>2. e \in SpanEvents /\ e.name = "log.emit.manual" /\ e.fields = fields
    BY DEF Event, SpanEvents, Labels, LoggerInv, LoggerType
  <2> HIDE DEF e
  <2>3. /\ events' \in Seq(SpanEvents) /\ Len(events) \in Nat
        /\ Len(events') = IF recording THEN Len(events) + 1 ELSE Len(events)
        /\ \A i \in 1..Len(events) : events'[i] = events[i]
        /\ recording => events'[Len(events) + 1] = e
    BY <2>1, <2>2, AppendEvent DEF LoggerInv, LoggerType
  <2>4. Sealed(emitted)'
    BY <2>1 DEF Sealed, Snapshot, NotEmitted
  <2>5. LoggerType'
    BY <1>1, <2>1, <2>3 DEF LoggerInv, LoggerType
  <2>6. SameForAll'
    BY <1>3, <2>1, NoneYet DEF LoggerInv, LoggerType, SameForAll
  <2>7. RecordIsLast'
    <3> SUFFICES ASSUME NEW i \in 1..Len(events'), IsEmit(i)'
                 PROVE  /\ events'[i].fields = fields
                        /\ \A j \in 1..Len(events') : j > i => events'[j].name = "exception"
      BY <1>1, <2>4 DEF RecordIsLast
    <3>1. i \in 1..Len(events) => ~IsEmit(i) /\ events'[i] = events[i]
      BY <1>3, <2>3, NoneYet
    <3>2. recording /\ i = Len(events) + 1 /\ Len(events') = i
      BY <2>3, <3>1 DEF IsEmit
    <3> QED BY <2>2, <2>3, <3>2
  <2>8. SealedAsFields' /\ SpanShowsFields'
    BY <1>1, <2>1 DEF LoggerInv, SealedAsFields, SpanShowsFields
  <2> QED BY <2>5, <2>6, <2>7, <2>8 DEF LoggerInv
<1> QED BY <1>2, <1>3

LEMMA NextLoggerInv == ASSUME LoggerInv, [LoggerNext]_loggerVars PROVE LoggerInv'
<1> USE DEF LoggerInv, LoggerType, SameForAll, SealedAsFields, SpanShowsFields, RecordIsLast,
            IsEmit, Sealed
<1>1. CASE UNCHANGED loggerVars
  BY <1>1 DEF loggerVars
<1>2. CASE EndSpan
  BY <1>2 DEF EndSpan
<1> QED
  BY <1>1, <1>2, SetKeeps, LogEventKeeps, RecordErrorKeeps, SetErrorAttributeKeeps,
     EmitNowKeeps
     DEF LoggerNext

\* request_logger.go, EmitNow: the record is sealed once, is the same for every
\* caller and the one on the span, holds what was set before it, and nothing but
\* the exception of an Error under way is logged under it afterwards; the span
\* shows the fields, but for the attributes of errors set since.  For any
\* goroutines, fields and errors, whenever the span ends.
THEOREM TheRecordIsOne == LoggerSpec => []OneRecord
<1>1. LoggerInit => LoggerInv
  <2> SUFFICES ASSUME LoggerInit PROVE LoggerInv
    OBVIOUS
  <2>1. fields \in FieldRecords
    <3>1. fields \in [{} -> Values]
      BY DEF LoggerInit, NoFields
    <3> QED BY <3>1 DEF FieldRecords
  <2>2. events \in Seq(SpanEvents) /\ Len(events) = 0
    BY DEF LoggerInit
  <2>3. LoggerType
    <3>1. NoFields \in ErrorAttributes
      <4>1. NoFields \in [{} -> Values]
        BY DEF NoFields
      <4> QED BY <4>1 DEF ErrorAttributes
    <3>2. NotFailing \in Stages
      BY <3>1 DEF NotFailing, Stages
    <3> QED BY <2>1, <2>2, <3>1, <3>2 DEF LoggerInit, LoggerType
  <2>4. SameForAll /\ SealedAsFields /\ RecordIsLast
    BY <2>2 DEF LoggerInit, SameForAll, SealedAsFields, RecordIsLast, Sealed
  <2>5. SpanShowsFields
    BY DEF LoggerInit, SpanShowsFields, Copied, NoFields
  <2> QED BY <2>3, <2>4, <2>5 DEF LoggerInv
<1>2. LoggerInv /\ [LoggerNext]_loggerVars => LoggerInv'
  BY NextLoggerInv
<1>3. LoggerInv => OneRecord
  BY DEF LoggerInv, LoggerType, SameForAll, SealedAsFields, SpanShowsFields, RecordIsLast,
         IsEmit, OneRecord
<1> QED BY <1>1, <1>2, <1>3, PTL DEF LoggerSpec
-----------------------------------------------------------------------------
(* TracedCalls. *)

CallRecords ==
    [kind : Kinds, span : {"open", "ended", "failed"},
     how : {"runs", "fine", "error", "value", "panic", "goexit"},
     tx : {"none", "open", "committing", "committed", "in doubt", "rolled back"},
     byFn : BOOLEAN, outcome : {"none", "commit", "commit_failed", "rollback"}]

\* A call under way: its transaction has begun and nothing is said of it yet;
\* one that was committed or is in doubt its function has settled.
UnderWay(c) ==
    /\ c.outcome = "none"
    /\ c.kind # "transaction" => c.tx = "none"
    /\ c.kind = "transaction" =>
         /\ c.tx # "none"
         /\ c.tx \in {"committed", "in doubt"} => c.byFn
         /\ c.tx \in {"open", "committing"} => ~c.byFn

\* What OutcomesTold and FailuresMarked say of one call.
Told(c) ==
    /\ c.kind = "transaction" =>
         /\ c.outcome = "commit" <=> c.tx = "committed" /\ ~c.byFn
         /\ c.outcome = "commit_failed" => c.tx = "in doubt" /\ ~c.byFn
         /\ c.outcome = "none" <=> c.tx = "none"
         /\ c.tx = "open" => ctxEnded
    /\ c.span = "failed" <=>
         \/ c.how = "error"
         \/ Unwinding(c.how) /\ c.kind \in {"database", "genai", "transaction"}
         \/ c.how = "fine" /\ c.kind = "transaction" /\ (c.tx # "committed" \/ c.byFn)

Good(c) == IF Over(c) THEN Told(c) ELSE UnderWay(c)

LeavingType == leaving \in {"runs", "fine", "error", "value", "panic", "goexit"}
ValueOfTraceFunc ==
    leaving = "value" => \A i \in Open : Innermost(i) => calls[i].kind = "TraceFunc"

CallsInv ==
    /\ calls \in Seq(CallRecords) /\ ctxEnded \in BOOLEAN /\ LeavingType
    /\ \A i \in DOMAIN calls : Good(calls[i])
    /\ ValueOfTraceFunc
-----------------------------------------------------------------------------
\* A step that changes one call, and goes on with no value to be asked.
LEMMA OneCall ==
    ASSUME CallsInv, NEW i \in DOMAIN calls, NEW c \in CallRecords,
           calls' = [calls EXCEPT ![i] = c], ctxEnded' = ctxEnded,
           LeavingType', leaving' # "value", Good(c)
    PROVE  CallsInv'
<1>1. calls' \in Seq(CallRecords) /\ DOMAIN calls' = DOMAIN calls
  BY ExceptSeq DEF CallsInv
<1>2. \A j \in DOMAIN calls : calls'[j] = IF j = i THEN c ELSE calls[j]
  BY DEF CallsInv
<1>3. \A d : Good(d)' <=> Good(d)
  BY DEF Good, Told, UnderWay, Over
<1> QED
  BY <1>1, <1>2, <1>3 DEF CallsInv, ValueOfTraceFunc

\* A step that changes no call.
LEMMA NoCall ==
    ASSUME CallsInv, calls' = calls, ctxEnded' = ctxEnded, LeavingType', ValueOfTraceFunc'
    PROVE  CallsInv'
<1>1. \A d : Good(d)' <=> Good(d)
  BY DEF Good, Told, UnderWay, Over
<1> QED BY <1>1 DEF CallsInv

LEMMA CallFacts ==
    ASSUME CallsInv, NEW i \in DOMAIN calls
    PROVE  calls[i] \in CallRecords /\ Good(calls[i])
    BY ElementOfSeq DEF CallsInv

LEMMA OnwardFacts ==
    ASSUME NEW how \in {"runs", "fine", "error", "value", "panic", "goexit"}
    PROVE  /\ Onward(how) \in {"runs", "panic", "goexit"}
    BY DEF Onward, Unwinding
-----------------------------------------------------------------------------
LEMMA InitCallsInv == CallsInit => CallsInv
<1> SUFFICES ASSUME CallsInit PROVE CallsInv
  OBVIOUS
<1>1. calls \in Seq(CallRecords) /\ DOMAIN calls = {}
  BY DEF CallsInit
<1> QED BY <1>1 DEF CallsInit, CallsInv, LeavingType, ValueOfTraceFunc

LEMMA EnterKeeps ==
    ASSUME CallsInv, NEW kind \in Kinds, Enter(kind)
    PROVE  CallsInv'
<1>1. PICK c \in CallRecords : calls' = Append(calls, c) /\ Good(c)
  <2>1. /\ Call(kind) \in CallRecords
        /\ kind = "transaction" => /\ [Call(kind) EXCEPT !.tx = "open"] \in CallRecords
                                   /\ [Call(kind) EXCEPT !.span = "failed", !.how = "error"] \in CallRecords
    BY DEF Call, CallRecords
  <2>2. /\ kind # "transaction" => Good(Call(kind))
        /\ kind = "transaction" => /\ Good([Call(kind) EXCEPT !.tx = "open"])
                                   /\ Good([Call(kind) EXCEPT !.span = "failed", !.how = "error"])
    BY DEF Call, Good, Told, UnderWay, Over, Unwinding
  <2> QED BY <2>1, <2>2 DEF Enter
<1>2. leaving = "runs" /\ UNCHANGED <<leaving, ctxEnded>>
  BY DEF Enter
<1>3. /\ calls' \in Seq(CallRecords)
      /\ \A j \in DOMAIN calls' : calls'[j] = c \/ (j \in DOMAIN calls /\ calls'[j] = calls[j])
  BY <1>1, AppendProperties DEF CallsInv
<1>4. \A d : Good(d)' <=> Good(d)
  BY <1>2 DEF Good, Told, UnderWay, Over
<1> QED
  BY <1>1, <1>2, <1>3, <1>4 DEF CallsInv, LeavingType, ValueOfTraceFunc

LEMMA ApplicationKeeps ==
    ASSUME CallsInv,
           \/ \E how \in {"fine", "error", "value", "panic", "goexit"} : Leaves(how)
           \/ \E how \in {"fine", "error"} : Recovers(how)
           \/ StartsAgain
    PROVE  CallsInv'
<1>1. calls' = calls /\ ctxEnded' = ctxEnded /\ LeavingType'
  BY DEF Leaves, Recovers, StartsAgain, LeavingType
<1>2. ValueOfTraceFunc'
  <2>1. CASE leaving' # "value"
    BY <2>1 DEF ValueOfTraceFunc
  <2>2. CASE leaving' = "value"
    <3>1. Leaves("value")
      BY <2>2 DEF Leaves, Recovers, StartsAgain
    <3>2. PICK i \in Open : Innermost(i) /\ calls[i].kind = "TraceFunc"
      BY <3>1 DEF Leaves
    <3>3. Open \subseteq Int
      BY DEF Open, CallsInv
    <3>4. \A j \in Open : Innermost(j) => j = i
      BY <3>2, <3>3 DEF Innermost
    <3> QED BY <1>1, <3>2, <3>4 DEF ValueOfTraceFunc, Open, Innermost
  <2> QED BY <2>1, <2>2
<1> QED BY <1>1, <1>2, NoCall

LEMMA EndContextKeeps == ASSUME CallsInv, EndContext PROVE CallsInv'
<1>1. UNCHANGED <<calls, leaving>> /\ ctxEnded' = TRUE
  BY DEF EndContext
<1>2. \A d : Good(d) => Good(d)'
  BY <1>1 DEF Good, Told, UnderWay, Over
<1> QED
  BY <1>1, <1>2 DEF CallsInv, LeavingType, ValueOfTraceFunc, Open, Innermost

\* The spans that Trace, TraceFunc, database.Trace and genai.Trace end.
LEMMA EndKeeps ==
    ASSUME CallsInv, NEW i \in Open, leaving # "runs",
           TraceEnds(i) \/ TraceFuncEnds(i) \/ ClientCallEnds(i)
    PROVE  CallsInv'
<1> DEFINE failed == IF calls[i].kind \in {"database", "genai"}
                     THEN leaving = "error" \/ Abandoned(leaving) ELSE leaving = "error"
           c == [calls[i] EXCEPT !.span = Marked(failed), !.how = leaving]
<1>1. i \in DOMAIN calls /\ calls[i].span = "open"
  BY DEF Open
<1>2. calls[i] \in CallRecords /\ Good(calls[i])
  BY <1>1, CallFacts
<1>3. calls[i].kind # "transaction" /\ calls[i].kind \in Kinds
  BY <1>2 DEF TraceEnds, TraceFuncEnds, ClientCallEnds, CallRecords
<1>4. calls' = [calls EXCEPT ![i] = c] /\ ctxEnded' = ctxEnded
  BY <1>1, <1>2 DEF TraceEnds, TraceFuncEnds, ClientCallEnds, End, CallsInv, CallRecords
<1>5. leaving' \in {"runs", "panic", "goexit"}
  BY OnwardFacts DEF TraceEnds, TraceFuncEnds, ClientCallEnds, End, CallsInv, LeavingType
<1>6. c \in CallRecords
  BY <1>2 DEF CallRecords, Marked, CallsInv, LeavingType
<1>7. Good(c)
  BY <1>2, <1>3 DEF Good, Told, Over, Marked, Unwinding, Abandoned, CallRecords, Kinds
<1> QED BY <1>1, <1>4, <1>5, <1>6, <1>7, OneCall DEF LeavingType

LEMMA TransactionFacts ==
    ASSUME CallsInv, NEW i \in Open, Innermost(i), calls[i].kind = "transaction"
    PROVE  /\ i \in DOMAIN calls /\ calls[i] \in CallRecords
           /\ calls[i].span = "open" /\ calls[i].outcome = "none"
           /\ calls[i].tx # "none" /\ UnderWay(calls[i])
           /\ leaving \in {"runs", "fine", "error", "panic", "goexit"}
<1>1. i \in DOMAIN calls /\ calls[i].span = "open"
  BY DEF Open
<1>2. calls[i] \in CallRecords /\ UnderWay(calls[i])
  BY <1>1, CallFacts DEF Good, Over
<1>3. leaving # "value"
  BY DEF CallsInv, ValueOfTraceFunc
<1> QED BY <1>1, <1>2, <1>3 DEF UnderWay, CallsInv, LeavingType

LEMMA RollsBackKeeps ==
    ASSUME CallsInv, NEW i \in Open, Innermost(i), leaving # "runs", RollsBack(i)
    PROVE  CallsInv'
<1> DEFINE c == [calls[i] EXCEPT !.span = "failed", !.how = leaving,
                                 !.tx = IF calls[i].tx = "open" THEN "rolled back" ELSE calls[i].tx,
                                 !.outcome = "rollback"]
<1>1. /\ i \in DOMAIN calls /\ calls[i] \in CallRecords /\ calls[i].kind = "transaction"
      /\ calls[i].tx # "none" /\ UnderWay(calls[i])
      /\ leaving \in {"error", "panic", "goexit"}
  BY TransactionFacts DEF RollsBack
<1>2. calls' = [calls EXCEPT ![i] = c] /\ ctxEnded' = ctxEnded
  BY <1>1 DEF RollsBack, Abandoned, Marked
<1>3. leaving' \in {"runs", "panic", "goexit"}
  BY <1>1, OnwardFacts DEF RollsBack
<1>4. c \in CallRecords
  BY <1>1 DEF CallRecords
<1>5. /\ c.kind = "transaction" /\ c.span = "failed" /\ c.how = leaving
      /\ c.outcome = "rollback" /\ c.tx \notin {"none", "open"}
      /\ c.tx \in {"committed", "in doubt"} => c.byFn
  BY <1>1 DEF CallRecords, UnderWay
<1>6. Good(c)
  BY <1>1, <1>5, Zenon DEF Good, Told, Over, Unwinding
<1> QED BY <1>1, <1>2, <1>3, <1>4, <1>6, OneCall DEF LeavingType

LEMMA CommitBeginsKeeps ==
    ASSUME CallsInv, NEW i \in Open, Innermost(i), CommitBegins(i)
    PROVE  CallsInv'
<1> DEFINE c == [calls[i] EXCEPT !.tx = "committing"]
<1>1. /\ i \in DOMAIN calls /\ calls[i] \in CallRecords /\ calls[i].span = "open"
      /\ calls[i].kind = "transaction" /\ calls[i].outcome = "none" /\ ~calls[i].byFn
  BY TransactionFacts DEF CommitBegins, UnderWay
<1>2. calls' = [calls EXCEPT ![i] = c] /\ ctxEnded' = ctxEnded /\ leaving' = "fine"
  BY <1>1 DEF CommitBegins, CallsInv
<1>3. c \in CallRecords /\ Good(c)
  BY <1>1 DEF CallRecords, Good, UnderWay, Over
<1> QED BY <1>1, <1>2, <1>3, OneCall DEF LeavingType

LEMMA CommitReturnsKeeps ==
    ASSUME CallsInv, NEW i \in Open, Innermost(i), CommitReturns(i)
    PROVE  CallsInv'
<1>1. /\ i \in DOMAIN calls /\ calls[i] \in CallRecords /\ calls[i].kind = "transaction"
      /\ calls[i].tx # "none" /\ UnderWay(calls[i]) /\ leaving = "fine"
  BY TransactionFacts DEF CommitReturns
<1>2. PICK err \in {"nil", "driver", "ctx", "ErrTxDone"},
           tx \in {"committed", "in doubt", calls[i].tx} :
        /\ Settles(i, err, tx)
        /\ \/ err = "nil" /\ tx = "committed" /\ ~calls[i].byFn
           \/ err = "driver" /\ tx = "in doubt" /\ ~calls[i].byFn
           \/ err = "ctx" /\ ctxEnded /\ tx = calls[i].tx /\ tx # "committing"
           \/ err = "ErrTxDone" /\ tx = calls[i].tx /\ tx \notin {"open", "committing"}
  BY <1>1 DEF CommitReturns, UnderWay
<1> DEFINE c == [calls[i] EXCEPT !.span = Marked(err # "nil"), !.how = leaving, !.tx = tx,
                                 !.outcome = CommitOutcome(err)]
<1>3. calls' = [calls EXCEPT ![i] = c] /\ ctxEnded' = ctxEnded /\ leaving' = "runs"
  BY <1>1, <1>2 DEF Settles
<1>4. c \in CallRecords
  BY <1>1, <1>2 DEF CallRecords, Marked, CommitOutcome
<1>5. /\ c.kind = "transaction" /\ c.how = "fine" /\ c.tx = tx /\ c.byFn = calls[i].byFn
      /\ c.span = Marked(err # "nil") /\ c.outcome = CommitOutcome(err)
  BY <1>1, <1>2 DEF CallRecords
<1>6. \/ c.outcome = "commit" /\ c.tx = "committed" /\ ~c.byFn /\ c.span = "ended"
      \/ /\ c.outcome \in {"commit_failed", "rollback"} /\ c.tx = "in doubt"
         /\ ~c.byFn /\ c.span = "failed"
      \/ /\ c.outcome = "rollback" /\ c.tx # "none" /\ c.span = "failed"
         /\ c.tx \in {"committed", "in doubt"} => c.byFn
         /\ c.tx = "open" => ctxEnded
  BY <1>1, <1>2, <1>5 DEF Marked, CommitOutcome, UnderWay
<1>7. Good(c)
  BY <1>5, <1>6 DEF Good, Told, Over, Unwinding
<1> QED BY <1>1, <1>3, <1>4, <1>7, OneCall DEF LeavingType

\* A function that commits or rolls back itself runs, and so does its call.
LEMMA SettlesItselfKeeps ==
    ASSUME CallsInv, NEW i \in DOMAIN calls, SettlesItself(i)
    PROVE  CallsInv'
<1>1. PICK tx \in {"rolled back", "committed", "in doubt"} :
        calls' = [calls EXCEPT ![i].tx = tx, ![i].byFn = TRUE]
  BY DEF SettlesItself
<1> DEFINE c == [calls[i] EXCEPT !.tx = tx, !.byFn = TRUE]
<1>2. /\ calls[i] \in CallRecords /\ UnderWay(calls[i]) /\ calls[i].span = "open"
      /\ calls[i].tx = "open" /\ UNCHANGED <<leaving, ctxEnded>> /\ leaving = "runs"
  BY CallFacts DEF SettlesItself, Good, Over
<1>3. calls' = [calls EXCEPT ![i] = c]
  BY <1>1, <1>2 DEF CallsInv, CallRecords
<1>4. c \in CallRecords
  BY <1>2 DEF CallRecords
<1>5. Good(c)
  BY <1>2 DEF Good, Over, UnderWay, CallRecords
<1> QED BY <1>2, <1>3, <1>4, <1>5, OneCall DEF LeavingType

\* Whether its call is over or not.
LEMMA ContextRollsBackKeeps ==
    ASSUME CallsInv, NEW i \in DOMAIN calls, ContextRollsBack(i)
    PROVE  CallsInv'
<1> DEFINE c == [calls[i] EXCEPT !.tx = "rolled back"]
<1>1. calls[i] \in CallRecords /\ Good(calls[i]) /\ calls[i].tx = "open"
  BY CallFacts DEF ContextRollsBack
<1>2. calls' = [calls EXCEPT ![i] = c] /\ UNCHANGED <<leaving, ctxEnded>>
  BY DEF ContextRollsBack, CallsInv
<1>3. c \in CallRecords /\ c.kind = calls[i].kind /\ c.span = calls[i].span
  BY <1>1 DEF CallRecords
<1>4. Good(c)
  <2>1. /\ c.kind = calls[i].kind /\ c.span = calls[i].span /\ c.how = calls[i].how
        /\ c.outcome = calls[i].outcome /\ c.tx = "rolled back" /\ c.byFn = calls[i].byFn
    BY <1>1 DEF CallRecords
  <2>2. CASE calls[i].span = "open"
    BY <1>1, <2>1, <2>2 DEF Good, UnderWay, Over
  <2>3. CASE calls[i].span # "open"
    <3>1. Told(calls[i])
      BY <1>1, <2>3 DEF Good, Over
    <3>2. Told(c)
      BY <1>1, <2>1, <3>1 DEF Told
    <3> QED BY <2>1, <2>3, <3>2 DEF Good, Over
  <2> QED BY <2>2, <2>3
<1> HIDE DEF c
<1>5. calls' \in Seq(CallRecords) /\ DOMAIN calls' = DOMAIN calls
  BY <1>2, <1>3, ExceptSeq DEF CallsInv
<1>6. \A j \in DOMAIN calls : calls'[j] = IF j = i THEN c ELSE calls[j]
  BY <1>2 DEF CallsInv
<1>7. Open' = Open /\ \A j \in DOMAIN calls : calls'[j].kind = calls[j].kind
  BY <1>3, <1>5, <1>6 DEF Open
<1>8. ValueOfTraceFunc'
  BY <1>2, <1>7 DEF CallsInv, ValueOfTraceFunc, Innermost, Open
<1>9. \A d : Good(d)' <=> Good(d)
  BY <1>2 DEF Good, Told, UnderWay, Over
<1> QED
  BY <1>2, <1>4, <1>5, <1>6, <1>8, <1>9 DEF CallsInv, LeavingType

LEMMA NextCallsInv == CallsInv /\ [CallsNext]_callVars => CallsInv'
<1> SUFFICES ASSUME CallsInv, [CallsNext]_callVars PROVE CallsInv'
  OBVIOUS
<1>1. CASE \E kind \in Kinds : Enter(kind)
  BY <1>1, EnterKeeps
<1>2. CASE \/ \E how \in {"fine", "error", "value", "panic", "goexit"} : Leaves(how)
           \/ \E how \in {"fine", "error"} : Recovers(how)
           \/ StartsAgain
  BY <1>2, ApplicationKeeps
<1>3. CASE EndContext
  BY <1>3, EndContextKeeps
<1>4. CASE Returns
  <2>1. PICK i \in Open :
          /\ Innermost(i) /\ leaving # "runs"
          /\ \/ TraceEnds(i) \/ TraceFuncEnds(i) \/ ClientCallEnds(i)
             \/ RollsBack(i) \/ CommitBegins(i) \/ CommitReturns(i)
    BY <1>4 DEF Returns
  <2> QED BY <2>1, EndKeeps, RollsBackKeeps, CommitBeginsKeeps, CommitReturnsKeeps
<1>5. CASE \E i \in DOMAIN calls : SettlesItself(i) \/ ContextRollsBack(i)
  BY <1>5, SettlesItselfKeeps, ContextRollsBackKeeps
<1>6. CASE UNCHANGED callVars
  BY <1>6, NoCall DEF callVars, CallsInv, LeavingType, ValueOfTraceFunc, Open, Innermost
<1> QED BY <1>1, <1>2, <1>3, <1>4, <1>5, <1>6 DEF CallsNext

\* However functions leave, whoever recovers their panics and whenever the
\* context ends, spans and transaction outcomes say how the calls went, and no
\* transaction is left open.
THEOREM CallsTold == CallsSpec => []CallsAreTold
<1>1. CallsInv => CallsAreTold
  BY DEF CallsInv, Good, Told, CallsAreTold, OutcomesTold, FailuresMarked
<1> QED BY <1>1, InitCallsInv, NextCallsInv, PTL DEF CallsSpec
-----------------------------------------------------------------------------
(***************************************************************************)
(* BaggageLimits.  What a call has past the cardinality check is counted,  *)
(* and in the form its field is sent in; so is what the contexts and the   *)
(* spans of SafeBaggage's requests carry.                                  *)
(***************************************************************************)

SizedValue == [raw : Raws \cup {""}, form : {"plain", "hashed", "redacted"}, size : Nat]
Pending == [todo : SUBSET (Fields \X Raws), field : Fields \cup {""}, value : SizedValue]

BaggageType ==
    /\ carried = [r \in Requests |-> carried[r]]
    /\ safe \in [Requests -> BOOLEAN]
    /\ setting \in [Requests -> Pending]

\* What request r's context carries.
CarriedInv(r) ==
    /\ \A f \in DOMAIN carried[r] :
         /\ f \in Sensitive => carried[r][f].form # "plain"
         /\ f = "tenant_id" /\ safe[r] => carried[r][f] \in seenValues
    /\ safe[r] => IsFiniteSet(Units(carried[r])) /\ BaggageSize(carried[r]) <= MaxTotalSize

\* What its call has yet to store.
SettingInv(r) ==
    /\ ~safe[r] => setting[r] = Nothing
    /\ setting[r].field \in Sensitive => setting[r].value.form # "plain"
    /\ setting[r].field = "tenant_id" => setting[r].value \in seenValues

CountedInv ==
    /\ IsFiniteSet(seenValues) /\ Cardinality(seenValues) <= Limit
    /\ reported \subseteq seenValues

BaggageInv ==
    /\ BaggageType /\ CountedInv
    /\ \A r \in Requests : CarriedInv(r) /\ SettingInv(r)

LEMMA WrittenSized ==
  ASSUME NEW raw \in Raws \cup {""} PROVE Written(raw) \in SizedValue /\ Written(raw).form = "plain"
BY DEF Written, Value, SizedValue

LEMMA TruncatedSized ==
  ASSUME NEW v \in SizedValue PROVE Truncated(v) \in SizedValue /\ Truncated(v).form = v.form
<1>1. PICK n : n = IF v.size > MaxLength THEN MaxLength ELSE v.size
  OBVIOUS
<1>2. n \in Nat /\ Truncated(v) = [v EXCEPT !.size = n]
  BY <1>1 DEF Truncated, MaxLength, SizedValue
<1> QED BY <1>2 DEF SizedValue

LEMMA NothingPending ==
  /\ Nothing \in Pending /\ Nothing.field = "" /\ Nothing.value = Written("")
  /\ "" \notin Sensitive
BY WrittenSized DEF Nothing, Pending, Sensitive

\* Every value sent for a sensitive field is hashed or redacted.
LEMMA ProcessedIsSafe ==
  ASSUME NEW field \in Fields, NEW raw \in Raws
  PROVE  /\ Processed(field, raw) \in SizedValue
         /\ field \in Sensitive /\ Processed(field, raw).size # 0
              => Processed(field, raw).form # "plain"
<1>1. CASE field = "user_id"
  <2>1. Processed(field, raw) = Hashed(Written(raw))
    BY <1>1 DEF Processed
  <2>2. Hashed(Written(raw)) \in SizedValue /\ Hashed(Written(raw)).form = "hashed"
    BY DEF Hashed, Value, SizedValue
  <2> QED BY <2>1, <2>2
<1>2. CASE field = "note" /\ raw # ""
  <2> DEFINE w == Redacted(Written(raw))
  <2>1. Processed(field, raw) = Truncated(w)
    BY <1>2 DEF Processed
  <2>2. w \in SizedValue /\ w.form = "redacted"
    BY DEF Redacted, Value, SizedValue
  <2> HIDE DEF w
  <2>3. Truncated(w) \in SizedValue /\ Truncated(w).form = w.form
    BY <2>2, TruncatedSized
  <2> QED BY <2>1, <2>2, <2>3
<1>3. CASE field # "user_id" /\ ~(field = "note" /\ raw # "")
  <2>1. Processed(field, raw) = Written(raw)
    BY <1>3 DEF Processed
  <2>2. field \in Sensitive => Written(raw).size = 0
    BY <1>3 DEF Sensitive, Written, Value
  <2> QED BY <2>1, <2>2, WrittenSized
<1> QED BY <1>1, <1>2, <1>3

\* The size check lets a value in only if the context stays within its limit.
LEMMA FitsHolds ==
  ASSUME NEW bag, NEW field, NEW v \in SizedValue,
         IsFiniteSet(Units(bag)), Fits(bag, field, v)
  PROVE  /\ IsFiniteSet(Units(SetMember(bag, field, v)))
         /\ BaggageSize(SetMember(bag, field, v)) <= MaxTotalSize
<1> DEFINE new == {field} \X (0..v.size)
           after == Units(SetMember(bag, field, v))
           before == Units(bag)
<1>1. v.size \in Nat /\ MaxTotalSize \in Nat
  BY BaggageAssumption DEF SizedValue
<1>2. IsFiniteSet(new) /\ Cardinality(new) = v.size + 1
  <2>1. IsFiniteSet({field}) /\ Cardinality({field}) = 1
    BY FS_Singleton
  <2>2. IsFiniteSet(0..v.size) /\ Cardinality(0..v.size) = v.size + 1
    BY <1>1, FS_Interval
  <2>3. Cardinality(new) = 1 * (v.size + 1) /\ IsFiniteSet(new)
    <3> DEFINE one == {field}
               sizes == 0..v.size
    <3>1. new = one \X sizes
      OBVIOUS
    <3> HIDE DEF new
    <3>2. IsFiniteSet(one) /\ IsFiniteSet(sizes) /\ Cardinality(one) = 1 /\ Cardinality(sizes) = v.size + 1
      BY <2>1, <2>2
    <3> HIDE DEF one, sizes
    <3>3. IsFiniteSet(one \X sizes) /\ Cardinality(one \X sizes) = Cardinality(one) * Cardinality(sizes)
      BY <3>2, FS_Product
    <3> QED BY <3>1, <3>2, <3>3
  <2>4. 1 * (v.size + 1) = v.size + 1
    BY <1>1
  <2> QED BY <2>3, <2>4, Zenon
<1>3. after \subseteq before \cup new
  <2>1. ASSUME NEW u \in after PROVE u \in before \cup new
    <3>1. PICK f \in DOMAIN SetMember(bag, field, v) :
            u \in {f} \X (0..SetMember(bag, field, v)[f].size)
      BY DEF Units
    <3>2. CASE f = field
      BY <3>1, <3>2 DEF SetMember
    <3>3. CASE f # field
      <4>1. f \in DOMAIN bag /\ SetMember(bag, field, v)[f] = bag[f]
        BY <3>1, <3>3 DEF SetMember
      <4> QED BY <3>1, <4>1 DEF Units
    <3> QED BY <3>2, <3>3
  <2> QED BY <2>1
<1>4. Cardinality(before) + v.size + 1 <= MaxTotalSize
  BY DEF Fits, BaggageSize
<1> HIDE DEF new, after, before
<1>5. IsFiniteSet(before) /\ Cardinality(before) \in Nat
  BY FS_CardinalityType DEF before
<1>6. /\ IsFiniteSet(before \cup new)
      /\ Cardinality(before \cup new) = Cardinality(before) + Cardinality(new)
                                          - Cardinality(before \cap new)
  BY <1>2, <1>5, FS_Union
<1>7. IsFiniteSet(before \cap new)
  BY <1>5, FS_Intersection
<1>8. Cardinality(before \cap new) \in Nat
  BY <1>7, FS_CardinalityType
<1>9. IsFiniteSet(after) /\ Cardinality(after) <= Cardinality(before \cup new)
  BY <1>3, <1>6, FS_Subset
<1>10. Cardinality(after) \in Nat
  BY <1>9, FS_CardinalityType
<1>11. Cardinality(after) <= MaxTotalSize
  BY <1>1, <1>2, <1>4, <1>5, <1>6, <1>8, <1>9, <1>10
<1> QED BY <1>9, <1>11 DEF after, BaggageSize

\* A tenant is counted before it is used, if there is room.
LEMMA CountKeeps ==
  ASSUME CountedInv, NEW v, RoomFor(v, seenValues)
  PROVE  /\ IsFiniteSet(seenValues \cup {v}) /\ Cardinality(seenValues \cup {v}) <= Limit
<1>1. IsFiniteSet(seenValues) /\ Cardinality(seenValues) \in Nat /\ Limit \in Nat
  BY BaggageAssumption, FS_CardinalityType DEF CountedInv
<1>2. /\ IsFiniteSet(seenValues \cup {v})
      /\ Cardinality(seenValues \cup {v}) =
           IF v \in seenValues THEN Cardinality(seenValues) ELSE Cardinality(seenValues) + 1
  BY <1>1, FS_AddElement
<1> QED BY <1>1, <1>2 DEF CountedInv, RoomFor

-----------------------------------------------------------------------------
LEMMA SetMultipleKeeps ==
  ASSUME BaggageInv, NEW r \in Requests, SetMultiple(r) PROVE BaggageInv'
<1>1. PICK todo \in SUBSET (Fields \X Raws) :
        setting' = [setting EXCEPT ![r].todo = todo]
  <2>1. PICK some \in {s \in SUBSET Fields : Cardinality(s) \in 1..2} :
          \E raw \in [some -> Raws] :
            setting' = [setting EXCEPT ![r].todo = {<<f, raw[f]>> : f \in some}]
    BY DEF SetMultiple
  <2>2. PICK raw \in [some -> Raws] :
          setting' = [setting EXCEPT ![r].todo = {<<f, raw[f]>> : f \in some}]
    BY <2>1
  <2>3. {<<f, raw[f]>> : f \in some} \subseteq Fields \X Raws
    BY <2>1, <2>2
  <2> QED BY <2>2, <2>3
<1>2. safe[r] /\ UNCHANGED <<carried, safe, seenValues, reported>>
  BY DEF SetMultiple
<1>3. BaggageType' /\ CountedInv'
  BY <1>1, <1>2 DEF BaggageInv, BaggageType, CountedInv, Pending
<1>4. ASSUME NEW q \in Requests PROVE CarriedInv(q)' /\ SettingInv(q)'
  <2>1. /\ setting'[q].field = setting[q].field /\ setting'[q].value = setting[q].value
        /\ q = r \/ setting'[q] = setting[q]
    BY <1>1 DEF BaggageInv, BaggageType, Pending
  <2> QED BY <1>2, <2>1 DEF BaggageInv, CarriedInv, SettingInv
<1> QED BY <1>3, <1>4 DEF BaggageInv

\* What remains when only r's call has moved on, and tenants have been counted.
LEMMA CallMoves ==
  ASSUME BaggageInv, NEW r \in Requests, NEW s \in Pending,
         safe[r], setting' = [setting EXCEPT ![r] = s],
         s.field \in Sensitive => s.value.form # "plain",
         s.field = "tenant_id" => s.value \in seenValues',
         UNCHANGED <<carried, safe, reported>>,
         seenValues \subseteq seenValues',
         IsFiniteSet(seenValues'), Cardinality(seenValues') <= Limit
  PROVE  BaggageInv'
<1>1. BaggageType' /\ CountedInv'
  BY DEF BaggageInv, BaggageType, CountedInv
<1>2. ASSUME NEW q \in Requests PROVE CarriedInv(q)' /\ SettingInv(q)'
  <2>1. setting'[q] = IF q = r THEN s ELSE setting[q]
    BY DEF BaggageInv, BaggageType
  <2>2. CarriedInv(q)'
    BY DEF BaggageInv, CarriedInv
  <2> QED BY <2>1, <2>2 DEF BaggageInv, SettingInv
<1> QED BY <1>1, <1>2 DEF BaggageInv

LEMMA CheckKeeps ==
  ASSUME BaggageInv, NEW r \in Requests, NEW item \in Fields \X Raws, Check(r, item)
  PROVE  BaggageInv'
<1> DEFINE field == item[1]
           v == Processed(field, item[2])
<1>1. /\ UNCHANGED <<carried, safe, reported>> /\ field \in Fields /\ item[2] \in Raws
      /\ setting[r] \in Pending /\ setting[r].field = "" /\ item \in setting[r].todo
      /\ v \in SizedValue
  BY ProcessedIsSafe DEF Check, BaggageInv, BaggageType
<1>2. safe[r] /\ IsFiniteSet(seenValues) /\ Cardinality(seenValues) <= Limit
  <2>1. setting[r] # Nothing
    <3>1. Nothing.todo = {}
      BY DEF Nothing
    <3> QED BY <1>1, <3>1
  <2> QED BY <2>1 DEF BaggageInv, SettingInv, BaggageType, CountedInv
<1>3. CASE Stop(r) /\ UNCHANGED seenValues
  BY <1>1, <1>2, <1>3, CallMoves, NothingPending DEF Stop
<1>4. CASE Skip(r, item) /\ UNCHANGED seenValues
  <2> DEFINE s == [setting[r] EXCEPT !.todo = @ \ {item}]
  <2>1. s \in Pending /\ s.field = ""
    BY <1>1 DEF Pending
  <2>2. setting' = [setting EXCEPT ![r] = s]
    BY <1>1, <1>4 DEF Skip
  <2> HIDE DEF s
  <2> QED BY <1>1, <1>2, <1>4, <2>1, <2>2, CallMoves, NothingPending
<1>5. CASE /\ Valid(field, item[2]) /\ v.size # 0
           /\ ~(field = "tenant_id" /\ ~RoomFor(v, seenValues))
           /\ seenValues' = IF field = "tenant_id" THEN seenValues \cup {v} ELSE seenValues
           /\ setting' = [setting EXCEPT
                ![r] = [todo |-> @.todo \ {item}, field |-> field, value |-> v]]
  <2> DEFINE s == [todo |-> setting[r].todo \ {item}, field |-> field, value |-> v]
  <2>1. s \in Pending
    BY <1>1 DEF Pending
  <2>2. setting' = [setting EXCEPT ![r] = s]
    BY <1>5
  <2>3. s.field \in Sensitive => s.value.form # "plain"
    BY <1>1, <1>5, ProcessedIsSafe
  <2>4. /\ seenValues \subseteq seenValues' /\ (s.field = "tenant_id" => s.value \in seenValues')
        /\ IsFiniteSet(seenValues') /\ Cardinality(seenValues') <= Limit
    BY <1>2, <1>5, CountKeeps DEF BaggageInv
  <2> HIDE DEF s
  <2> QED BY <1>1, <1>2, <2>1, <2>2, <2>3, <2>4, CallMoves
<1> QED BY <1>3, <1>4, <1>5 DEF Check

\* What remains when only r's context has changed.
LEMMA ContextChanges ==
  ASSUME BaggageInv, NEW r \in Requests, NEW f, NEW v \in SizedValue,
         carried' = [carried EXCEPT ![r] = SetMember(@, f, v)],
         f \in Sensitive => v.form # "plain",
         f = "tenant_id" /\ safe[r] => v \in seenValues,
         safe[r] => Fits(carried[r], f, v),
         UNCHANGED <<safe, seenValues>>, NEW q \in Requests
  PROVE  CarriedInv(q)'
<1>1. CASE q = r
  <2>1. carried'[q] = SetMember(carried[r], f, v)
    BY <1>1 DEF BaggageInv, BaggageType
  <2>2. /\ DOMAIN carried'[q] = DOMAIN carried[r] \cup {f}
        /\ \A g \in DOMAIN carried'[q] : carried'[q][g] = IF g = f THEN v ELSE carried[r][g]
    BY <2>1 DEF SetMember
  <2>3. \A g \in DOMAIN carried'[q] :
           /\ g \in Sensitive => carried'[q][g].form # "plain"
           /\ g = "tenant_id" /\ safe[q] => carried'[q][g] \in seenValues
    BY <1>1, <2>2 DEF BaggageInv, CarriedInv
  <2>4. safe[q] => /\ IsFiniteSet(Units(SetMember(carried[r], f, v)))
                   /\ BaggageSize(SetMember(carried[r], f, v)) <= MaxTotalSize
    BY <1>1, FitsHolds DEF BaggageInv, CarriedInv
  <2>5. safe[q] => IsFiniteSet(Units(carried'[q])) /\ BaggageSize(carried'[q]) <= MaxTotalSize
    BY <2>1, <2>4
  <2> QED BY <2>3, <2>5 DEF CarriedInv, Units, BaggageSize
<1>2. CASE q # r
  <2>1. carried'[q] = carried[q]
    BY <1>2 DEF BaggageInv, BaggageType
  <2>2. Units(carried[q])' = Units(carried[q]) /\ BaggageSize(carried[q])' = BaggageSize(carried[q])
    BY <2>1
  <2> QED BY <2>1, <2>2 DEF BaggageInv, CarriedInv
<1> QED BY <1>1, <1>2

LEMMA StoreKeeps ==
  ASSUME BaggageInv, NEW r \in Requests, NEW accepted \in BOOLEAN, Store(r, accepted)
  PROVE  BaggageInv'
<1> DEFINE field == setting[r].field
           v == setting[r].value
<1>1. /\ UNCHANGED <<safe, seenValues, reported>> /\ field # ""
      /\ setting[r] \in Pending /\ v \in SizedValue
  BY DEF Store, BaggageInv, BaggageType, Pending
<1>2. safe[r] /\ IsFiniteSet(seenValues) /\ Cardinality(seenValues) <= Limit
  BY <1>1, NothingPending DEF BaggageInv, SettingInv, BaggageType, CountedInv
<1>3. CASE Stop(r) /\ UNCHANGED carried
  BY <1>1, <1>2, <1>3, CallMoves, NothingPending DEF Stop
<1>4. CASE /\ Fits(carried[r], field, v)
           /\ carried' = [carried EXCEPT ![r] = SetMember(@, field, v)]
           /\ setting' = [setting EXCEPT ![r] = [todo |-> @.todo, field |-> "", value |-> Written("")]]
  <2> DEFINE s == [todo |-> setting[r].todo, field |-> "", value |-> Written("")]
  <2>1. s \in Pending /\ s.field \notin Sensitive /\ s.field # "tenant_id"
    BY <1>1, WrittenSized, NothingPending DEF Pending
  <2>2. setting' = [setting EXCEPT ![r] = s]
    BY <1>4
  <2> HIDE DEF s
  <2>3. ASSUME NEW q \in Requests PROVE CarriedInv(q)'
    <3>1. (field \in Sensitive => v.form # "plain") /\ (field = "tenant_id" => v \in seenValues)
      BY DEF BaggageInv, SettingInv
    <3> QED BY <1>1, <1>4, <3>1, ContextChanges
  <2>4. ASSUME NEW q \in Requests PROVE SettingInv(q)'
    <3>1. setting'[q] = IF q = r THEN s ELSE setting[q]
      BY <2>2 DEF BaggageInv, BaggageType
    <3> QED BY <1>1, <1>2, <2>1, <3>1 DEF BaggageInv, SettingInv
  <2>5. BaggageType' /\ CountedInv'
    BY <1>1, <1>4, <2>1, <2>2 DEF BaggageInv, BaggageType, CountedInv
  <2> QED BY <2>3, <2>4, <2>5 DEF BaggageInv
<1> QED BY <1>3, <1>4 DEF Store

LEMMA SetBusinessKeeps ==
  ASSUME BaggageInv, NEW r \in Requests, NEW field \in Fields, NEW raw \in Raws,
         SetBusiness(r, field, raw)
  PROVE  BaggageInv'
<1> DEFINE cut == Truncated(Written(raw))
           v == IF field = "user_id" THEN Hashed(cut) ELSE cut
<1>1. /\ ~safe[r] /\ field # "note" /\ UNCHANGED <<safe, seenValues, setting, reported>>
      /\ carried' = [carried EXCEPT ![r] = SetMember(@, field, v)]
  BY DEF SetBusiness
<1>2. v \in SizedValue /\ (field \in Sensitive => v.form # "plain")
  <2>1. cut \in SizedValue
    BY WrittenSized, TruncatedSized
  <2> HIDE DEF cut
  <2>2. Hashed(cut) \in SizedValue /\ Hashed(cut).form = "hashed"
    BY DEF Hashed, Value, SizedValue
  <2> QED BY <1>1, <2>1, <2>2 DEF Sensitive
<1> HIDE DEF v
<1>3. ASSUME NEW q \in Requests PROVE CarriedInv(q)' /\ SettingInv(q)'
  <2>1. CarriedInv(q)'
    BY <1>1, <1>2, ContextChanges
  <2> QED BY <1>1, <2>1 DEF BaggageInv, SettingInv
<1>4. BaggageType' /\ CountedInv'
  BY <1>1 DEF BaggageInv, BaggageType, CountedInv
<1> QED BY <1>3, <1>4 DEF BaggageInv

LEMMA NextBaggageInv == ASSUME BaggageInv, [BaggageNext]_baggageVars PROVE BaggageInv'
<1>1. CASE UNCHANGED baggageVars
  <2>1. UNCHANGED <<carried, safe, seenValues, setting, reported>>
    BY <1>1 DEF baggageVars
  <2>2. \A r \in Requests : CarriedInv(r)' /\ SettingInv(r)'
    BY <2>1 DEF BaggageInv, CarriedInv, SettingInv
  <2> QED BY <2>1, <2>2 DEF BaggageInv, BaggageType, CountedInv
<1>2. ASSUME NEW r \in Requests, StartSpan(r) PROVE BaggageInv'
  <2>1. /\ safe[r] /\ "tenant_id" \in DOMAIN carried[r]
        /\ reported' = reported \cup {carried[r]["tenant_id"]}
        /\ UNCHANGED <<carried, safe, seenValues, setting>>
    BY <1>2 DEF StartSpan
  <2>2. carried[r]["tenant_id"] \in seenValues
    BY <2>1 DEF BaggageInv, CarriedInv
  <2> QED BY <2>1, <2>2 DEF BaggageInv, BaggageType, CountedInv, CarriedInv, SettingInv, Units,
                            BaggageSize
<1> QED BY <1>1, <1>2, SetMultipleKeeps, CheckKeeps, StoreKeeps, SetBusinessKeeps DEF BaggageNext

\* baggage/schema.go: however many requests set values at once and wherever a
\* call stops, no more than Limit tenants go out, no context of SafeBaggage's
\* outgrows its limit, and no sensitive field is sent as it was written.  For
\* any requests, fields, values and limits.
THEOREM GuardrailsStand == BaggageSpec => []GuardrailsHold
<1>1. BaggageInit => BaggageInv
  <2> SUFFICES ASSUME BaggageInit PROVE BaggageInv
    OBVIOUS
  <2>1. Limit \in Nat /\ MaxTotalSize \in Nat /\ IsFiniteSet({}) /\ Cardinality({}) = 0
    BY BaggageAssumption, FS_EmptySet
  <2>2. ASSUME NEW r \in Requests PROVE Units(carried[r]) = {} /\ DOMAIN carried[r] = {}
    BY DEF BaggageInit, NoBaggage, Units
  <2>3. \A r \in Requests : BaggageSize(carried[r]) = 0 /\ IsFiniteSet(Units(carried[r]))
    BY <2>1, <2>2 DEF BaggageSize
  <2>4. \A r \in Requests : CarriedInv(r)
    BY <2>1, <2>2, <2>3 DEF CarriedInv
  <2>5. \A r \in Requests : SettingInv(r)
    BY NothingPending DEF BaggageInit, SettingInv
  <2>6. BaggageType /\ CountedInv
    <3>1. carried = [r \in Requests |-> NoBaggage] /\ safe \in [Requests -> BOOLEAN]
          /\ seenValues = {} /\ setting = [r \in Requests |-> Nothing] /\ reported = {}
      BY DEF BaggageInit
    <3>2. carried = [r \in Requests |-> carried[r]]
      BY <3>1
    <3>3. setting \in [Requests -> Pending]
      BY <3>1, NothingPending
    <3> QED BY <2>1, <3>1, <3>2, <3>3 DEF BaggageType, CountedInv
  <2> QED BY <2>4, <2>5, <2>6 DEF BaggageInv
<1>2. BaggageInv /\ [BaggageNext]_baggageVars => BaggageInv'
  BY NextBaggageInv
<1>3. BaggageInv => GuardrailsHold
  <2> SUFFICES ASSUME BaggageInv PROVE GuardrailsHold
    OBVIOUS
  <2>1. TenantsAreFew
    <3> DEFINE carrying == {r \in Requests : safe[r] /\ "tenant_id" \in DOMAIN carried[r]}
               out == reported \cup {carried[r]["tenant_id"] : r \in carrying}
    <3>1. out \subseteq seenValues
      BY DEF BaggageInv, CarriedInv, CountedInv
    <3> HIDE DEF out
    <3>2. IsFiniteSet(seenValues) /\ Cardinality(seenValues) <= Limit /\ Limit \in Nat
      BY BaggageAssumption DEF BaggageInv, CountedInv
    <3>3. IsFiniteSet(out) /\ Cardinality(out) <= Cardinality(seenValues)
      BY <3>1, <3>2, FS_Subset
    <3>4. Cardinality(out) \in Nat /\ Cardinality(seenValues) \in Nat
      BY <3>2, <3>3, FS_CardinalityType
    <3>5. Cardinality(out) <= Limit
      BY <3>2, <3>3, <3>4
    <3> QED BY <3>5 DEF TenantsAreFew, out
  <2>2. SizeHeld /\ NothingRaw
    BY DEF BaggageInv, CarriedInv, SizeHeld, NothingRaw
  <2> QED BY <2>1, <2>2 DEF GuardrailsHold
<1> QED BY <1>1, <1>2, <1>3, PTL DEF BaggageSpec
-----------------------------------------------------------------------------
(***************************************************************************)
(* Configuration.  HighestSourceWins and TLSIsKept compare what Init ends   *)
(* with and what the sources say.  The invariant: what is settled so far is *)
(* what the layers make of the sources, and the program's Config says what  *)
(* its last option says; then each setting is followed through the layers.  *)
(***************************************************************************)

ConfigFields == DOMAIN DefaultConfig

\* Of the first n options, the last that names a field, or else the Config they
\* are applied to, says what the program does.
Writes(f, i) == f \in DOMAIN opts[i]
SaidBy(f, n, value) ==
    \/ /\ \A i \in 1..n : ~Writes(f, i)
       /\ value = start[f]
    \/ \E i \in 1..n : /\ Writes(f, i) /\ value = opts[i][f]
                       /\ \A j \in 1..n : Writes(f, j) => j <= i

SourcesType ==
    /\ IsConfig(start) /\ IsEnv(env) /\ IsFile(yaml)
    /\ Len(opts) \in Nat /\ DOMAIN opts = 1..Len(opts)
    /\ \A i \in 1..Len(opts) : IsOption(opts[i])

ProgramSays ==
    /\ DOMAIN explicit = ConfigFields
    /\ applied \in 0..Len(opts)
    /\ \A f \in ConfigFields \ Accumulated : SaidBy(f, applied, explicit[f])
    /\ phase # "options" => applied = Len(opts)

\* What Init has settled on in each phase.
FromEnv == EnvLayer(DefaultConfig)
FromFile == IF Loaded THEN YAMLLayer(FromEnv) ELSE FromEnv
FromProgram == ExplicitLayer(FromFile)
FromPreset == IF FromProgram.preset \in Presets THEN BackendPreset(FromProgram) ELSE FromProgram
FromDevtools == IF FromPreset.devtools THEN Devtools(FromPreset) ELSE FromPreset
Final == SetupDebugMode(FillZeroValues(BuildInfo(FromDevtools)))
Accepted == ~BadVariable(FromProgram) /\ ~BadFile

SettledSoFar ==
    CASE phase \in {"options", "env"} -> DefaultConfig
      [] phase = "yaml" -> FromEnv
      [] phase = "explicit" -> FromFile
      [] phase = "preset" -> FromProgram
      [] phase = "devtools" -> FromPreset
      [] phase = "buildinfo" -> FromDevtools
      [] phase = "ready" -> Final
Late == {"preset", "devtools", "buildinfo", "ready"}
Phases == {"options", "env", "yaml", "explicit", "failed"} \cup Late
SettledInv ==
    /\ phase \in Phases
    /\ phase # "failed" => merged = SettledSoFar
    /\ phase \in Late => Accepted

ConfigInv == SourcesType /\ ProgramSays /\ SettledInv
-----------------------------------------------------------------------------
\* What is settled is a matter of what the sources say, and they stand.
LEMMA SettledStands ==
  ASSUME UNCHANGED inputs, UNCHANGED explicit
  PROVE  /\ FromEnv' = FromEnv /\ FromFile' = FromFile /\ FromProgram' = FromProgram
         /\ FromPreset' = FromPreset /\ FromDevtools' = FromDevtools /\ Final' = Final
         /\ Accepted' = Accepted
<1>1. env' = env /\ yaml' = yaml /\ explicit' = explicit
  BY DEF inputs
<1>2. Loaded' <=> Loaded
  BY <1>1 DEF Loaded
<1>3. FromEnv' = FromEnv
  BY <1>1 DEF FromEnv, EnvLayer, ResolvedEnv, SignalFromEnv, SamplerFromEnv, LogFileFromEnv
<1>4. FromFile' = FromFile
  BY <1>1, <1>2, <1>3 DEF FromFile, YAMLLayer, YAMLConfig
<1>5. FromProgram' = FromProgram
  BY <1>1, <1>4 DEF FromProgram, ExplicitLayer, SamplerSaid, ProtocolSaid
<1>6. FromPreset' = FromPreset
  BY <1>1, <1>5 DEF FromPreset, BackendPreset, PresetHeaders
<1>7. FromDevtools' = FromDevtools
  BY <1>1, <1>6 DEF FromDevtools, Devtools
<1>8. Final' = Final
  BY <1>1, <1>7 DEF Final, BuildInfo, FillZeroValues, SetupDebugMode
<1>9. Accepted' = Accepted
  <2>1. BadFile' <=> BadFile
    BY <1>1, <1>2 DEF BadFile
  <2>2. BadVariable(FromProgram)' <=> BadVariable(FromProgram)
    BY <1>1, <1>5, Zenon DEF BadVariable
  <2> QED BY <2>1, <2>2, Zenon DEF Accepted
<1> QED BY <1>3, <1>4, <1>5, <1>6, <1>7, <1>8, <1>9

\* Once the options are applied nothing changes what the sources say.
LEMMA SourcesStand ==
  ASSUME SourcesType, ProgramSays, phase # "options" \/ applied = Len(opts),
         UNCHANGED inputs, UNCHANGED <<applied, explicit>>
  PROVE  SourcesType' /\ ProgramSays'
<1>1. opts' = opts /\ start' = start /\ env' = env /\ yaml' = yaml
  BY DEF inputs
<1> QED BY <1>1, Zenon DEF SourcesType, ProgramSays, SaidBy, Writes, IsConfig, IsOption, IsEnv, IsFile

LEMMA InitConfigInv == ASSUME ConfigInit PROVE ConfigInv
<1>1. PICK scenario \in Scenarios : /\ start \in scenario.starts /\ opts \in scenario.lists
                                   /\ env \in scenario.envs /\ yaml \in scenario.yamls
  BY DEF ConfigInit
<1>2. WellFormed(scenario)
  BY ConfigAssumption
<1>3. SourcesType
  BY <1>1, <1>2 DEF WellFormed, SourcesType
<1>4. phase = "options" /\ applied = 0 /\ explicit = start /\ merged = DefaultConfig
  BY DEF ConfigInit
<1>5. ProgramSays
  BY <1>3, <1>4 DEF SourcesType, ProgramSays, SaidBy, IsConfig, ConfigFields
<1>6. SettledInv
  BY <1>4 DEF SettledInv, SettledSoFar, Phases, Late
<1> QED BY <1>3, <1>5, <1>6 DEF ConfigInv

LEMMA ApplyOptionKeeps == ASSUME ConfigInv, ApplyOption PROVE ConfigInv'
<1>1. SourcesType /\ ProgramSays /\ SettledInv
  BY DEF ConfigInv
<1>2. /\ phase = "options" /\ phase' = "options" /\ merged' = merged
      /\ opts' = opts /\ start' = start /\ env' = env /\ yaml' = yaml
      /\ applied < Len(opts) /\ applied' = applied + 1
      /\ explicit' = Applied(opts[applied + 1], explicit)
  BY DEF ApplyOption, inputs
<1>3. SourcesType'
  BY <1>1, <1>2 DEF SourcesType, IsConfig, IsOption, IsEnv, IsFile
<1>4. SettledInv'
  BY <1>1, <1>2 DEF SettledInv, SettledSoFar, Phases, Late
<1>5. applied \in Nat /\ applied + 1 \in 0..Len(opts) /\ Len(opts) \in Nat
  BY <1>1, <1>2 DEF ProgramSays, SourcesType
<1>6. DOMAIN explicit' = ConfigFields
  BY <1>1, <1>2 DEF ProgramSays, Applied
<1>7. ASSUME NEW f \in ConfigFields \ Accumulated
      PROVE  SaidBy(f, applied, explicit[f])'
  <2>1. explicit'[f] = IF Writes(f, applied + 1) THEN opts[applied + 1][f] ELSE explicit[f]
    BY <1>1, <1>2, <1>7 DEF ProgramSays, Applied, Writes
  <2>2. SaidBy(f, applied, explicit[f])
    BY <1>1 DEF ProgramSays
  <2>3. SaidBy(f, applied + 1, explicit'[f])
    <3>1. CASE Writes(f, applied + 1)
      BY <1>5, <2>1, <3>1 DEF SaidBy
    <3>2. CASE ~Writes(f, applied + 1)
      <4>1. \A i \in 1..(applied + 1) : Writes(f, i) => i \in 1..applied
        BY <1>5, <3>2
      <4>2. explicit'[f] = explicit[f]
        BY <2>1, <3>2
      <4>3. CASE (\A i \in 1..applied : ~Writes(f, i)) /\ explicit[f] = start[f]
        BY <4>1, <4>2, <4>3 DEF SaidBy
      <4>4. ASSUME NEW i \in 1..applied, Writes(f, i), explicit[f] = opts[i][f],
                   \A j \in 1..applied : Writes(f, j) => j <= i
            PROVE  SaidBy(f, applied + 1, explicit'[f])
        <5>1. i \in 1..(applied + 1)
          BY <1>5
        <5> QED BY <4>1, <4>2, <4>4, <5>1 DEF SaidBy
      <4> QED BY <2>2, <4>3, <4>4 DEF SaidBy
    <3> QED BY <3>1, <3>2
  <2> QED BY <1>2, <2>3 DEF SaidBy, Writes
<1>8. ProgramSays'
  BY <1>2, <1>5, <1>6, <1>7 DEF ProgramSays
<1> QED BY <1>3, <1>4, <1>8 DEF ConfigInv

LEMMA LayersKeep ==
  ASSUME ConfigInv,
         \/ OptionsDone \/ ApplyEnvLayer \/ ApplyYAMLLayer \/ ApplyExplicitLayer
         \/ ApplyBackendPreset \/ ApplyDevtools \/ ApplyBuildInfo
  PROVE  ConfigInv'
<1>1. UNCHANGED inputs /\ UNCHANGED <<applied, explicit>>
  BY DEF OptionsDone, ApplyEnvLayer, ApplyYAMLLayer, ApplyExplicitLayer, ApplyBackendPreset,
         ApplyDevtools, ApplyBuildInfo
<1>2. phase # "options" \/ applied = Len(opts)
  BY DEF OptionsDone, ApplyEnvLayer, ApplyYAMLLayer, ApplyExplicitLayer, ApplyBackendPreset,
         ApplyDevtools, ApplyBuildInfo
<1>3. SourcesType' /\ ProgramSays'
  BY <1>1, <1>2, SourcesStand DEF ConfigInv
<1>4. SettledInv
  BY DEF ConfigInv
<1> USE DEF SettledInv, SettledSoFar, Phases, Late
<1>5. CASE OptionsDone
  BY <1>3, <1>4, <1>5 DEF OptionsDone, ConfigInv
<1>6. CASE ApplyEnvLayer
  BY <1>1, <1>3, <1>4, <1>6, SettledStands DEF ApplyEnvLayer, ConfigInv, FromEnv
<1>7. CASE ApplyYAMLLayer
  BY <1>1, <1>3, <1>4, <1>7, SettledStands DEF ApplyYAMLLayer, ConfigInv, FromFile
<1>8. CASE ApplyExplicitLayer
  <2>1. merged = FromFile /\ ExplicitLayer(merged) = FromProgram
    BY <1>4, <1>8 DEF ApplyExplicitLayer, FromProgram
  <2>2. phase' # "failed" => Accepted
    BY <1>8, <2>1 DEF ApplyExplicitLayer, Accepted
  <2> QED BY <1>1, <1>3, <1>4, <1>8, <2>1, <2>2, SettledStands DEF ApplyExplicitLayer, ConfigInv
<1>9. CASE ApplyBackendPreset
  BY <1>1, <1>3, <1>4, <1>9, SettledStands DEF ApplyBackendPreset, ConfigInv, FromPreset
<1>10. CASE ApplyDevtools
  BY <1>1, <1>3, <1>4, <1>10, SettledStands DEF ApplyDevtools, ConfigInv, FromDevtools
<1>11. CASE ApplyBuildInfo
  BY <1>1, <1>3, <1>4, <1>11, SettledStands DEF ApplyBuildInfo, ConfigInv, Final
<1> QED BY <1>5, <1>6, <1>7, <1>8, <1>9, <1>10, <1>11

LEMMA NextConfigInv == ASSUME ConfigInv, [ConfigNext]_configVars PROVE ConfigInv'
<1>1. CASE UNCHANGED configVars
  <2>1. UNCHANGED inputs /\ UNCHANGED <<phase, applied, explicit, merged>>
    BY <1>1 DEF configVars
  <2>2. SourcesType' /\ ProgramSays'
    <3>1. opts' = opts /\ start' = start /\ env' = env /\ yaml' = yaml
      BY <2>1 DEF inputs
    <3> QED BY <2>1, <3>1, Zenon
            DEF ConfigInv, SourcesType, ProgramSays, SaidBy, Writes, IsConfig, IsOption, IsEnv, IsFile
  <2>3. SettledInv'
    BY <2>1, SettledStands DEF ConfigInv, SettledInv, SettledSoFar
  <2> QED BY <2>2, <2>3 DEF ConfigInv
<1> QED BY <1>1, ApplyOptionKeeps, LayersKeep DEF ConfigNext
-----------------------------------------------------------------------------
(* What each layer makes of the fields. *)

LEMMA FieldsOfConfig ==
  /\ {"name", "version", "environment", "endpoint", "protocol", "insecure", "sampler", "numbers",
      "metrics", "logs", "versionChosen", "environmentChosen", "protocolChosen", "samplerChosen",
      "headers", "attrs", "debug", "custom", "signals", "logFile", "preset", "devtools"} \subseteq ConfigFields
  /\ DefaultConfig.name = Default /\ DefaultConfig.environment = Default
  /\ DefaultConfig.endpoint = Unset /\ DefaultConfig.protocol = "http"
  /\ DefaultConfig.sampler = Default /\ DefaultConfig.debug = Unset
  /\ DefaultConfig.protocolChosen = FALSE
BY DEF ConfigFields, DefaultConfig

LEMMA EnvFields ==
  ASSUME SourcesType
  PROVE  /\ DOMAIN FromEnv = ConfigFields
         /\ FromEnv.name = IfSet(env.name, Default)
         /\ FromEnv.environment = Default
         /\ FromEnv.endpoint = Sanitized(env.endpoint)
         /\ FromEnv.protocol = IfSet(Parsed(env.protocol), "http")
         /\ FromEnv.protocolChosen = FALSE
         /\ FromEnv.sampler = IfSet(Parsed(env.sampler), Default)
         /\ FromEnv.debug = Unset
         /\ FromEnv.headers = env.headers
         /\ FromEnv.attrs = env.attrs
         /\ \A s \in Signals : /\ "endpoint" \in DOMAIN FromEnv.signals[s]
                              /\ FromEnv.signals[s].endpoint = Sanitized(env.signals[s].endpoint)
<1>1. IsEnv(env)
  BY DEF SourcesType
<1>2. /\ ResolvedEnv.name = env.name /\ ResolvedEnv.endpoint = Sanitized(env.endpoint)
      /\ ResolvedEnv.protocol = Parsed(env.protocol) /\ ResolvedEnv.sampler = Parsed(env.sampler)
      /\ ResolvedEnv.headers = env.headers /\ ResolvedEnv.attrs = env.attrs
      /\ ResolvedEnv.signals = [s \in Signals |-> SignalFromEnv(s)]
  BY <1>1 DEF IsEnv, ResolvedEnv, SamplerFromEnv
<1>3. /\ DOMAIN FromEnv = ConfigFields
      /\ FromEnv.name = IfSet(ResolvedEnv.name, DefaultConfig.name)
      /\ FromEnv.environment = DefaultConfig.environment
      /\ FromEnv.endpoint = IfSet(ResolvedEnv.endpoint, DefaultConfig.endpoint)
      /\ FromEnv.protocol = IfSet(ResolvedEnv.protocol, DefaultConfig.protocol)
      /\ FromEnv.protocolChosen = DefaultConfig.protocolChosen
      /\ FromEnv.sampler = IfSet(ResolvedEnv.sampler, DefaultConfig.sampler)
      /\ FromEnv.debug = DefaultConfig.debug
      /\ FromEnv.headers = ResolvedEnv.headers /\ FromEnv.attrs = ResolvedEnv.attrs
      /\ FromEnv.signals = ResolvedEnv.signals
  BY FieldsOfConfig DEF FromEnv, EnvLayer, ConfigFields
<1>4. ASSUME NEW s \in Signals
      PROVE  /\ "endpoint" \in DOMAIN FromEnv.signals[s]
             /\ FromEnv.signals[s].endpoint = Sanitized(env.signals[s].endpoint)
  <2>1. FromEnv.signals[s] = SignalFromEnv(s) /\ "endpoint" \in DOMAIN env.signals[s]
    BY <1>1, <1>2, <1>3 DEF IsEnv
  <2> QED BY <2>1 DEF SignalFromEnv
<1>5. FromEnv.endpoint = Sanitized(env.endpoint)
  BY <1>2, <1>3, FieldsOfConfig DEF IfSet
<1> QED BY <1>2, <1>3, <1>4, <1>5, FieldsOfConfig

\* An endpoint from above takes away those of single signals.
LEMMA Overridden ==
  ASSUME NEW signals, NEW endpoint,
         \A s \in Signals : "endpoint" \in DOMAIN signals[s]
  PROVE  \A s \in Signals :
           /\ "endpoint" \in DOMAIN OverrideSignalEndpoints(signals, endpoint)[s]
           /\ OverrideSignalEndpoints(signals, endpoint)[s].endpoint =
                IF endpoint = Unset THEN signals[s].endpoint ELSE Unset
BY DEF OverrideSignalEndpoints

LEMMA ReadFileFields ==
  ASSUME SourcesType, Loaded
  PROVE  /\ DOMAIN FromFile = ConfigFields
         /\ FromFile.name = IfSet(yaml.name, YieldToResourceName(FromEnv.name, yaml))
         /\ FromFile.environment = IfSet(yaml.environment, Default)
         /\ FromFile.endpoint = IfSet(Sanitized(yaml.endpoint), Sanitized(env.endpoint))
         /\ FromFile.protocol = IfSet(Parsed(yaml.protocol), FromEnv.protocol)
         /\ FromFile.protocolChosen <=> Parsed(yaml.protocol) # Unset
         /\ FromFile.sampler = FromEnv.sampler
         /\ FromFile.debug = IfSet(yaml.debug, Unset)
         /\ FromFile.headers = MergeHeaders(env.headers, yaml.headers)
         /\ FromFile.attrs = Overlaid(yaml.attrs, env.attrs)
         /\ FromFile.signals = OverrideSignalEndpoints(FromEnv.signals, Sanitized(yaml.endpoint))
<1>1. IsFile(yaml)
  BY DEF SourcesType
<1>2. /\ YAMLConfig.name = yaml.name /\ YAMLConfig.environment = yaml.environment
      /\ YAMLConfig.endpoint = Sanitized(yaml.endpoint) /\ YAMLConfig.protocol = Parsed(yaml.protocol)
      /\ YAMLConfig.headers = yaml.headers /\ YAMLConfig.attrs = yaml.attrs /\ YAMLConfig.debug = yaml.debug
  BY <1>1 DEF IsFile, YAMLConfig
<1>3. FromFile = YAMLLayer(FromEnv)
  BY DEF FromFile
<1>4. YieldToResourceName(FromEnv.name, YAMLConfig) = YieldToResourceName(FromEnv.name, yaml)
  BY <1>2 DEF YieldToResourceName
<1>5. /\ DOMAIN FromFile = ConfigFields
      /\ FromFile.name = IfSet(YAMLConfig.name, YieldToResourceName(FromEnv.name, YAMLConfig))
      /\ FromFile.environment = IfSet(YAMLConfig.environment, FromEnv.environment)
      /\ FromFile.endpoint = IfSet(YAMLConfig.endpoint, FromEnv.endpoint)
      /\ FromFile.protocol = IfSet(YAMLConfig.protocol, FromEnv.protocol)
      /\ FromFile.protocolChosen <=> FromEnv.protocolChosen \/ YAMLConfig.protocol # Unset
      /\ FromFile.sampler = FromEnv.sampler
      /\ FromFile.debug = IfSet(YAMLConfig.debug, FromEnv.debug)
      /\ FromFile.headers = MergeHeaders(FromEnv.headers, YAMLConfig.headers)
      /\ FromFile.attrs = Overlaid(YAMLConfig.attrs, FromEnv.attrs)
      /\ FromFile.signals = OverrideSignalEndpoints(FromEnv.signals, YAMLConfig.endpoint)
  BY <1>3, EnvFields, FieldsOfConfig DEF YAMLLayer
<1> QED BY <1>2, <1>4, <1>5, EnvFields

LEMMA ProgramFields ==
  ASSUME DOMAIN explicit = ConfigFields
  PROVE  /\ DOMAIN FromProgram = ConfigFields
         /\ FromProgram.name = IfChosen(explicit.name, FALSE, YieldToResourceName(FromFile.name, explicit))
         /\ FromProgram.environment =
              IfChosen(explicit.environment, explicit.environmentChosen, FromFile.environment)
         /\ FromProgram.environmentChosen = explicit.environmentChosen
         /\ FromProgram.endpoint = IfSet(explicit.endpoint, FromFile.endpoint)
         /\ FromProgram.protocol = IF ProtocolSaid THEN explicit.protocol ELSE FromFile.protocol
         /\ FromProgram.protocolChosen <=> ProtocolSaid \/ FromFile.protocolChosen
         /\ FromProgram.sampler = IF SamplerSaid THEN explicit.sampler ELSE FromFile.sampler
         /\ FromProgram.samplerChosen <=> SamplerSaid \/ FromFile.samplerChosen
         /\ FromProgram.debug = IfSet(explicit.debug, FromFile.debug)
         /\ FromProgram.headers = MergeHeaders(FromFile.headers, explicit.headers)
         /\ FromProgram.attrs = Overlaid(explicit.attrs, FromFile.attrs)
         /\ FromProgram.signals = OverrideSignalEndpoints(FromFile.signals, explicit.endpoint)
         /\ FromProgram.custom = explicit.custom
BY FieldsOfConfig DEF FromProgram, ExplicitLayer

\* Presets and devtools fill in an endpoint and what belongs to it; the rest stays.
LEMMA PresetFields ==
  ASSUME DOMAIN FromProgram = ConfigFields
  PROVE  /\ DOMAIN FromPreset = ConfigFields
         /\ FromPreset.preset = FromProgram.preset /\ FromPreset.devtools = FromProgram.devtools
         /\ FromPreset.name = FromProgram.name /\ FromPreset.attrs = FromProgram.attrs
         /\ FromPreset.environment = FromProgram.environment
         /\ FromPreset.environmentChosen = FromProgram.environmentChosen
         /\ FromPreset.sampler = FromProgram.sampler /\ FromPreset.debug = FromProgram.debug
         /\ FromPreset.signals = FromProgram.signals /\ FromPreset.custom = FromProgram.custom
         /\ FromPreset.metrics = FromProgram.metrics /\ FromPreset.logs = FromProgram.logs
         /\ FromPreset.protocol =
              IF FromProgram.preset \notin Presets \/ FromProgram.protocolChosen THEN FromProgram.protocol
              ELSE IF FromProgram.preset = "honeycomb" THEN "http" ELSE "grpc"
         /\ FromProgram.preset \in Presets =>
              /\ FromPreset.insecure = FALSE
              /\ FromPreset.headers = PresetHeaders(FromProgram.preset, FromProgram.headers)
              /\ FromPreset.endpoint = IF FromProgram.endpoint \in {Unset, Localhost}
                                       THEN At(FromProgram.preset, "bare") ELSE FromProgram.endpoint
         /\ FromProgram.preset \notin Presets => FromPreset = FromProgram
<1>1. CASE FromProgram.preset \in Presets
  <2>1. FromPreset = BackendPreset(FromProgram)
    BY <1>1 DEF FromPreset
  <2> QED BY <1>1, <2>1, FieldsOfConfig DEF BackendPreset
<1>2. CASE FromProgram.preset \notin Presets
  BY <1>2 DEF FromPreset
<1> QED BY <1>1, <1>2

LEMMA DevtoolsFields ==
  ASSUME DOMAIN FromPreset = ConfigFields
  PROVE  /\ DOMAIN FromDevtools = ConfigFields
         /\ FromDevtools.preset = FromPreset.preset /\ FromDevtools.devtools = FromPreset.devtools
         /\ FromDevtools.name = FromPreset.name /\ FromDevtools.attrs = FromPreset.attrs
         /\ FromDevtools.environment = FromPreset.environment
         /\ FromDevtools.environmentChosen = FromPreset.environmentChosen
         /\ FromDevtools.sampler = FromPreset.sampler /\ FromDevtools.insecure = FromPreset.insecure
         /\ FromDevtools.signals = FromPreset.signals /\ FromDevtools.custom = FromPreset.custom
         /\ FromDevtools.headers = FromPreset.headers
         /\ FromDevtools.endpoint =
              IF FromPreset.devtools THEN IfSet(FromPreset.endpoint, At("devtools", "http"))
              ELSE FromPreset.endpoint
         /\ FromDevtools.protocol =
              IF FromPreset.devtools /\ FromPreset.endpoint = Unset THEN "http" ELSE FromPreset.protocol
         /\ FromDevtools.debug =
              IF FromPreset.devtools /\ FromPreset.debug = Unset /\ ~env.debug THEN "off"
              ELSE FromPreset.debug
<1>1. CASE FromPreset.devtools
  <2>1. FromDevtools = Devtools(FromPreset)
    BY <1>1 DEF FromDevtools
  <2> QED BY <1>1, <2>1, FieldsOfConfig DEF Devtools
<1>2. CASE ~FromPreset.devtools
  BY <1>2 DEF FromDevtools
<1> QED BY <1>1, <1>2

LEMMA FinalFields ==
  ASSUME DOMAIN FromDevtools = ConfigFields
  PROVE  /\ DOMAIN Final = ConfigFields
         /\ Final.preset = FromDevtools.preset /\ Final.devtools = FromDevtools.devtools
         /\ Final.name = Stamped(FromDevtools.attrs, "service.name", FromDevtools.name, env.build.name)
         /\ Final.attrs = FromDevtools.attrs /\ Final.environment = FromDevtools.environment
         /\ Final.environmentChosen = FromDevtools.environmentChosen
         /\ Final.sampler = IfSet(FromDevtools.sampler, Default)
         /\ Final.insecure = FromDevtools.insecure /\ Final.protocol = FromDevtools.protocol
         /\ Final.signals = FromDevtools.signals /\ Final.custom = FromDevtools.custom
         /\ Final.headers = FromDevtools.headers
         /\ Final.endpoint = Sanitized(FromDevtools.endpoint)
         /\ Final.debug = IfSet(FromDevtools.debug, IF env.debug \/ ~env.production THEN "on" ELSE "off")
<1> DEFINE built == BuildInfo(FromDevtools)
           filled == FillZeroValues(built)
<1>1. /\ DOMAIN built = ConfigFields
      /\ built.preset = FromDevtools.preset /\ built.devtools = FromDevtools.devtools
      /\ built.name = Stamped(FromDevtools.attrs, "service.name", FromDevtools.name, env.build.name)
      /\ built.attrs = FromDevtools.attrs /\ built.environment = FromDevtools.environment
      /\ built.environmentChosen = FromDevtools.environmentChosen
      /\ built.sampler = FromDevtools.sampler /\ built.debug = FromDevtools.debug
      /\ built.insecure = FromDevtools.insecure /\ built.protocol = FromDevtools.protocol
      /\ built.signals = FromDevtools.signals /\ built.custom = FromDevtools.custom
      /\ built.headers = FromDevtools.headers
      /\ built.endpoint = Sanitized(FromDevtools.endpoint)
  BY FieldsOfConfig DEF BuildInfo
<1> HIDE DEF built
<1>2. /\ DOMAIN filled = ConfigFields /\ filled.sampler = IfSet(built.sampler, Default)
      /\ \A f \in ConfigFields \ {"numbers", "sampler"} : filled[f] = built[f]
  BY <1>1, FieldsOfConfig DEF FillZeroValues
<1> HIDE DEF filled
<1>3. /\ DOMAIN SetupDebugMode(filled) = ConfigFields
      /\ \A f \in ConfigFields \ {"debug"} : SetupDebugMode(filled)[f] = filled[f]
      /\ SetupDebugMode(filled).debug =
           IfSet(filled.debug, IF env.debug \/ ~env.production THEN "on" ELSE "off")
  BY <1>2, FieldsOfConfig DEF SetupDebugMode
<1>4. Final = SetupDebugMode(filled)
  BY DEF Final, built, filled
<1> QED BY <1>1, <1>2, <1>3, <1>4, FieldsOfConfig
-----------------------------------------------------------------------------
(* The reference: what the program says, and the highest of what is said. *)

Plain == ConfigFields \ Accumulated

\* The reference finds the option that was applied last.
LEMMA ProgramIsExplicit ==
  ASSUME SourcesType, ProgramSays, phase # "options", NEW f \in Plain
  PROVE  Program(f) = IF explicit[f] = DefaultConfig[f] /\ ~ChosenByOption(f) THEN Unset ELSE explicit[f]
<1> DEFINE latest == CHOOSE i \in Writers(f) : \A j \in Writers(f) : j <= i
           value == IF Writers(f) = {} THEN start[f] ELSE opts[latest][f]
<1>1. DOMAIN opts = 1..Len(opts) /\ Len(opts) \in Nat
  BY DEF SourcesType
<1>2. SaidBy(f, Len(opts), explicit[f])
  BY DEF ProgramSays, Plain
<1>3. \A i : i \in Writers(f) <=> i \in 1..Len(opts) /\ Writes(f, i)
  BY <1>1 DEF Writers, Writes
<1>4. value = explicit[f]
  <2>1. CASE (\A i \in 1..Len(opts) : ~Writes(f, i)) /\ explicit[f] = start[f]
    BY <1>3, <2>1
  <2>2. ASSUME NEW i \in 1..Len(opts), Writes(f, i), explicit[f] = opts[i][f],
               \A j \in 1..Len(opts) : Writes(f, j) => j <= i
        PROVE  value = explicit[f]
    <3>1. i \in Writers(f) /\ \A j \in Writers(f) : j <= i
      BY <1>3, <2>2
    <3>2. latest \in Writers(f) /\ \A j \in Writers(f) : j <= latest
      BY <3>1
    <3>3. latest \in Nat /\ i \in Nat /\ latest <= i /\ i <= latest
      BY <1>1, <1>3, <3>1, <3>2
    <3>4. latest = i
      BY <3>3
    <3> QED BY <2>2, <3>1, <3>4
  <2> QED BY <1>2, <2>1, <2>2 DEF SaidBy
<1> QED BY <1>4 DEF Program

LEMMA ExplicitIsClean ==
  ASSUME SourcesType, ProgramSays, NEW f \in Plain
  PROVE  explicit[f] # Bad
<1>1. SaidBy(f, applied, explicit[f]) /\ applied \in 0..Len(opts) /\ Len(opts) \in Nat
  BY DEF ProgramSays, SourcesType, Plain
<1>2. start[f] # Bad
  BY DEF SourcesType, IsConfig, Plain, ConfigFields
<1>3. ASSUME NEW i \in 1..applied, Writes(f, i) PROVE opts[i][f] # Bad
  <2>1. IsOption(opts[i])
    BY <1>1 DEF SourcesType
  <2> QED BY <1>3, <2>1 DEF IsOption, Writes
<1> QED BY <1>1, <1>2, <1>3 DEF SaidBy

\* A choice is recorded just when an option made it.
LEMMA ChoiceIsRecorded ==
  ASSUME SourcesType, ProgramSays, phase # "options", NEW f \in DOMAIN ChosenFlag,
         ChosenFlag[f] \in Plain
  PROVE  explicit[ChosenFlag[f]] <=> ChosenByOption(f)
<1> DEFINE flag == ChosenFlag[f]
<1>1. SaidBy(flag, Len(opts), explicit[flag]) /\ DOMAIN opts = 1..Len(opts)
  BY DEF ProgramSays, SourcesType, Plain
<1>2. start[flag] = FALSE
  BY DEF SourcesType, IsConfig
<1>3. \A i \in 1..Len(opts) : Writes(flag, i) => opts[i][flag] = TRUE
  BY DEF SourcesType, IsOption, Writes
<1>4. \A i : i \in Writers(flag) <=> i \in 1..Len(opts) /\ Writes(flag, i)
  BY <1>1 DEF Writers, Writes
<1>5. CASE (\A i \in 1..Len(opts) : ~Writes(flag, i)) /\ explicit[flag] = start[flag]
  BY <1>2, <1>4, <1>5 DEF ChosenByOption
<1>6. CASE \E i \in 1..Len(opts) : Writes(flag, i) /\ explicit[flag] = opts[i][flag]
  BY <1>3, <1>4, <1>6 DEF ChosenByOption
<1> QED BY <1>1, <1>5, <1>6 DEF SaidBy

LEMMA HighestIs ==
  ASSUME NEW said, Len(said) \in Nat, DOMAIN said = 1..Len(said),
         NEW i \in DOMAIN said, i = Len(said) \/ said[i] \notin Silent,
         \A j \in 1..(i - 1) : said[j] \in Silent
  PROVE  Highest(said) = said[i]
<1> DEFINE IsFirst(k) == /\ k = Len(said) \/ said[k] \notin Silent
                         /\ \A j \in 1..(k - 1) : said[j] \in Silent
           first == CHOOSE k \in DOMAIN said : IsFirst(k)
<1>1. first \in DOMAIN said /\ IsFirst(first)
  <2>1. i \in DOMAIN said /\ IsFirst(i)
    OBVIOUS
  <2> QED BY <2>1
<1>2. Highest(said) = said[first]
  BY DEF Highest
<1> HIDE DEF first
<1>3. CASE first < i
  <2>1. first \in 1..(i - 1) /\ first # Len(said)
    BY <1>1, <1>3
  <2> QED BY <1>1, <2>1
<1>4. CASE i < first
  <2>1. i \in 1..(first - 1) /\ i # Len(said)
    BY <1>1, <1>4
  <2> QED BY <1>1, <2>1
<1>5. first \in Nat /\ i \in Nat
  BY <1>1
<1> QED BY <1>2, <1>3, <1>4, <1>5

First(x, y) == IF x \in Silent THEN y ELSE x

LEMMA HighestOfThree ==
  ASSUME NEW x, NEW y, NEW z
  PROVE  Highest(<<x, y, z>>) = First(x, First(y, z))
<1> DEFINE said == <<x, y, z>>
<1>1. DOMAIN said = 1..3 /\ Len(said) = 3
      /\ said[1] = x /\ said[2] = y /\ said[3] = z
  OBVIOUS
<1> HIDE DEF said
<1>2. /\ \A j \in 1..(1 - 1) : FALSE
      /\ \A j \in 1..(2 - 1) : j = 1
      /\ \A j \in 1..(3 - 1) : j = 1 \/ j = 2
  OBVIOUS
<1>3. CASE x \notin Silent
  <2>1. 1 \in DOMAIN said /\ \A j \in 1..(1 - 1) : said[j] \in Silent
    BY <1>1, <1>2, <1>3
  <2>2. Highest(said) = said[1]
    BY <1>1, <1>3, <2>1, HighestIs
  <2> QED BY <1>1, <1>3, <2>2 DEF First, said
<1>4. CASE x \in Silent /\ y \notin Silent
  <2>1. 2 \in DOMAIN said /\ \A j \in 1..(2 - 1) : said[j] \in Silent
    BY <1>1, <1>2, <1>4
  <2>2. Highest(said) = said[2]
    BY <1>1, <1>4, <2>1, HighestIs
  <2> QED BY <1>1, <1>4, <2>2 DEF First, said
<1>5. CASE x \in Silent /\ y \in Silent
  <2>1. 3 \in DOMAIN said /\ \A j \in 1..(3 - 1) : said[j] \in Silent
    BY <1>1, <1>2, <1>5
  <2>2. Highest(said) = said[3]
    BY <1>1, <2>1, HighestIs
  <2> QED BY <1>1, <1>5, <2>2 DEF First, said
<1> QED BY <1>3, <1>4, <1>5

LEMMA HighestOfFour ==
  ASSUME NEW x, NEW y, NEW z, NEW u
  PROVE  Highest(<<x, y, z, u>>) = First(x, First(y, First(z, u)))
<1> DEFINE said == <<x, y, z, u>>
<1>1. DOMAIN said = 1..4 /\ Len(said) = 4
      /\ said[1] = x /\ said[2] = y /\ said[3] = z /\ said[4] = u
  OBVIOUS
<1> HIDE DEF said
<1>2. /\ \A j \in 1..(1 - 1) : FALSE
      /\ \A j \in 1..(2 - 1) : j = 1
      /\ \A j \in 1..(3 - 1) : j = 1 \/ j = 2
      /\ \A j \in 1..(4 - 1) : j = 1 \/ j = 2 \/ j = 3
  OBVIOUS
<1>3. CASE x \notin Silent
  <2>1. 1 \in DOMAIN said /\ \A j \in 1..(1 - 1) : said[j] \in Silent
    BY <1>1, <1>2, <1>3
  <2>2. Highest(said) = said[1]
    BY <1>1, <1>3, <2>1, HighestIs
  <2> QED BY <1>1, <1>3, <2>2 DEF First, said
<1>4. CASE x \in Silent /\ y \notin Silent
  <2>1. 2 \in DOMAIN said /\ \A j \in 1..(2 - 1) : said[j] \in Silent
    BY <1>1, <1>2, <1>4
  <2>2. Highest(said) = said[2]
    BY <1>1, <1>4, <2>1, HighestIs
  <2> QED BY <1>1, <1>4, <2>2 DEF First, said
<1>5. CASE x \in Silent /\ y \in Silent /\ z \notin Silent
  <2>1. 3 \in DOMAIN said /\ \A j \in 1..(3 - 1) : said[j] \in Silent
    BY <1>1, <1>2, <1>5
  <2>2. Highest(said) = said[3]
    BY <1>1, <1>5, <2>1, HighestIs
  <2> QED BY <1>1, <1>5, <2>2 DEF First, said
<1>6. CASE x \in Silent /\ y \in Silent /\ z \in Silent
  <2>1. 4 \in DOMAIN said /\ \A j \in 1..(4 - 1) : said[j] \in Silent
    BY <1>1, <1>2, <1>6
  <2>2. Highest(said) = said[4]
    BY <1>1, <2>1, HighestIs
  <2> QED BY <1>1, <1>6, <2>2 DEF First, said
<1> QED BY <1>3, <1>4, <1>5, <1>6

LEMMA HighestOfFive ==
  ASSUME NEW x, NEW y, NEW z, NEW u, NEW v
  PROVE  Highest(<<x, y, z, u, v>>) = First(x, First(y, First(z, First(u, v))))
<1> DEFINE said == <<x, y, z, u, v>>
<1>1. DOMAIN said = 1..5 /\ Len(said) = 5
      /\ said[1] = x /\ said[2] = y /\ said[3] = z /\ said[4] = u /\ said[5] = v
  OBVIOUS
<1> HIDE DEF said
<1>2. /\ \A j \in 1..(1 - 1) : FALSE
      /\ \A j \in 1..(2 - 1) : j = 1
      /\ \A j \in 1..(3 - 1) : j = 1 \/ j = 2
      /\ \A j \in 1..(4 - 1) : j = 1 \/ j = 2 \/ j = 3
      /\ \A j \in 1..(5 - 1) : j = 1 \/ j = 2 \/ j = 3 \/ j = 4
  OBVIOUS
<1>3. CASE x \notin Silent
  <2>1. 1 \in DOMAIN said /\ \A j \in 1..(1 - 1) : said[j] \in Silent
    BY <1>1, <1>2, <1>3
  <2>2. Highest(said) = said[1]
    BY <1>1, <1>3, <2>1, HighestIs
  <2> QED BY <1>1, <1>3, <2>2 DEF First, said
<1>4. CASE x \in Silent /\ y \notin Silent
  <2>1. 2 \in DOMAIN said /\ \A j \in 1..(2 - 1) : said[j] \in Silent
    BY <1>1, <1>2, <1>4
  <2>2. Highest(said) = said[2]
    BY <1>1, <1>4, <2>1, HighestIs
  <2> QED BY <1>1, <1>4, <2>2 DEF First, said
<1>5. CASE x \in Silent /\ y \in Silent /\ z \notin Silent
  <2>1. 3 \in DOMAIN said /\ \A j \in 1..(3 - 1) : said[j] \in Silent
    BY <1>1, <1>2, <1>5
  <2>2. Highest(said) = said[3]
    BY <1>1, <1>5, <2>1, HighestIs
  <2> QED BY <1>1, <1>5, <2>2 DEF First, said
<1>6. CASE x \in Silent /\ y \in Silent /\ z \in Silent /\ u \notin Silent
  <2>1. 4 \in DOMAIN said /\ \A j \in 1..(4 - 1) : said[j] \in Silent
    BY <1>1, <1>2, <1>6
  <2>2. Highest(said) = said[4]
    BY <1>1, <1>6, <2>1, HighestIs
  <2> QED BY <1>1, <1>6, <2>2 DEF First, said
<1>7. CASE x \in Silent /\ y \in Silent /\ z \in Silent /\ u \in Silent
  <2>1. 5 \in DOMAIN said /\ \A j \in 1..(5 - 1) : said[j] \in Silent
    BY <1>1, <1>2, <1>7
  <2>2. Highest(said) = said[5]
    BY <1>1, <2>1, HighestIs
  <2> QED BY <1>1, <1>7, <2>2 DEF First, said
<1> QED BY <1>3, <1>4, <1>5, <1>6, <1>7

\* The settings, by name.
LEMMA ProgramOf ==
  ASSUME SourcesType, ProgramSays, phase # "options"
  PROVE  /\ Program("endpoint") = explicit.endpoint
         /\ Program("name") = IF explicit.name = Default THEN Unset ELSE explicit.name
         /\ Program("debug") = explicit.debug
         /\ Program("environment") = IF explicit.environment = Default /\ ~ChosenByOption("environment")
                                     THEN Unset ELSE explicit.environment
         /\ Program("protocol") = IF explicit.protocol = "http" /\ ~ChosenByOption("protocol")
                                  THEN Unset ELSE explicit.protocol
         /\ Program("sampler") = IF explicit.sampler = Default /\ ~ChosenByOption("sampler")
                                 THEN Unset ELSE explicit.sampler
         /\ explicit.environmentChosen <=> ChosenByOption("environment")
         /\ explicit.protocolChosen <=> ChosenByOption("protocol")
         /\ explicit.samplerChosen <=> ChosenByOption("sampler")
         /\ Bad \notin {explicit.endpoint, explicit.name, explicit.debug, explicit.environment,
                        explicit.protocol, explicit.sampler}
<1>1. /\ "endpoint" \in Plain /\ "name" \in Plain /\ "debug" \in Plain /\ "environment" \in Plain
      /\ "protocol" \in Plain /\ "sampler" \in Plain
      /\ "environmentChosen" \in Plain /\ "protocolChosen" \in Plain /\ "samplerChosen" \in Plain
  BY FieldsOfConfig DEF Plain, Accumulated
<1>2. /\ DOMAIN ChosenFlag = {"version", "environment", "protocol", "sampler"}
      /\ ChosenFlag["environment"] = "environmentChosen" /\ ChosenFlag["protocol"] = "protocolChosen"
      /\ ChosenFlag["sampler"] = "samplerChosen"
  BY DEF ChosenFlag
<1>3. ~ChosenByOption("endpoint") /\ ~ChosenByOption("name") /\ ~ChosenByOption("debug")
  BY <1>2 DEF ChosenByOption
<1>4. /\ Program("endpoint") = explicit.endpoint /\ Program("debug") = explicit.debug
      /\ Program("name") = IF explicit.name = Default THEN Unset ELSE explicit.name
  BY <1>1, <1>3, ProgramIsExplicit, FieldsOfConfig
<1>5. Program("environment") = IF explicit.environment = Default /\ ~ChosenByOption("environment")
                               THEN Unset ELSE explicit.environment
  BY <1>1, ProgramIsExplicit, FieldsOfConfig
<1>6. Program("protocol") = IF explicit.protocol = "http" /\ ~ChosenByOption("protocol")
                            THEN Unset ELSE explicit.protocol
  BY <1>1, ProgramIsExplicit, FieldsOfConfig
<1>7. Program("sampler") = IF explicit.sampler = Default /\ ~ChosenByOption("sampler")
                           THEN Unset ELSE explicit.sampler
  BY <1>1, ProgramIsExplicit, FieldsOfConfig
<1>8. /\ explicit.environmentChosen <=> ChosenByOption("environment")
      /\ explicit.protocolChosen <=> ChosenByOption("protocol")
      /\ explicit.samplerChosen <=> ChosenByOption("sampler")
  <2>1. explicit["environmentChosen"] <=> ChosenByOption("environment")
    BY <1>1, <1>2, ChoiceIsRecorded
  <2>2. explicit["protocolChosen"] <=> ChosenByOption("protocol")
    BY <1>1, <1>2, ChoiceIsRecorded
  <2>3. explicit["samplerChosen"] <=> ChosenByOption("sampler")
    BY <1>1, <1>2, ChoiceIsRecorded
  <2> QED BY <2>1, <2>2, <2>3
<1>9. Bad \notin {explicit.endpoint, explicit.name, explicit.debug, explicit.environment,
                  explicit.protocol, explicit.sampler}
  BY <1>1, ExplicitIsClean
<1> QED BY <1>4, <1>5, <1>6, <1>7, <1>8, <1>9
-----------------------------------------------------------------------------
(* The layers together. *)

LEMMA SanitizedFacts ==
  ASSUME NEW e \in MaybeAddress
  PROVE  /\ Sanitized(e) \in MaybeAddress
         /\ Sanitized(e) = Unset <=> e = Unset
         /\ e # Unset =>
              /\ Sanitized(e).at = e.at
              /\ e.scheme \in {"bare", "http", "https", "grpc", "grpcs"}
              /\ e.scheme \in {"https", "grpcs"} => Sanitized(e).scheme = "https"
              /\ e.scheme = "http" => Sanitized(e).scheme = "http"
              /\ e.scheme \in {"bare", "grpc"} => Sanitized(e).scheme = "bare"
<1>1. CASE e = Unset
  BY <1>1 DEF Sanitized
<1>2. CASE e # Unset
  <2>1. e \in Addresses /\ Unset \notin Addresses
    BY <1>2, ConfigAssumption DEF MaybeAddress
  <2>2. PICK x : x = IF e.scheme = "grpcs" THEN "https" ELSE "bare"
    OBVIOUS
  <2>3. Sanitized(e) = IF e.scheme \in {"grpc", "grpcs"} THEN [e EXCEPT !.scheme = x] ELSE e
    BY <1>2, <2>2 DEF Sanitized
  <2>4. /\ [e EXCEPT !.scheme = x] \in Addresses /\ [e EXCEPT !.scheme = x].scheme = x
        /\ [e EXCEPT !.scheme = x].at = e.at
    BY <2>1, <2>2 DEF Addresses
  <2>5. e.scheme \in {"bare", "http", "https", "grpc", "grpcs"}
    BY <2>1 DEF Addresses
  <2> QED BY <1>2, <2>1, <2>2, <2>3, <2>4, <2>5 DEF MaybeAddress
<1> QED BY <1>1, <1>2

LEMMA FileFields ==
  ASSUME SourcesType
  PROVE  /\ DOMAIN FromFile = ConfigFields
         /\ FromFile.name = IfSet(File("name"), YieldToResourceName(FromEnv.name, yaml))
         /\ FromFile.environment = IfSet(File("environment"), Default)
         /\ FromFile.endpoint = IfSet(Sanitized(File("endpoint")), Sanitized(env.endpoint))
         /\ FromFile.protocol = IfSet(Parsed(File("protocol")), FromEnv.protocol)
         /\ FromFile.protocolChosen <=> Parsed(File("protocol")) # Unset
         /\ FromFile.sampler = IfSet(Parsed(env.sampler), Default)
         /\ FromFile.debug = File("debug")
         /\ DOMAIN FromFile.attrs = DOMAIN yaml.attrs \cup DOMAIN env.attrs
         /\ \A k \in DOMAIN FromFile.attrs :
              FromFile.attrs[k] = IF k \in DOMAIN yaml.attrs THEN yaml.attrs[k] ELSE env.attrs[k]
         /\ \A s \in Signals : /\ "endpoint" \in DOMAIN FromFile.signals[s]
                              /\ FromFile.signals[s].endpoint =
                                   IF File("endpoint") = Unset THEN Sanitized(env.signals[s].endpoint)
                                   ELSE Unset
<1>1. CASE Loaded
  <2>1. /\ File("name") = yaml.name /\ File("environment") = yaml.environment
        /\ File("endpoint") = yaml.endpoint /\ File("protocol") = yaml.protocol
        /\ File("debug") = yaml.debug
    BY <1>1 DEF File
  <2>2. yaml.endpoint \in MaybeAddress
    BY DEF SourcesType, IsFile
  <2>3. Sanitized(yaml.endpoint) = Unset <=> yaml.endpoint = Unset
    BY <2>2, SanitizedFacts
  <2>4. \A s \in Signals : /\ "endpoint" \in DOMAIN FromFile.signals[s]
                          /\ FromFile.signals[s].endpoint =
                               IF yaml.endpoint = Unset THEN Sanitized(env.signals[s].endpoint) ELSE Unset
    <3>1. FromFile.signals = OverrideSignalEndpoints(FromEnv.signals, Sanitized(yaml.endpoint))
      BY <1>1, ReadFileFields
    <3> QED BY <2>3, <3>1, EnvFields, Overridden
  <2>5. /\ DOMAIN FromFile.attrs = DOMAIN yaml.attrs \cup DOMAIN env.attrs
        /\ \A k \in DOMAIN FromFile.attrs :
             FromFile.attrs[k] = IF k \in DOMAIN yaml.attrs THEN yaml.attrs[k] ELSE env.attrs[k]
    <3>1. FromFile.attrs = Overlaid(yaml.attrs, env.attrs)
      BY <1>1, ReadFileFields
    <3> QED BY <3>1 DEF Overlaid
  <2>6. FromFile.debug = yaml.debug
    BY <1>1, ReadFileFields DEF IfSet
  <2> QED BY <1>1, <2>1, <2>4, <2>5, <2>6, ReadFileFields, EnvFields
<1>2. CASE ~Loaded
  <2>1. FromFile = FromEnv
    BY <1>2 DEF FromFile
  <2>2. \A f : File(f) = Unset
    BY <1>2 DEF File
  <2>3. yaml.attrs = None
    BY <1>2 DEF SourcesType, IsFile, Loaded
  <2>4. DOMAIN yaml.attrs = {}
    BY <2>3 DEF None
  <2>5. YieldToResourceName(FromEnv.name, yaml) = FromEnv.name
    BY <2>4 DEF YieldToResourceName
  <2>6. Parsed(Unset) = Unset /\ Sanitized(Unset) = Unset
    BY DEF Parsed, Sanitized
  <2> QED BY <2>1, <2>2, <2>4, <2>5, <2>6, EnvFields DEF IfSet
<1> QED BY <1>1, <1>2

\* What Init ends with, in terms of what the three layers gave.
LEMMA AtTheEnd ==
  ASSUME ConfigInv, phase = "ready"
  PROVE  /\ SourcesType /\ ProgramSays /\ DOMAIN explicit = ConfigFields
         /\ ~BadVariable(FromProgram) /\ ~BadFile
         /\ HasPreset <=> FromProgram.preset \in Presets
         /\ merged.preset = FromProgram.preset /\ merged.devtools = FromProgram.devtools
         /\ merged.name = Stamped(FromProgram.attrs, "service.name", FromProgram.name, env.build.name)
         /\ merged.attrs = FromProgram.attrs
         /\ merged.environment = FromProgram.environment
         /\ merged.environmentChosen = explicit.environmentChosen
         /\ merged.sampler = IfSet(FromProgram.sampler, Default)
         /\ merged.debug =
              IfSet(IF merged.devtools /\ FromProgram.debug = Unset /\ ~env.debug THEN "off" ELSE FromProgram.debug,
                    IF env.debug \/ ~env.production THEN "on" ELSE "off")
         /\ merged.signals = FromProgram.signals /\ merged.custom = explicit.custom
         /\ merged.headers = IF HasPreset THEN PresetHeaders(merged.preset, FromProgram.headers)
                             ELSE FromProgram.headers
         /\ HasPreset => merged.insecure = FALSE
         /\ merged.endpoint = Sanitized(FromDevtools.endpoint)
         /\ FromDevtools.endpoint =
              IF merged.devtools THEN IfSet(FromPreset.endpoint, At("devtools", "http")) ELSE FromPreset.endpoint
         /\ FromPreset.endpoint =
              IF HasPreset /\ FromProgram.endpoint \in {Unset, Localhost} THEN At(merged.preset, "bare")
              ELSE FromProgram.endpoint
         /\ merged.protocol =
              IF merged.devtools /\ FromPreset.endpoint = Unset THEN "http"
              ELSE IF ~HasPreset \/ FromProgram.protocolChosen THEN FromProgram.protocol
              ELSE IF merged.preset = "honeycomb" THEN "http" ELSE "grpc"
<1>1. SourcesType /\ ProgramSays /\ SettledInv /\ DOMAIN explicit = ConfigFields
  BY DEF ConfigInv, ProgramSays
<1>2. merged = Final /\ Accepted
  BY <1>1 DEF SettledInv, SettledSoFar, Late
<1>3. DOMAIN FromProgram = ConfigFields
  BY <1>1, ProgramFields
<1>4. DOMAIN FromPreset = ConfigFields
  BY <1>3, PresetFields
<1>5. DOMAIN FromDevtools = ConfigFields
  BY <1>4, DevtoolsFields
<1>6. /\ merged.preset = FromProgram.preset /\ merged.devtools = FromProgram.devtools
      /\ FromPreset.preset = FromProgram.preset /\ FromPreset.devtools = FromProgram.devtools
      /\ FromDevtools.preset = FromProgram.preset /\ FromDevtools.devtools = FromProgram.devtools
  BY <1>2, <1>3, <1>4, <1>5, FinalFields, DevtoolsFields, PresetFields
<1>7. HasPreset <=> FromProgram.preset \in Presets
  BY <1>6 DEF HasPreset
<1>8. ~BadVariable(FromProgram) /\ ~BadFile
  BY <1>2 DEF Accepted
<1>9. /\ merged.name = Stamped(FromProgram.attrs, "service.name", FromProgram.name, env.build.name)
      /\ merged.attrs = FromProgram.attrs /\ merged.environment = FromProgram.environment
      /\ merged.signals = FromProgram.signals /\ merged.sampler = IfSet(FromProgram.sampler, Default)
  BY <1>2, <1>3, <1>4, <1>5, FinalFields, DevtoolsFields, PresetFields
<1>10. merged.environmentChosen = explicit.environmentChosen /\ merged.custom = explicit.custom
  BY <1>1, <1>2, <1>3, <1>4, <1>5, FinalFields, DevtoolsFields, PresetFields, ProgramFields
<1>11. merged.debug =
         IfSet(IF merged.devtools /\ FromProgram.debug = Unset /\ ~env.debug THEN "off" ELSE FromProgram.debug,
               IF env.debug \/ ~env.production THEN "on" ELSE "off")
  <2>1. FromDevtools.debug =
          IF merged.devtools /\ FromProgram.debug = Unset /\ ~env.debug THEN "off" ELSE FromProgram.debug
    BY <1>3, <1>4, <1>6, DevtoolsFields, PresetFields
  <2> QED BY <1>2, <1>5, <2>1, FinalFields
<1>12. /\ merged.headers = IF HasPreset THEN PresetHeaders(merged.preset, FromProgram.headers)
                           ELSE FromProgram.headers
       /\ HasPreset => merged.insecure = FALSE
  BY <1>2, <1>3, <1>4, <1>5, <1>6, <1>7, FinalFields, DevtoolsFields, PresetFields
<1>13. /\ merged.endpoint = Sanitized(FromDevtools.endpoint)
       /\ FromDevtools.endpoint =
            IF merged.devtools THEN IfSet(FromPreset.endpoint, At("devtools", "http")) ELSE FromPreset.endpoint
       /\ FromPreset.endpoint =
            IF HasPreset /\ FromProgram.endpoint \in {Unset, Localhost} THEN At(merged.preset, "bare")
            ELSE FromProgram.endpoint
  BY <1>2, <1>3, <1>4, <1>5, <1>6, <1>7, FinalFields, DevtoolsFields, PresetFields
<1>14. merged.protocol =
         IF merged.devtools /\ FromPreset.endpoint = Unset THEN "http"
         ELSE IF ~HasPreset \/ FromProgram.protocolChosen THEN FromProgram.protocol
         ELSE IF merged.preset = "honeycomb" THEN "http" ELSE "grpc"
  BY <1>2, <1>3, <1>4, <1>5, <1>6, <1>7, FinalFields, DevtoolsFields, PresetFields
<1> QED BY <1>1, <1>6, <1>7, <1>8, <1>9, <1>10, <1>11, <1>12, <1>13, <1>14

-----------------------------------------------------------------------------
(* Sampler, debug mode. *)

LEMMA Distinct ==
  /\ Unset # Bad /\ Default \notin Silent /\ "http" \notin Silent /\ "grpc" \notin Silent
  /\ "on" \notin Silent /\ "off" \notin Silent
BY ConfigAssumption DEF Silent

LEMMA SamplerIsHighest ==
  ASSUME ConfigInv, phase = "ready", Unmistakable
  PROVE  SamplerFromTheTop
<1>1. /\ SourcesType /\ ProgramSays /\ DOMAIN explicit = ConfigFields
      /\ merged.sampler = IfSet(FromProgram.sampler, Default)
  BY AtTheEnd
<1>2. FromProgram.sampler = IF SamplerSaid THEN explicit.sampler ELSE IfSet(Parsed(env.sampler), Default)
  BY <1>1, ProgramFields, FileFields
<1>3. /\ Program("sampler") = IF explicit.sampler = Default /\ ~ChosenByOption("sampler")
                              THEN Unset ELSE explicit.sampler
      /\ explicit.samplerChosen <=> ChosenByOption("sampler")
      /\ explicit.sampler # Bad
  BY <1>1, ProgramOf
<1>4. Highest(<<Program("sampler"), env.sampler, Default>>) =
        First(Program("sampler"), First(env.sampler, Default))
  BY HighestOfThree
<1>5. CASE SamplerSaid
  <2>1. explicit.sampler # Unset
    BY <1>3, <1>5 DEF SamplerSaid, Unmistakable, ChosenFlag
  <2>2. Program("sampler") = explicit.sampler
    BY <1>3, <1>5 DEF SamplerSaid
  <2> QED BY <1>1, <1>2, <1>3, <1>4, <1>5, <2>1, <2>2 DEF SamplerFromTheTop, First, Silent, IfSet
<1>6. CASE ~SamplerSaid
  <2>1. Program("sampler") = Unset
    BY <1>3, <1>6 DEF SamplerSaid
  <2> QED BY <1>1, <1>2, <1>4, <1>6, <2>1, Distinct DEF SamplerFromTheTop, First, Silent, IfSet, Parsed
<1> QED BY <1>5, <1>6

LEMMA DebugIsHighest ==
  ASSUME ConfigInv, phase = "ready"
  PROVE  DebugFromTheTop
<1> DEFINE fill == IF merged.devtools /\ ~env.debug THEN "off" ELSE Unset
           final == IF env.debug \/ ~env.production THEN "on" ELSE "off"
<1>1. /\ SourcesType /\ ProgramSays /\ DOMAIN explicit = ConfigFields
      /\ merged.debug =
           IfSet(IF merged.devtools /\ FromProgram.debug = Unset /\ ~env.debug THEN "off" ELSE FromProgram.debug,
                 final)
  BY AtTheEnd
<1>2. FromProgram.debug = IfSet(explicit.debug, File("debug"))
  BY <1>1, ProgramFields, FileFields
<1>3. Program("debug") = explicit.debug /\ explicit.debug # Bad
  BY <1>1, ProgramOf
<1>4. File("debug") # Bad
  BY <1>1, Distinct DEF File, SourcesType, IsFile
<1>5. Highest(<<Program("debug"), File("debug"), fill, final>>) =
        First(Program("debug"), First(File("debug"), First(fill, final)))
  BY HighestOfFour
<1>6. fill \in {"off", Unset} /\ (fill = "off" <=> merged.devtools /\ ~env.debug) /\ "off" # Unset
  BY Distinct DEF Silent
<1>7. merged.debug = First(Program("debug"), First(File("debug"), First(fill, final)))
  BY <1>1, <1>2, <1>3, <1>4, <1>6, Distinct DEF First, Silent, IfSet
<1> QED BY <1>5, <1>7 DEF DebugFromTheTop
-----------------------------------------------------------------------------
(* Endpoints.  What is layered is what the reference finds, with its scheme *)
(* settled or not yet.                                                      *)

LEMMA EndpointsAreAddresses ==
  ASSUME SourcesType, ProgramSays
  PROVE  /\ explicit.endpoint \in MaybeAddress /\ File("endpoint") \in MaybeAddress
         /\ env.endpoint \in MaybeAddress
         /\ \A s \in Signals : env.signals[s].endpoint \in MaybeAddress
<1>1. explicit.endpoint \in MaybeAddress
  <2>1. SaidBy("endpoint", applied, explicit.endpoint) /\ applied \in 0..Len(opts) /\ Len(opts) \in Nat
    BY FieldsOfConfig DEF ProgramSays, SourcesType, Accumulated
  <2>2. start.endpoint \in MaybeAddress
    BY DEF SourcesType, IsConfig
  <2>3. \A i \in 1..applied : Writes("endpoint", i) => opts[i].endpoint \in MaybeAddress
    BY <2>1 DEF SourcesType, IsOption, Writes
  <2>4. explicit.endpoint = start.endpoint \/ \E i \in 1..applied : /\ Writes("endpoint", i)
                                                                   /\ explicit.endpoint = opts[i].endpoint
    BY <2>1 DEF SaidBy
  <2> QED BY <2>2, <2>3, <2>4
<1>2. File("endpoint") \in MaybeAddress
  BY DEF SourcesType, IsFile, File, MaybeAddress
<1> QED BY <1>1, <1>2 DEF SourcesType, IsEnv

LEMMA SilentMeansUnset == \A e \in MaybeAddress : e \in Silent <=> e = Unset
BY ConfigAssumption DEF MaybeAddress, Silent

LEMMA PlacesAreAddresses ==
  /\ HasPreset => At(merged.preset, "bare") \in Addresses /\ At(merged.preset, "bare").scheme = "bare"
  /\ At("devtools", "http") \in Addresses
  /\ Localhost \in Addresses /\ Localhost.scheme = "bare"
<1>1. ASSUME NEW host \in Hosts, NEW scheme \in {"bare", "http"}
      PROVE  At(host, scheme) \in Addresses /\ At(host, scheme).scheme = scheme
  BY DEF At, Addresses
<1>2. HasPreset => merged.preset \in Hosts
  BY ConfigAssumption DEF HasPreset
<1>3. "devtools" \in Hosts /\ "localhost:4318" \in Hosts
  BY ConfigAssumption
<1> QED BY <1>1, <1>2, <1>3 DEF Localhost

LEMMA LayeredIsBase ==
  ASSUME SourcesType, ProgramSays, phase # "options"
  PROVE  /\ BaseEndpoint \in MaybeAddress
         /\ FromProgram.endpoint \in {BaseEndpoint, Sanitized(BaseEndpoint)}
         /\ ChosenEndpoint = Unset <=> explicit.endpoint = Unset /\ File("endpoint") = Unset
<1> DEFINE p == explicit.endpoint
           f == File("endpoint")
           e == env.endpoint
<1>1. p \in MaybeAddress /\ f \in MaybeAddress /\ e \in MaybeAddress
  BY EndpointsAreAddresses
<1>2. ChosenEndpoint = IF p # Unset THEN p ELSE f
  BY <1>1, SilentMeansUnset, HighestOfThree, ProgramOf DEF ChosenEndpoint, First, Silent
<1>3. BaseEndpoint = IF ChosenEndpoint # Unset THEN ChosenEndpoint ELSE e
  BY <1>1, <1>2, SilentMeansUnset, HighestOfThree DEF BaseEndpoint, First, Silent
<1>4. Sanitized(f) = Unset <=> f = Unset
  BY <1>1, SanitizedFacts
<1>5. FromProgram.endpoint = IF p # Unset THEN p ELSE IF Sanitized(f) # Unset THEN Sanitized(f) ELSE Sanitized(e)
  <2>1. FromProgram.endpoint = IfSet(explicit.endpoint, FromFile.endpoint)
    BY ProgramFields DEF ProgramSays
  <2>2. FromFile.endpoint = IfSet(Sanitized(File("endpoint")), Sanitized(env.endpoint))
    BY FileFields
  <2> QED BY <2>1, <2>2 DEF IfSet
<1> HIDE DEF p, f, e
<1>8. CASE p # Unset
  BY <1>1, <1>2, <1>3, <1>5, <1>8 DEF p, f
<1>9. CASE p = Unset /\ f # Unset
  BY <1>1, <1>2, <1>3, <1>4, <1>5, <1>9 DEF p, f
<1>10. CASE p = Unset /\ f = Unset
  BY <1>1, <1>2, <1>3, <1>4, <1>5, <1>10 DEF p, f
<1> QED BY <1>8, <1>9, <1>10

\* An address keeps where it is, and has the scheme it was given, or the one TLS
\* asks for.
LEMMA SentWithScheme ==
  ASSUME NEW e \in Addresses, e.scheme \in {"bare", "http", "https"}
  PROVE  /\ SignalEndpointURL(WithScheme(e)).scheme =
              IF e.scheme # "bare" THEN e.scheme ELSE IF merged.insecure THEN "http" ELSE "https"
         /\ SignalEndpointURL(WithScheme(e)).at = e.at
         /\ SignalEndpointURL(WithScheme(e)) \in Addresses
<1>1. IsURL(e) <=> e.scheme # "bare"
  BY DEF IsURL
<1>2. PICK x : x = IF merged.insecure THEN "http" ELSE "https"
  OBVIOUS
<1>3. /\ [e EXCEPT !.scheme = x].scheme = x /\ [e EXCEPT !.scheme = x].at = e.at
      /\ [e EXCEPT !.scheme = x] \in Addresses
  BY <1>2 DEF Addresses
<1>4. PICK w : w = WithScheme(e)
  OBVIOUS
<1>5. /\ w \in Addresses /\ w.at = e.at
      /\ w.scheme = IF e.scheme # "bare" THEN e.scheme ELSE x
  BY <1>1, <1>2, <1>3, <1>4 DEF WithScheme
<1>6. /\ SignalEndpointURL(w).scheme = w.scheme /\ SignalEndpointURL(w).at = w.at
      /\ SignalEndpointURL(w) \in Addresses
  BY <1>5 DEF SignalEndpointURL, Addresses
<1> QED BY <1>2, <1>4, <1>5, <1>6

\* What is made of an address keeps its TLS, and gets it where it names none and
\* a preset asks for it.
SentAs(url, e) ==
    /\ e.scheme \in {"https", "grpcs"} => url.scheme = "https"
    /\ e.scheme = "http" => url.scheme = "http"
    /\ e.scheme \in {"bare", "grpc"} /\ HasPreset => url.scheme = "https"

LEMMA SanitizedSent ==
  ASSUME NEW e \in MaybeAddress, e # Unset, HasPreset => ~merged.insecure
  PROVE  /\ SentAs(SignalEndpointURL(WithScheme(Sanitized(e))), e)
         /\ IsURL(Sanitized(e)) => SentAs(Sanitized(e), e)
         /\ e.scheme \in {"bare", "http", "https", "grpc", "grpcs"}
         /\ SignalEndpointURL(WithScheme(Sanitized(e))).at = e.at /\ Sanitized(e).at = e.at
         /\ SignalEndpointURL(WithScheme(Sanitized(e))) \in Addresses /\ Sanitized(e) \in Addresses
<1>1. PICK c : c = Sanitized(e)
  OBVIOUS
<1>2. /\ c \in Addresses /\ c.scheme \in {"bare", "http", "https"} /\ c.at = e.at
      /\ e.scheme \in {"bare", "http", "https", "grpc", "grpcs"}
      /\ e.scheme \in {"https", "grpcs"} => c.scheme = "https"
      /\ e.scheme = "http" => c.scheme = "http"
      /\ e.scheme \in {"bare", "grpc"} => c.scheme = "bare"
  BY <1>1, SanitizedFacts DEF MaybeAddress
<1>3. /\ SignalEndpointURL(WithScheme(c)).scheme =
           IF c.scheme # "bare" THEN c.scheme ELSE IF merged.insecure THEN "http" ELSE "https"
      /\ SignalEndpointURL(WithScheme(c)).at = c.at /\ SignalEndpointURL(WithScheme(c)) \in Addresses
  BY <1>2, SentWithScheme
<1>4. IsURL(c) => c.scheme # "bare"
  BY DEF IsURL
<1> QED BY <1>1, <1>2, <1>3, <1>4 DEF SentAs

\* Where a signal is sent: at its own address, if nothing from above took that
\* away, or at the one of the configuration.
LEMMA SignalsAreSent ==
  ASSUME ConfigInv, phase = "ready", NEW s \in Signals
  PROVE  SignalEndpoint(s) =
           IF ChosenEndpoint = Unset /\ env.signals[s].endpoint # Unset
           THEN IF IsURL(Sanitized(env.signals[s].endpoint)) THEN Sanitized(env.signals[s].endpoint)
                ELSE SignalEndpointURL(WithScheme(Sanitized(env.signals[s].endpoint)))
           ELSE IF merged.endpoint = Unset THEN Unset
           ELSE SignalEndpointURL(WithScheme(merged.endpoint))
<1> DEFINE own == env.signals[s].endpoint
<1>1. SourcesType /\ ProgramSays /\ merged.signals = FromProgram.signals /\ DOMAIN explicit = ConfigFields
  BY AtTheEnd
<1>2. /\ own \in MaybeAddress
      /\ ChosenEndpoint = Unset <=> explicit.endpoint = Unset /\ File("endpoint") = Unset
  BY <1>1, LayeredIsBase, EndpointsAreAddresses
<1>3. merged.signals[s].endpoint = IF ChosenEndpoint = Unset THEN Sanitized(own) ELSE Unset
  <2>1. FromProgram.signals = OverrideSignalEndpoints(FromFile.signals, explicit.endpoint)
    BY <1>1, ProgramFields
  <2>2. \A t \in Signals : /\ "endpoint" \in DOMAIN FromFile.signals[t]
                           /\ FromFile.signals[t].endpoint =
                                IF File("endpoint") = Unset THEN Sanitized(env.signals[t].endpoint) ELSE Unset
    BY <1>1, FileFields
  <2>3. merged.signals[s].endpoint = IF explicit.endpoint = Unset THEN FromFile.signals[s].endpoint ELSE Unset
    BY <1>1, <2>1, <2>2, Overridden
  <2> QED BY <1>2, <2>2, <2>3
<1>4. Sanitized(own) = Unset <=> own = Unset
  BY <1>2, SanitizedFacts
<1> QED BY <1>3, <1>4 DEF SignalEndpoint

LEMMA SentIsAddressed ==
  ASSUME ConfigInv, phase = "ready", NEW s \in Signals
  PROVE  /\ SignalEndpoint(s) = Unset => Address(s) = Unset
         /\ SignalEndpoint(s) # Unset =>
              /\ SentAs(SignalEndpoint(s), Address(s))
              /\ Address(s).scheme \in {"bare", "http", "https", "grpc", "grpcs"}
              /\ \/ SignalEndpoint(s).at = Address(s).at
                 \/ HasPreset /\ OwnAddress(s) = Unset /\ Sanitized(BaseEndpoint) = Localhost
<1> DEFINE own == env.signals[s].endpoint
           layered == FromProgram.endpoint
           filled == FromDevtools.endpoint
<1>1. /\ SourcesType /\ ProgramSays
      /\ HasPreset => ~merged.insecure
      /\ merged.endpoint = Sanitized(filled)
      /\ filled = IF merged.devtools THEN IfSet(FromPreset.endpoint, At("devtools", "http"))
                  ELSE FromPreset.endpoint
      /\ FromPreset.endpoint = IF HasPreset /\ layered \in {Unset, Localhost}
                               THEN At(merged.preset, "bare") ELSE layered
  BY AtTheEnd
<1>2. /\ BaseEndpoint \in MaybeAddress /\ layered \in {BaseEndpoint, Sanitized(BaseEndpoint)}
      /\ own \in MaybeAddress
  <2>1. own \in MaybeAddress
    BY <1>1, EndpointsAreAddresses
  <2>2. BaseEndpoint \in MaybeAddress /\ layered \in {BaseEndpoint, Sanitized(BaseEndpoint)}
    BY <1>1, LayeredIsBase
  <2> QED BY <2>1, <2>2
<1>3. Unset \notin Addresses
  BY ConfigAssumption
<1>4. SignalEndpoint(s) =
        IF ChosenEndpoint = Unset /\ own # Unset
        THEN IF IsURL(Sanitized(own)) THEN Sanitized(own) ELSE SignalEndpointURL(WithScheme(Sanitized(own)))
        ELSE IF merged.endpoint = Unset THEN Unset ELSE SignalEndpointURL(WithScheme(merged.endpoint))
  BY SignalsAreSent
<1>5. Address(s) = IF ChosenEndpoint = Unset /\ own # Unset THEN own
                   ELSE IF BaseEndpoint # Unset THEN BaseEndpoint
                   ELSE IF HasPreset THEN At(merged.preset, "bare")
                   ELSE IF merged.devtools THEN At("devtools", "http") ELSE Unset
  <2> DEFINE v == IF HasPreset THEN At(merged.preset, "bare") ELSE Unset
             d == IF merged.devtools THEN At("devtools", "http") ELSE Unset
  <2>1. Address(s) = First(OwnAddress(s), First(BaseEndpoint, First(v, First(d, Unset))))
    BY HighestOfFive DEF Address
  <2>2. v \in MaybeAddress /\ d \in MaybeAddress
    BY PlacesAreAddresses DEF MaybeAddress
  <2>3. (v = Unset <=> ~HasPreset) /\ (d = Unset <=> ~merged.devtools)
    BY <1>3, PlacesAreAddresses
  <2>4. OwnAddress(s) = IF ChosenEndpoint = Unset THEN own ELSE Unset
    BY DEF OwnAddress
  <2>5. OwnAddress(s) \in MaybeAddress
    BY <1>2, <2>4 DEF MaybeAddress
  <2> HIDE DEF v, d
  <2>6. Address(s) = IF OwnAddress(s) # Unset THEN OwnAddress(s)
                     ELSE IF BaseEndpoint # Unset THEN BaseEndpoint
                     ELSE IF v # Unset THEN v ELSE d
    BY <1>2, <2>1, <2>2, <2>5, SilentMeansUnset DEF First
  <2> HIDE DEF own
  <2> QED BY <2>3, <2>4, <2>6 DEF v, d
<1> HIDE DEF own, layered, filled
<1>6. CASE ChosenEndpoint = Unset /\ own # Unset
  <2>1. /\ SentAs(SignalEndpointURL(WithScheme(Sanitized(own))), own)
        /\ IsURL(Sanitized(own)) => SentAs(Sanitized(own), own)
        /\ own.scheme \in {"bare", "http", "https", "grpc", "grpcs"}
        /\ SignalEndpointURL(WithScheme(Sanitized(own))).at = own.at /\ Sanitized(own).at = own.at
        /\ SignalEndpointURL(WithScheme(Sanitized(own))) # Unset /\ Sanitized(own) # Unset
    BY <1>1, <1>2, <1>3, <1>6, SanitizedSent
  <2>2. Address(s) = own
    BY <1>5, <1>6
  <2>3. SignalEndpoint(s) = IF IsURL(Sanitized(own)) THEN Sanitized(own)
                            ELSE SignalEndpointURL(WithScheme(Sanitized(own)))
    BY <1>4, <1>6
  <2>4. CASE IsURL(Sanitized(own))
    BY <2>1, <2>2, <2>3, <2>4
  <2>5. CASE ~IsURL(Sanitized(own))
    BY <2>1, <2>2, <2>3, <2>5
  <2> QED BY <2>4, <2>5
<1>7. CASE ~(ChosenEndpoint = Unset /\ own # Unset)
  <2>1. /\ Address(s) = IF BaseEndpoint # Unset THEN BaseEndpoint
                        ELSE IF HasPreset THEN At(merged.preset, "bare")
                        ELSE IF merged.devtools THEN At("devtools", "http") ELSE Unset
        /\ OwnAddress(s) = Unset
    BY <1>5, <1>7 DEF OwnAddress, own
  <2>2. SignalEndpoint(s) = IF merged.endpoint = Unset THEN Unset
                            ELSE SignalEndpointURL(WithScheme(merged.endpoint))
    BY <1>4, <1>7
  <2>3. layered = Unset <=> BaseEndpoint = Unset
    BY <1>2, SanitizedFacts
  <2> DEFINE sent == SignalEndpointURL(WithScheme(Sanitized(filled)))
  <2>0. ASSUME filled \in MaybeAddress, filled # Unset
        PROVE  /\ SignalEndpoint(s) = sent /\ sent # Unset /\ sent.at = filled.at /\ SentAs(sent, filled)
               /\ filled.scheme \in {"bare", "http", "https", "grpc", "grpcs"}
    <3>1. Sanitized(filled) # Unset
      BY <2>0, SanitizedFacts
    <3>2. /\ sent \in Addresses /\ sent.at = filled.at /\ SentAs(sent, filled)
          /\ filled.scheme \in {"bare", "http", "https", "grpc", "grpcs"}
      BY <1>1, <2>0, SanitizedSent
    <3> QED BY <1>1, <1>3, <2>2, <3>1, <3>2
  <2> HIDE DEF sent
  <2>4. CASE HasPreset /\ layered \in {Unset, Localhost}
    <3>1. filled = At(merged.preset, "bare") /\ filled \in MaybeAddress /\ filled # Unset
      BY <1>1, <1>3, <2>4, PlacesAreAddresses DEF IfSet, MaybeAddress
    <3>2. /\ SignalEndpoint(s).at = filled.at /\ SignalEndpoint(s) # Unset
          /\ SignalEndpoint(s).scheme = "https"
      BY <2>0, <2>4, <3>1, PlacesAreAddresses DEF SentAs
    <3>3. CASE BaseEndpoint = Unset
      BY <2>1, <2>4, <3>1, <3>2, <3>3, PlacesAreAddresses DEF SentAs
    <3>4. CASE BaseEndpoint # Unset
      <4>1. Address(s) = BaseEndpoint
        BY <2>1, <3>4
      <4>2. Sanitized(BaseEndpoint) = Localhost
        <5>1. Sanitized(Localhost) = Localhost
          BY PlacesAreAddresses DEF Sanitized
        <5> QED BY <1>2, <2>3, <2>4, <3>4, <5>1
      <4>3. BaseEndpoint.scheme \in {"bare", "grpc"}
        BY <1>2, <3>4, <4>2, SanitizedFacts, PlacesAreAddresses
      <4> QED BY <2>1, <2>4, <3>2, <4>1, <4>2, <4>3 DEF SentAs
    <3> QED BY <3>3, <3>4
  <2>5. CASE ~(HasPreset /\ layered \in {Unset, Localhost}) /\ layered = Unset
    <3>1. ~HasPreset /\ filled = IF merged.devtools THEN At("devtools", "http") ELSE Unset
      BY <1>1, <2>5 DEF IfSet
    <3>2. Address(s) = filled
      BY <2>1, <2>3, <2>5, <3>1
    <3>3. CASE filled = Unset
      BY <1>1, <2>2, <3>2, <3>3 DEF Sanitized
    <3>4. CASE filled # Unset
      <4>1. filled \in MaybeAddress
        BY <3>1, <3>4, PlacesAreAddresses DEF MaybeAddress
      <4> QED BY <2>0, <3>2, <3>4, <4>1
    <3> QED BY <3>3, <3>4
  <2>6. CASE ~(HasPreset /\ layered \in {Unset, Localhost}) /\ layered # Unset
    <3>1. filled = layered
      BY <1>1, <2>6 DEF IfSet
    <3>3. Address(s) = BaseEndpoint
      BY <2>1, <2>3, <2>6
    <3>4. /\ layered \in MaybeAddress /\ BaseEndpoint # Unset /\ layered.at = BaseEndpoint.at
          /\ BaseEndpoint.scheme \in {"bare", "http", "https", "grpc", "grpcs"}
          /\ BaseEndpoint.scheme \in {"https", "grpcs"} => layered.scheme \in {"https", "grpcs"}
          /\ BaseEndpoint.scheme = "http" => layered.scheme = "http"
          /\ BaseEndpoint.scheme \in {"bare", "grpc"} => layered.scheme \in {"bare", "grpc"}
      BY <1>2, <2>3, <2>6, SanitizedFacts
    <3>5. /\ SentAs(SignalEndpoint(s), layered) /\ SignalEndpoint(s).at = layered.at
          /\ SignalEndpoint(s) # Unset
      BY <2>0, <2>6, <3>1, <3>4
    <3> QED BY <3>3, <3>4, <3>5 DEF SentAs
  <2> QED BY <2>4, <2>5, <2>6
<1> QED BY <1>6, <1>7

LEMMA EndpointsAreHighest ==
  ASSUME ConfigInv, phase = "ready"
  PROVE  EndpointsFromTheTop
<1> SUFFICES ASSUME NEW s \in Signals
             PROVE  IF Exported(s) = Unset
                    THEN ~Enabled(s) \/ Address(s) = Unset \/ (s # "traces" /\ s \in DOMAIN explicit.custom)
                    ELSE /\ Enabled(s)
                         /\ \/ Exported(s).at = Address(s).at
                            \/ HasPreset /\ OwnAddress(s) = Unset /\ Sanitized(BaseEndpoint) = Localhost
  BY DEF EndpointsFromTheTop
<1>1. Replaced(s) <=> s # "traces" /\ s \in DOMAIN explicit.custom
  BY AtTheEnd DEF Replaced
<1>2. Exported(s) = IF Enabled(s) /\ ~Replaced(s) THEN SignalEndpoint(s) ELSE Unset
  BY DEF Exported
<1> QED BY <1>1, <1>2, SentIsAddressed

\* env.go, yaml_loader.go, config_merge.go: an endpoint given with TLS keeps it
\* through every layer, and a bare one gets it from a vendor preset, for any
\* signals, any options in any order and whatever the file and the environment say.
THEOREM EndpointsKeepTLS == ConfigSpec => []TLSIsKept
<1>1. ConfigInv => TLSIsKept
  <2> SUFFICES ASSUME ConfigInv, phase = "ready", NEW s \in Signals, Exported(s) # Unset
               PROVE  CASE Address(s).scheme \in {"https", "grpcs"} -> Exported(s).scheme = "https"
                        [] Address(s).scheme = "http" -> Exported(s).scheme = "http"
                        [] OTHER -> HasPreset => Exported(s).scheme = "https"
    BY DEF TLSIsKept
  <2>1. Exported(s) = SignalEndpoint(s)
    BY DEF Exported
  <2>2. /\ SentAs(Exported(s), Address(s))
        /\ Address(s).scheme \in {"bare", "http", "https", "grpc", "grpcs"}
    BY <2>1, SentIsAddressed
  <2> QED BY <2>2 DEF SentAs
<1> QED BY <1>1, InitConfigInv, NextConfigInv, PTL DEF ConfigSpec
-----------------------------------------------------------------------------
(* Protocol and identity. *)

LEMMA ProtocolIsHighest ==
  ASSUME ConfigInv, phase = "ready", Unmistakable
  PROVE  ProtocolFromTheTop
<1> DEFINE p == Program("protocol")
           f == File("protocol")
           e == env.protocol
           own == IF merged.preset = "honeycomb" THEN "http" ELSE "grpc"
           preset == IF ~HasPreset THEN Unset ELSE own
<1>1. /\ SourcesType /\ ProgramSays /\ DOMAIN explicit = ConfigFields
      /\ ~BadVariable(FromProgram) /\ ~BadFile
      /\ merged.protocol = IF merged.devtools /\ FromPreset.endpoint = Unset THEN "http"
                           ELSE IF ~HasPreset \/ FromProgram.protocolChosen THEN FromProgram.protocol
                           ELSE own
      /\ FromPreset.endpoint = IF HasPreset /\ FromProgram.endpoint \in {Unset, Localhost}
                               THEN At(merged.preset, "bare") ELSE FromProgram.endpoint
  BY AtTheEnd
<1>2. FromPreset.endpoint = Unset <=> ~HasPreset /\ BaseEndpoint = Unset
  <2>1. /\ BaseEndpoint \in MaybeAddress
        /\ FromProgram.endpoint \in {BaseEndpoint, Sanitized(BaseEndpoint)}
    BY <1>1, LayeredIsBase
  <2>2. FromProgram.endpoint = Unset <=> BaseEndpoint = Unset
    BY <2>1, SanitizedFacts
  <2>3. HasPreset => At(merged.preset, "bare") # Unset
    BY PlacesAreAddresses, ConfigAssumption
  <2> QED BY <1>1, <2>2, <2>3
<1>3. /\ FromProgram.protocol = IF ProtocolSaid THEN explicit.protocol
                                ELSE IfSet(Parsed(f), IfSet(Parsed(e), "http"))
      /\ FromProgram.protocolChosen <=> ProtocolSaid \/ Parsed(f) # Unset
  <2>1. /\ FromProgram.protocol = IF ProtocolSaid THEN explicit.protocol ELSE FromFile.protocol
        /\ FromProgram.protocolChosen <=> ProtocolSaid \/ FromFile.protocolChosen
    BY <1>1, ProgramFields
  <2>2. /\ FromFile.protocol = IfSet(Parsed(f), FromEnv.protocol)
        /\ FromFile.protocolChosen <=> Parsed(f) # Unset
    BY <1>1, FileFields
  <2>3. FromEnv.protocol = IfSet(Parsed(e), "http")
    BY <1>1, EnvFields
  <2> QED BY <2>1, <2>2, <2>3
<1>4. /\ p = IF explicit.protocol = "http" /\ ~ChosenByOption("protocol") THEN Unset ELSE explicit.protocol
      /\ explicit.protocolChosen <=> ChosenByOption("protocol")
      /\ explicit.protocol # Bad
  BY <1>1, ProgramOf
<1>5. ChosenByOption("protocol") => explicit.protocol # Unset
  BY DEF Unmistakable, ChosenFlag
<1>6. f # Bad
  BY <1>1, Distinct DEF BadFile, File
<1>7. e = Bad => FromProgram.protocolChosen
  BY <1>1 DEF BadVariable
<1>8. HighestProtocol = First(p, First(f, First(preset, First(e, "http"))))
  BY HighestOfFive DEF HighestProtocol, VendorProtocol
<1>9. /\ ProtocolSaid <=> p \notin Silent
      /\ ProtocolSaid => p = explicit.protocol
  BY <1>4, <1>5, Distinct DEF ProtocolSaid, Silent
<1>10. preset \in Silent <=> ~HasPreset
  BY Distinct DEF Silent
<1>11. (IF ~HasPreset \/ FromProgram.protocolChosen THEN FromProgram.protocol ELSE own)
         = First(p, First(f, First(preset, First(e, "http"))))
  <2>1. CASE p \notin Silent
    BY <1>3, <1>9, <2>1 DEF First
  <2>2. CASE p \in Silent /\ f \notin Silent
    BY <1>3, <1>9, <2>2 DEF First, Parsed, IfSet, Silent
  <2>3. CASE p \in Silent /\ f \in Silent
    <3>1. f = Unset /\ ~ProtocolSaid /\ Parsed(f) = Unset
      BY <1>6, <1>9, <2>3, Distinct DEF Silent, Parsed
    <3>2. ~FromProgram.protocolChosen /\ e # Bad /\ FromProgram.protocol = IfSet(Parsed(e), "http")
      BY <1>3, <1>7, <3>1 DEF IfSet
    <3>3. IfSet(Parsed(e), "http") = First(e, "http")
      BY <3>2 DEF IfSet, Parsed, First, Silent
    <3> HIDE DEF p, f, e, own
    <3>4. CASE HasPreset
      BY <1>10, <2>3, <3>2, <3>4 DEF First
    <3>5. CASE ~HasPreset
      BY <1>10, <2>3, <3>2, <3>3, <3>5 DEF First
    <3> QED BY <3>4, <3>5
  <2> QED BY <2>1, <2>2, <2>3
<1>12. merged.protocol = IF merged.devtools /\ ~HasPreset /\ BaseEndpoint = Unset THEN "http"
                         ELSE First(p, First(f, First(preset, First(e, "http"))))
  BY <1>1, <1>2, <1>11
<1> QED BY <1>8, <1>12 DEF ProtocolFromTheTop, DevtoolsEndpoint

\* What the resource attributes say in the end: the program's, the file's, the
\* environment's.
LEMMA MergedAttributes ==
  ASSUME ConfigInv, phase = "ready"
  PROVE  /\ DOMAIN merged.attrs = DOMAIN explicit.attrs \cup DOMAIN yaml.attrs \cup DOMAIN env.attrs
         /\ \A k \in DOMAIN merged.attrs :
              merged.attrs[k] = IF k \in DOMAIN explicit.attrs THEN explicit.attrs[k]
                                ELSE IF k \in DOMAIN yaml.attrs THEN yaml.attrs[k] ELSE env.attrs[k]
<1>1. SourcesType /\ DOMAIN explicit = ConfigFields /\ merged.attrs = FromProgram.attrs
  BY AtTheEnd
<1>2. FromProgram.attrs = Overlaid(explicit.attrs, FromFile.attrs)
  BY <1>1, ProgramFields
<1>3. /\ DOMAIN FromFile.attrs = DOMAIN yaml.attrs \cup DOMAIN env.attrs
      /\ \A k \in DOMAIN FromFile.attrs :
           FromFile.attrs[k] = IF k \in DOMAIN yaml.attrs THEN yaml.attrs[k] ELSE env.attrs[k]
  BY <1>1, FileFields
<1> QED BY <1>1, <1>2, <1>3 DEF Overlaid

LEMMA EnvironmentIsHighest ==
  ASSUME ConfigInv, phase = "ready", Unmistakable
  PROVE  Environment = Highest(<<Program("environment"), File("environment"),
                                 Attribute("deployment.environment"),
                                 IF "deployment.environment.name" \in DOMAIN merged.attrs
                                 THEN Unset ELSE Default>>)
<1> DEFINE p == Program("environment")
           f == File("environment")
           a == Attribute("deployment.environment")
           d == IF "deployment.environment.name" \in DOMAIN merged.attrs THEN Unset ELSE Default
           chosen == ChosenByOption("environment")
<1>1. /\ SourcesType /\ ProgramSays /\ DOMAIN explicit = ConfigFields
      /\ merged.environment = FromProgram.environment
      /\ merged.environmentChosen = explicit.environmentChosen
  BY AtTheEnd
<1>2. merged.environment = IfChosen(explicit.environment, explicit.environmentChosen, IfSet(f, Default))
  BY <1>1, ProgramFields, FileFields
<1>3. /\ p = IF explicit.environment = Default /\ ~chosen THEN Unset ELSE explicit.environment
      /\ explicit.environmentChosen <=> chosen
      /\ explicit.environment # Bad
  BY <1>1, ProgramOf
<1>4. /\ chosen => explicit.environment # Unset
      /\ f # Default
  BY DEF Unmistakable, ChosenFlag
<1>5. f # Bad
  BY <1>1, Distinct DEF File, SourcesType, IsFile
<1>6. "deployment.environment" \in DOMAIN merged.attrs => merged.attrs["deployment.environment"] \notin Silent
  BY MergedAttributes DEF Unmistakable, NamesAnIdentity
<1>7. Environment = IF chosen \/ merged.environment # Default THEN merged.environment
                    ELSE IF "deployment.environment" \in DOMAIN merged.attrs
                    THEN merged.attrs["deployment.environment"] ELSE d
  BY <1>1, <1>3 DEF Environment, EnvironmentKeys, ResourceValue
<1>8. a = IF "deployment.environment" \in DOMAIN merged.attrs THEN merged.attrs["deployment.environment"]
          ELSE Unset
  BY DEF Attribute
<1>9. Highest(<<p, f, a, d>>) = First(p, First(f, First(a, d)))
  BY HighestOfFour
<1> SUFFICES Environment = First(p, First(f, First(a, d)))
  BY <1>9
<1> HIDE DEF p, f, a, d, chosen
<1>10. CASE p \notin Silent
  BY <1>2, <1>3, <1>4, <1>7, <1>10 DEF IfChosen, First, Silent
<1>11. CASE p \in Silent
  <2>1. merged.environment = IfSet(f, Default) /\ ~chosen
    BY <1>2, <1>3, <1>4, <1>11 DEF IfChosen, Silent
  <2>2. CASE f \notin Silent
    BY <1>4, <1>7, <1>11, <2>1, <2>2 DEF IfSet, First, Silent
  <2>3. CASE f \in Silent
    <3>1. merged.environment = Default
      BY <1>5, <2>1, <2>3 DEF IfSet, Silent
    <3> QED BY <1>6, <1>7, <1>8, <1>11, <2>1, <2>3, <3>1 DEF First, Silent
  <2> QED BY <2>2, <2>3
<1> QED BY <1>10, <1>11

\* A layer that names the service outranks all below it, whether by its setting
\* or by resource attribute.
LEMMA ServiceIsHighest ==
  ASSUME ConfigInv, phase = "ready", Unmistakable
  PROVE  ServiceName = Highest(<<Named(explicit, Program("name")), Named(yaml, File("name")),
                                 Named(env, env.name), env.build.name, Default>>)
<1> DEFINE key == "service.name"
           p == Named(explicit, Program("name"))
           f == Named(yaml, File("name"))
           e == Named(env, env.name)
           b == env.build.name
<1>1. /\ SourcesType /\ ProgramSays /\ DOMAIN explicit = ConfigFields
      /\ merged.name = Stamped(merged.attrs, key, FromProgram.name, b)
  BY AtTheEnd
<1>2. /\ FromProgram.name = IfChosen(explicit.name, FALSE, YieldToResourceName(FromFile.name, explicit))
      /\ FromFile.name = IfSet(File("name"), YieldToResourceName(IfSet(env.name, Default), yaml))
  <2>1. FromEnv.name = IfSet(env.name, Default)
    BY <1>1, EnvFields
  <2> QED BY <1>1, <2>1, ProgramFields, FileFields
<1>3. /\ Program("name") = IF explicit.name = Default THEN Unset ELSE explicit.name
      /\ explicit.name # Bad
  BY <1>1, ProgramOf
<1>4. env.name # Bad /\ b # Bad
  BY <1>1 DEF SourcesType, IsEnv
<1>5. File("name") # Bad /\ (Loaded => File("name") = yaml.name)
  BY <1>1, Distinct DEF File, SourcesType, IsFile
<1>6. ~Loaded => key \notin DOMAIN yaml.attrs
  BY <1>1 DEF Loaded, SourcesType, IsFile, None
<1>7. /\ env.name # Default /\ File("name") # Default
      /\ key \in DOMAIN explicit.attrs => explicit.attrs[key] \notin Silent
      /\ key \in DOMAIN yaml.attrs => yaml.attrs[key] \notin Silent
      /\ key \in DOMAIN env.attrs => env.attrs[key] \notin Silent
  BY DEF Unmistakable, NamesAnIdentity
<1>8. /\ key \in DOMAIN merged.attrs <=> \/ key \in DOMAIN explicit.attrs \/ key \in DOMAIN yaml.attrs
                                         \/ key \in DOMAIN env.attrs
      /\ key \in DOMAIN merged.attrs =>
           merged.attrs[key] = IF key \in DOMAIN explicit.attrs THEN explicit.attrs[key]
                               ELSE IF key \in DOMAIN yaml.attrs THEN yaml.attrs[key] ELSE env.attrs[key]
  BY MergedAttributes
<1>9. ServiceName = IF key \in DOMAIN merged.attrs /\ merged.name = Default THEN merged.attrs[key]
                    ELSE merged.name
  BY DEF ServiceName, ResourceValue
<1>10. Highest(<<p, f, e, b, Default>>) = First(p, First(f, First(e, First(b, Default))))
  BY HighestOfFive
<1> SUFFICES ServiceName = First(p, First(f, First(e, First(b, Default))))
  BY <1>10
<1> USE DEF Silent
<1>11. CASE explicit.name \notin {Unset, Default}
  <2>1. p = explicit.name /\ FromProgram.name = explicit.name
    BY <1>2, <1>3, <1>11 DEF Named, IfChosen
  <2>2. merged.name = explicit.name
    BY <1>1, <1>11, <2>1 DEF Stamped
  <2> QED BY <1>3, <1>9, <1>11, <2>1, <2>2 DEF First
<1>12. CASE explicit.name \in {Unset, Default} /\ key \in DOMAIN explicit.attrs
  <2>1. p = explicit.attrs[key]
    BY <1>3, <1>12 DEF Named
  <2>2. FromProgram.name = Default
    BY <1>2, <1>12 DEF IfChosen, YieldToResourceName
  <2>3. merged.name = Default
    BY <1>1, <1>8, <1>12, <2>2 DEF Stamped
  <2> QED BY <1>7, <1>8, <1>9, <1>12, <2>1, <2>3 DEF First
<1>13. CASE explicit.name \in {Unset, Default} /\ key \notin DOMAIN explicit.attrs
  <2>1. p = Unset
    BY <1>3, <1>13 DEF Named
  <2>2. FromProgram.name = FromFile.name
    BY <1>2, <1>13 DEF IfChosen, YieldToResourceName
  <2>3. First(p, First(f, First(e, First(b, Default)))) = First(f, First(e, First(b, Default)))
    BY <2>1 DEF First
  <2>4. CASE File("name") # Unset
    <3>1. f = File("name") /\ FromProgram.name = f
      BY <1>2, <2>2, <2>4 DEF Named, IfSet
    <3>2. merged.name = f
      BY <1>1, <1>7, <2>4, <3>1 DEF Stamped
    <3> QED BY <1>5, <1>7, <1>9, <2>3, <2>4, <3>1, <3>2 DEF First
  <2>5. CASE File("name") = Unset /\ key \in DOMAIN yaml.attrs
    <3>1. f = yaml.attrs[key]
      BY <2>5 DEF Named
    <3>2. yaml.name = Unset
      BY <1>5, <1>6, <2>5
    <3>3. FromProgram.name = Default
      BY <1>2, <2>2, <2>5, <3>2 DEF IfSet, YieldToResourceName
    <3>4. merged.name = Default
      BY <1>1, <1>8, <2>5, <3>3 DEF Stamped
    <3> QED BY <1>7, <1>8, <1>9, <1>13, <2>3, <2>5, <3>1, <3>4 DEF First
  <2>6. CASE File("name") = Unset /\ key \notin DOMAIN yaml.attrs
    <3>1. f = Unset
      BY <2>6 DEF Named
    <3>2. FromProgram.name = IfSet(env.name, Default)
      BY <1>2, <2>2, <2>6 DEF IfSet, YieldToResourceName
    <3>3. First(p, First(f, First(e, First(b, Default)))) = First(e, First(b, Default))
      BY <2>3, <3>1 DEF First
    <3>4. CASE env.name # Unset
      <4>1. e = env.name /\ FromProgram.name = e
        BY <3>2, <3>4 DEF Named, IfSet
      <4>2. merged.name = e
        BY <1>1, <1>7, <4>1 DEF Stamped
      <4> QED BY <1>4, <1>7, <1>9, <3>3, <3>4, <4>1, <4>2 DEF First
    <3>5. CASE env.name = Unset /\ key \in DOMAIN env.attrs
      <4>1. e = env.attrs[key] /\ FromProgram.name = Default
        BY <3>2, <3>5 DEF Named, IfSet
      <4>2. merged.name = Default
        BY <1>1, <1>8, <3>5, <4>1 DEF Stamped
      <4> QED BY <1>7, <1>8, <1>9, <1>13, <2>6, <3>3, <3>5, <4>1, <4>2 DEF First
    <3>6. CASE env.name = Unset /\ key \notin DOMAIN env.attrs
      <4>1. e = Unset /\ FromProgram.name = Default
        BY <3>2, <3>6 DEF Named, IfSet
      <4>2. key \notin DOMAIN merged.attrs
        BY <1>8, <1>13, <2>6, <3>6
      <4>3. merged.name = IfSet(b, Default)
        BY <1>1, <4>1, <4>2 DEF Stamped
      <4> QED BY <1>4, <1>9, <3>3, <4>1, <4>2, <4>3 DEF First, IfSet
    <3> QED BY <3>4, <3>5, <3>6
  <2> QED BY <2>4, <2>5, <2>6
<1> QED BY <1>11, <1>12, <1>13

LEMMA IdentityIsHighest ==
  ASSUME ConfigInv, phase = "ready", Unmistakable
  PROVE  IdentityFromTheTop
BY ServiceIsHighest, EnvironmentIsHighest DEF IdentityFromTheTop
-----------------------------------------------------------------------------
(* Headers. *)

\* Under name n the headers are those of source, spelling by spelling.
CarriedAs(headers, n, source) ==
    /\ Carrying(headers, n) = Carrying(source, n)
    /\ \A h \in Carrying(source, n) : headers[h] = source[h]

\* Merging takes over the names of source whole, and leaves the others as they are.
LEMMA MergedHeaders ==
  ASSUME NEW target, NEW source, NEW n
  PROVE  CarriedAs(MergeHeaders(target, source), n, IF Carrying(source, n) # {} THEN source ELSE target)
<1> DEFINE result == MergeHeaders(target, source)
           kept == {h \in DOMAIN target : \A k \in DOMAIN source : h = k \/ ~SameHeader(h, k)}
           below == [h \in kept |-> target[h]]
<1>1. result = Overlaid(source, below)
  BY DEF MergeHeaders
<1>2. DOMAIN below = kept /\ \A h \in kept : below[h] = target[h]
  OBVIOUS
<1>3. /\ DOMAIN result = DOMAIN source \cup kept
      /\ \A h \in DOMAIN source : result[h] = source[h]
      /\ \A h \in kept : h \notin DOMAIN source => result[h] = target[h]
  BY <1>1, <1>2 DEF Overlaid
<1>4. \A h : h \in kept <=> h \in DOMAIN target /\ \A k \in DOMAIN source : h = k \/ h.name # k.name
  BY DEF SameHeader
<1> HIDE DEF result, kept, below
<1>5. \A headers, h : h \in Carrying(headers, n) <=> h \in DOMAIN headers /\ h.name = n
  BY DEF Carrying
<1>6. CASE Carrying(source, n) # {}
  <2>1. PICK k : k \in DOMAIN source /\ k.name = n
    BY <1>5, <1>6
  <2>2. \A h : h \in Carrying(result, n) <=> h \in Carrying(source, n)
    BY <1>3, <1>4, <1>5, <2>1
  <2>3. \A h \in Carrying(source, n) : result[h] = source[h]
    BY <1>3, <1>5
  <2>4. CarriedAs(result, n, source)
    BY <2>2, <2>3 DEF CarriedAs
  <2> QED BY <1>6, <2>4 DEF result
<1>7. CASE Carrying(source, n) = {}
  <2>1. \A k \in DOMAIN source : k.name # n
    BY <1>5, <1>7
  <2>2. \A h : h \in Carrying(result, n) <=> h \in Carrying(target, n)
    BY <1>3, <1>4, <1>5, <2>1
  <2>3. \A h \in Carrying(target, n) : result[h] = target[h]
    BY <1>3, <1>4, <1>5, <2>1
  <2>4. CarriedAs(result, n, target)
    BY <2>2, <2>3 DEF CarriedAs
  <2> QED BY <1>7, <2>4 DEF result
<1> QED BY <1>6, <1>7

LEMMA CarriedOn ==
  ASSUME NEW a, NEW b, NEW c, NEW n, CarriedAs(a, n, b), CarriedAs(b, n, c)
  PROVE  CarriedAs(a, n, c)
BY DEF CarriedAs

\* The highest layer that carries a name gives its headers.
LEMMA LayeredHeaders ==
  ASSUME SourcesType, DOMAIN explicit = ConfigFields, NEW n
  PROVE  CarriedAs(FromProgram.headers, n,
                   IF Carrying(explicit.headers, n) # {} THEN explicit.headers
                   ELSE IF Carrying(yaml.headers, n) # {} THEN yaml.headers ELSE env.headers)
<1>1. CarriedAs(FromProgram.headers, n,
                IF Carrying(explicit.headers, n) # {} THEN explicit.headers ELSE FromFile.headers)
  BY ProgramFields, MergedHeaders
<1>2. CarriedAs(FromFile.headers, n, IF Carrying(yaml.headers, n) # {} THEN yaml.headers ELSE env.headers)
  <2>1. CASE Loaded
    BY <2>1, ReadFileFields, MergedHeaders
  <2>2. CASE ~Loaded
    <3>1. yaml.headers = None
      BY <2>2 DEF SourcesType, IsFile, Loaded
    <3>2. Carrying(yaml.headers, n) = {}
      BY <3>1 DEF Carrying, None
    <3>3. FromFile.headers = env.headers
      BY <2>2, EnvFields DEF FromFile
    <3> QED BY <3>2, <3>3 DEF CarriedAs
  <2> QED BY <2>1, <2>2
<1>3. CASE Carrying(explicit.headers, n) # {}
  BY <1>1, <1>3
<1>4. CASE Carrying(explicit.headers, n) = {}
  BY <1>1, <1>2, <1>4, CarriedOn
<1> QED BY <1>3, <1>4

\* A preset adds a header only under a name nobody carries, and Datadog's origin.
LEMMA PresetAddsHeaders ==
  ASSUME NEW preset, NEW headers, NEW n, Carrying(headers, n) # {},
         \A h \in Carrying(headers, "x-datadog-origin") : h = Header("x-datadog-origin", 1)
  PROVE  /\ Carrying(PresetHeaders(preset, headers), n) = Carrying(headers, n)
         /\ \A h \in Carrying(headers, n) :
              PresetHeaders(preset, headers)[h] = headers[h] \/ n = "x-datadog-origin"
<1> DEFINE key == Header(PresetKey[preset], 1)
           known == \E h \in DOMAIN headers : SameHeader(h, key)
           single == [h \in {key} |-> env.presetKey]
           withKey == IF env.presetKey = Unset \/ known THEN headers ELSE Overlaid(single, headers)
           origin == Header("x-datadog-origin", 1)
           stamp == [h \in {origin} |-> "otlp"]
           result == PresetHeaders(preset, headers)
<1>1. result = IF preset = "datadog" THEN Overlaid(stamp, withKey) ELSE withKey
  BY DEF PresetHeaders
<1>2. \A map, h : h \in Carrying(map, n) <=> h \in DOMAIN map /\ h.name = n
  BY DEF Carrying
<1>3. Carrying(withKey, n) = Carrying(headers, n) /\ \A h \in Carrying(headers, n) : withKey[h] = headers[h]
  <2>1. CASE env.presetKey = Unset \/ known
    BY <2>1
  <2>2. CASE ~(env.presetKey = Unset \/ known)
    <3>1. withKey = Overlaid(single, headers)
      BY <2>2
    <3>2. DOMAIN single = {key}
      OBVIOUS
    <3>3. /\ DOMAIN withKey = {key} \cup DOMAIN headers
          /\ \A h \in DOMAIN headers : h # key => withKey[h] = headers[h]
      BY <3>1, <3>2 DEF Overlaid
    <3>4. \A h \in DOMAIN headers : h.name # key.name
      BY <2>2 DEF SameHeader
    <3>5. key.name # n
      BY <1>2, <3>4
    <3> HIDE DEF withKey, key, single
    <3>6. \A h : h \in Carrying(withKey, n) <=> h \in Carrying(headers, n)
      BY <1>2, <3>3, <3>5
    <3>7. \A h \in Carrying(headers, n) : withKey[h] = headers[h]
      BY <1>2, <3>3, <3>5
    <3> QED BY <3>6, <3>7
  <2> QED BY <2>1, <2>2
<1>4. CASE preset # "datadog"
  BY <1>1, <1>3, <1>4
<1>5. CASE preset = "datadog"
  <2>1. result = Overlaid(stamp, withKey)
    BY <1>1, <1>5
  <2>2. DOMAIN stamp = {origin} /\ origin.name = "x-datadog-origin"
    BY DEF Header
  <2> HIDE DEF withKey
  <2>3. /\ DOMAIN result = {origin} \cup DOMAIN withKey
        /\ \A h \in DOMAIN withKey : h # origin => result[h] = withKey[h]
    BY <2>1, <2>2 DEF Overlaid
  <2> HIDE DEF result, stamp, origin
  <2>4. CASE n # "x-datadog-origin"
    <3>1. \A h : h \in Carrying(result, n) <=> h \in Carrying(withKey, n)
      BY <1>2, <2>2, <2>3, <2>4
    <3>2. \A h \in Carrying(withKey, n) : result[h] = withKey[h]
      BY <1>2, <2>2, <2>3, <2>4
    <3> QED BY <1>3, <3>1, <3>2 DEF result
  <2>5. CASE n = "x-datadog-origin"
    <3>1. \A h \in Carrying(headers, n) : h = origin
      BY <2>5 DEF origin
    <3>2. origin \in Carrying(headers, n)
      BY <3>1
    <3>3. \A h : h \in Carrying(result, n) <=> h \in Carrying(headers, n)
      BY <1>2, <1>3, <2>2, <2>3, <2>5, <3>2
    <3> QED BY <2>5, <3>3 DEF result
  <2> QED BY <2>4, <2>5
<1> QED BY <1>4, <1>5

LEMMA MergedFromTheTop ==
  ASSUME ConfigInv, phase = "ready", Unmistakable, NEW n
  PROVE  SentFromTheTop(merged.headers, n)
<1> DEFINE carriers == Carriers(n)
           best == CHOOSE i \in carriers : \A j \in carriers : i <= j
           top == HeaderLayers[best]
           given == IF Carrying(explicit.headers, n) # {} THEN explicit.headers
                    ELSE IF Carrying(yaml.headers, n) # {} THEN yaml.headers ELSE env.headers
<1>1. /\ SourcesType /\ DOMAIN explicit = ConfigFields
      /\ merged.headers = IF HasPreset THEN PresetHeaders(merged.preset, FromProgram.headers)
                          ELSE FromProgram.headers
  BY AtTheEnd
<1>2. \A m : CarriedAs(FromProgram.headers, m,
                       IF Carrying(explicit.headers, m) # {} THEN explicit.headers
                       ELSE IF Carrying(yaml.headers, m) # {} THEN yaml.headers ELSE env.headers)
  BY <1>1, LayeredHeaders
<1>3. CarriedAs(FromProgram.headers, n, given)
  BY <1>2
<1>5. /\ DOMAIN HeaderLayers = 1..3
      /\ HeaderLayers[1] = explicit.headers /\ HeaderLayers[2] = yaml.headers /\ HeaderLayers[3] = env.headers
  BY DEF HeaderLayers
<1>6. /\ 1 \in carriers <=> Carrying(explicit.headers, n) # {}
      /\ 2 \in carriers <=> Carrying(yaml.headers, n) # {}
      /\ 3 \in carriers <=> Carrying(env.headers, n) # {}
      /\ \A i \in carriers : i = 1 \/ i = 2 \/ i = 3
  BY <1>5 DEF Carriers
<1>7. carriers # {} => top = given
  <2> HIDE DEF carriers
  <2>1. ASSUME NEW i \in carriers, \A j \in carriers : i <= j
        PROVE  best = i
    <3>1. best \in carriers /\ \A j \in carriers : best <= j
      BY <2>1
    <3>2. best <= i /\ i <= best /\ best \in Int /\ i \in Int
      BY <1>6, <2>1, <3>1
    <3> HIDE DEF best
    <3> QED BY <3>2
  <2>2. CASE 1 \in carriers
    <3>1. \A j \in carriers : 1 <= j
      BY <1>6
    <3>2. best = 1
      BY <2>1, <2>2, <3>1
    <3> QED BY <1>5, <1>6, <2>2, <3>2
  <2>3. CASE 1 \notin carriers /\ 2 \in carriers
    <3>1. \A j \in carriers : 2 <= j
      BY <1>6, <2>3
    <3>2. best = 2
      BY <2>1, <2>3, <3>1
    <3> QED BY <1>5, <1>6, <2>3, <3>2
  <2>4. CASE 1 \notin carriers /\ 2 \notin carriers /\ 3 \in carriers
    <3>1. \A j \in carriers : 3 <= j
      BY <1>6, <2>4
    <3>2. best = 3
      BY <2>1, <2>4, <3>1
    <3> QED BY <1>5, <1>6, <2>4, <3>2
  <2> QED BY <1>6, <2>2, <2>3, <2>4
<1>8. carriers = {} <=> Carrying(given, n) = {}
  BY <1>6
<1> HIDE DEF carriers, best, given
<1>9. CASE carriers = {}
  <2>1. Carrying(FromProgram.headers, n) = {}
    BY <1>3, <1>8, <1>9 DEF CarriedAs
  <2>2. Carrying(merged.headers, n) = {} \/ HasPreset
    BY <1>1, <2>1
  <2> QED BY <1>9, <2>2 DEF carriers, SentFromTheTop
<1>10. CASE carriers # {}
  <2>1. top = given /\ Carrying(given, n) # {}
    BY <1>7, <1>8, <1>10
  <2>2. Carrying(FromProgram.headers, n) = Carrying(given, n)
        /\ \A k \in Carrying(given, n) : FromProgram.headers[k] = given[k]
    BY <1>3 DEF CarriedAs
  <2>3. \A k \in Carrying(FromProgram.headers, "x-datadog-origin") : k = Header("x-datadog-origin", 1)
    <3>1. \A i \in {1, 2, 3} : \A k \in Carrying(HeaderLayers[i], "x-datadog-origin") :
             k = Header("x-datadog-origin", 1)
      BY <1>5 DEF Unmistakable
    <3>2. /\ \A k \in Carrying(explicit.headers, "x-datadog-origin") : k = Header("x-datadog-origin", 1)
          /\ \A k \in Carrying(yaml.headers, "x-datadog-origin") : k = Header("x-datadog-origin", 1)
          /\ \A k \in Carrying(env.headers, "x-datadog-origin") : k = Header("x-datadog-origin", 1)
      BY <1>5, <3>1
    <3> QED BY <1>2, <3>2 DEF CarriedAs
  <2>4. /\ Carrying(merged.headers, n) = Carrying(given, n)
        /\ \A k \in Carrying(given, n) : merged.headers[k] = given[k] \/ n = "x-datadog-origin"
    <3>1. CASE ~HasPreset
      BY <1>1, <2>2, <3>1
    <3>2. CASE HasPreset
      <4>1. merged.headers = PresetHeaders(merged.preset, FromProgram.headers)
        BY <1>1, <3>2
      <4>2. /\ Carrying(merged.headers, n) = Carrying(FromProgram.headers, n)
            /\ \A k \in Carrying(FromProgram.headers, n) :
                 merged.headers[k] = FromProgram.headers[k] \/ n = "x-datadog-origin"
        BY <2>1, <2>2, <2>3, <4>1, PresetAddsHeaders
      <4> QED BY <2>2, <4>2
    <3> QED BY <3>1, <3>2
  <2>5. top = TopLayer(n)
    BY DEF TopLayer, carriers, best
  <2> QED BY <1>10, <2>1, <2>4, <2>5 DEF carriers, SentFromTheTop
<1> QED BY <1>9, <1>10

\* What a signal's own variable adds, unless an endpoint from above took it away.
LEMMA SignalsKeepHeaders ==
  ASSUME ConfigInv, phase = "ready", NEW s \in Signals
  PROVE  merged.signals[s].headers = OwnHeaders(s)
<1>1. SourcesType /\ ProgramSays /\ merged.signals = FromProgram.signals /\ DOMAIN explicit = ConfigFields
  BY AtTheEnd
<1>2. /\ ChosenEndpoint = Unset <=> explicit.endpoint = Unset /\ File("endpoint") = Unset
      /\ FromProgram.signals = OverrideSignalEndpoints(FromFile.signals, explicit.endpoint)
  BY <1>1, LayeredIsBase, ProgramFields
<1>3. "headers" \in DOMAIN FromEnv.signals[s] /\ FromEnv.signals[s].headers = env.signals[s].headers
  <2>1. {"endpoint", "headers"} \subseteq DOMAIN env.signals[s]
    BY <1>1 DEF SourcesType, IsEnv
  <2>2. FromEnv.signals = ResolvedEnv.signals
    BY FieldsOfConfig DEF FromEnv, EnvLayer, ConfigFields
  <2>3. ResolvedEnv.signals = [t \in Signals |-> SignalFromEnv(t)]
    BY <1>1 DEF ResolvedEnv, SourcesType, IsEnv
  <2> QED BY <2>1, <2>2, <2>3 DEF SignalFromEnv
<1>4. ASSUME NEW signals, NEW endpoint, "headers" \in DOMAIN signals[s]
      PROVE  /\ "headers" \in DOMAIN OverrideSignalEndpoints(signals, endpoint)[s]
             /\ OverrideSignalEndpoints(signals, endpoint)[s].headers =
                  IF endpoint = Unset THEN signals[s].headers ELSE None
  BY <1>4 DEF OverrideSignalEndpoints
<1>5. /\ "headers" \in DOMAIN FromFile.signals[s]
      /\ FromFile.signals[s].headers =
           IF File("endpoint") = Unset THEN env.signals[s].headers ELSE None
  <2>1. CASE Loaded
    <3>1. FromFile.signals = OverrideSignalEndpoints(FromEnv.signals, Sanitized(yaml.endpoint))
      BY <1>1, <2>1, ReadFileFields
    <3>2. Sanitized(yaml.endpoint) = Unset <=> File("endpoint") = Unset
      BY <1>1, <2>1, SanitizedFacts DEF SourcesType, IsFile, File
    <3> QED BY <1>3, <1>4, <3>1, <3>2
  <2>2. CASE ~Loaded
    BY <1>3, <2>2 DEF FromFile, File
  <2> QED BY <2>1, <2>2
<1>6. merged.signals[s].headers = IF explicit.endpoint = Unset THEN FromFile.signals[s].headers ELSE None
  BY <1>1, <1>2, <1>4, <1>5
<1> QED BY <1>2, <1>5, <1>6 DEF OwnHeaders

LEMMA HeadersAreHighest ==
  ASSUME ConfigInv, phase = "ready", Unmistakable
  PROVE  HeadersFromTheTop
<1> SUFFICES ASSUME NEW s \in Signals
             PROVE  /\ \A n : Carrying(OwnHeaders(s), n) = {} => SentFromTheTop(SignalHeaders(s), n)
                    /\ \A h \in DOMAIN OwnHeaders(s) : /\ h \in DOMAIN SignalHeaders(s)
                                                        /\ SignalHeaders(s)[h] = OwnHeaders(s)[h]
  BY DEF HeadersFromTheTop
<1> DEFINE sent == SignalHeaders(s)
           own == OwnHeaders(s)
<1>1. sent = Overlaid(own, merged.headers)
  BY SignalsKeepHeaders DEF SignalHeaders
<1>2. /\ DOMAIN sent = DOMAIN own \cup DOMAIN merged.headers
      /\ \A h \in DOMAIN own : sent[h] = own[h]
      /\ \A h \in DOMAIN merged.headers : h \notin DOMAIN own => sent[h] = merged.headers[h]
  BY <1>1 DEF Overlaid
<1> HIDE DEF sent, own
<1>3. ASSUME NEW n, Carrying(own, n) = {} PROVE SentFromTheTop(sent, n)
  <2>1. \A headers, h : h \in Carrying(headers, n) <=> h \in DOMAIN headers /\ h.name = n
    BY DEF Carrying
  <2>2. \A h : h \in Carrying(sent, n) <=> h \in Carrying(merged.headers, n)
    BY <1>2, <1>3, <2>1
  <2>3. Carrying(sent, n) = Carrying(merged.headers, n)
    BY <2>2
  <2>4. \A h \in Carrying(sent, n) : sent[h] = merged.headers[h]
    BY <1>2, <1>3, <2>1, <2>2
  <2>5. SentFromTheTop(merged.headers, n)
    BY MergedFromTheTop
  <2> QED BY <2>3, <2>4, <2>5 DEF SentFromTheTop
<1> QED BY <1>2, <1>3 DEF sent, own

\* config_merge.go, autotel.go, devtools.go, env.go: whatever the sources say, as
\* long as they leave no doubt, each setting Init builds from is the one of the
\* highest source that has it, the headers sent with each signal included, for any
\* signals, hosts and options in any order.
THEOREM TheHighestWins == ConfigSpec => [](Unmistakable => HighestSourceWins)
<1>1. ConfigInv => (Unmistakable => HighestSourceWins)
  BY IdentityIsHighest, EndpointsAreHighest, ProtocolIsHighest, SamplerIsHighest, DebugIsHighest,
     HeadersAreHighest DEF HighestSourceWins
<1> QED BY <1>1, InitConfigInv, NextConfigInv, PTL DEF ConfigSpec
=============================================================================

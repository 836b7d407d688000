--------------------------- MODULE RequestLogger ---------------------------
(* The request logger of request_logger.go: goroutines of one request merge *)
(* fields into one record and onto its span, until EmitNow seals the record *)
(* and adds it to the span as an event.  An error goes onto the span without *)
(* the logger's lock, and its own attributes into no record.  The span may   *)
(* end at any time.                                                         *)
EXTENDS Naturals, Sequences

CONSTANTS
    Goroutines,
    Names,          \* of fields
    ErrorNames,     \* of the attributes of a StructuredError: error.why, error.code...
    Values,
    MaxEvents       \* bound: the events on the span

ASSUME LoggerAssumption == MaxEvents \in Nat

VARIABLES
    fields,         \* l.fields
    emitted,        \* l.emitted: the sealed record, or NotEmitted
    recording,      \* the span has not ended
    attributes,     \* of the span
    events,         \* of the span, each with its attributes
    failing,        \* failing[g]: what is left of the Error g has called
    got,            \* got[g]: what EmitNow last returned to g
    missed,         \* history: fields were merged after the span had ended
    erred           \* history: the attributes of errors that no field has replaced

loggerVars == <<fields, emitted, recording, attributes, events, failing, got, missed, erred>>

\* Definitions named Faulty... are variants that no action uses: each breaks a
\* property when it takes the place of the definition it stands beside.

NotEmitted == [none |-> TRUE]
Snapshot(content) == [fields |-> content]
NoFields == <<>>
\* Fields already flattened.
OneField == {[field \in {n} |-> v] : n \in Names, v \in Values}
Given == {NoFields} \cup OneField
Event(name, content) == [name |-> name, fields |-> content]
\* errorAttributes: those of a StructuredError that are set, and no others.
ErrorAttributes == UNION {[ns -> Values] : ns \in SUBSET ErrorNames}
\* An Error whose event is logged: its exception is next, or its attributes.
NotFailing == [stage |-> "none", left |-> NoFields]
Failing(stage, left) == [stage |-> stage, left |-> left]

LoggerInit ==
    /\ fields = NoFields /\ emitted = NotEmitted
    /\ recording = TRUE
    /\ attributes = NoFields /\ events = <<>>
    /\ failing = [g \in Goroutines |-> NotFailing]
    /\ got = [g \in Goroutines |-> NotEmitted]
    /\ missed = FALSE /\ erred = NoFields
-----------------------------------------------------------------------------
FaultySealed(e) == FALSE
Sealed(e) == e # NotEmitted
Room == Len(events) < MaxEvents

\* maps.Copy(into, from), and what SetAttributes makes of a span's.
Copied(into, from) ==
    [n \in DOMAIN into \cup DOMAIN from |-> IF n \in DOMAIN from THEN from[n] ELSE into[n]]
Without(content, names) == [n \in DOMAIN content \ names |-> content[n]]
Busy(g) == failing[g] # NotFailing

\* maps.Copy and setOnSpan.
Merged(given) ==
    /\ fields' = Copied(fields, given)
    /\ attributes' = IF recording THEN Copied(attributes, given) ELSE attributes
    /\ missed' = (missed \/ (~recording /\ given # NoFields))
    /\ erred' = Without(erred, DOMAIN given)

Set(g, given) ==
    /\ ~Busy(g) /\ ~Sealed(emitted)
    /\ Merged(given)
    /\ UNCHANGED <<emitted, recording, events, failing, got>>

\* Info, Warn and the first part of Error: merged, and an event of its own.
LogEvent(g, name, given) ==
    /\ ~Busy(g) /\ ~Sealed(emitted) /\ Room
    /\ Merged(given)
    /\ events' = IF recording THEN Append(events, Event(name, given)) ELSE events
    /\ IF name = "log.error"
       THEN \E err \in ErrorAttributes :
               failing' = [failing EXCEPT ![g] = Failing("exception", err)]
       ELSE UNCHANGED failing
    /\ UNCHANGED <<emitted, recording, got>>

\* Error goes on without the lock: spanImpl.RecordError, whatever was sealed
\* since, adds the exception event, and sets the error's attributes one by one.
MovesOn(g, stage, left) ==
    failing' = [failing EXCEPT
                   ![g] = IF recording /\ left # NoFields THEN Failing(stage, left) ELSE NotFailing]

RecordError(g) ==
    /\ failing[g].stage = "exception" /\ Room
    /\ events' = IF recording THEN Append(events, Event("exception", NoFields)) ELSE events
    /\ MovesOn(g, "attributes", failing[g].left)
    /\ UNCHANGED <<fields, emitted, recording, attributes, got, missed, erred>>

SetErrorAttribute(g) ==
    /\ failing[g].stage = "attributes"
    /\ \E n \in DOMAIN failing[g].left :
          LET one == [m \in {n} |-> failing[g].left[n]]
          IN  /\ attributes' = IF recording THEN Copied(attributes, one) ELSE attributes
              /\ erred' = IF recording THEN Copied(erred, one) ELSE erred
              /\ MovesOn(g, "attributes", Without(failing[g].left, {n}))
    /\ UNCHANGED <<fields, emitted, recording, events, got, missed>>

\* The first call seals; every other gets the record of the first.
EmitNow(g) ==
    /\ ~Busy(g) /\ Room
    /\ IF Sealed(emitted)
       THEN /\ got' = [got EXCEPT ![g] = emitted]
            /\ UNCHANGED <<emitted, events>>
       ELSE /\ emitted' = Snapshot(fields)
            /\ got' = [got EXCEPT ![g] = Snapshot(fields)]
            /\ events' = IF recording THEN Append(events, Event("log.emit.manual", fields))
                         ELSE events
    /\ UNCHANGED <<fields, recording, attributes, failing, missed, erred>>

EndSpan ==
    /\ recording /\ recording' = FALSE
    /\ UNCHANGED <<fields, emitted, attributes, events, failing, got, missed, erred>>

LoggerNext ==
    \/ \E g \in Goroutines :
        \/ \E given \in Given :
            \/ Set(g, given)
            \/ \E name \in {"log.info", "log.warn", "log.error"} : LogEvent(g, name, given)
        \/ RecordError(g) \/ SetErrorAttribute(g)
        \/ EmitNow(g)
    \/ EndSpan

LoggerSpec == LoggerInit /\ [][LoggerNext]_loggerVars
-----------------------------------------------------------------------------
\* request_logger.go, EmitNow: it "seals the record and sends it as one event on
\* the span", and "a second call returns the first snapshot and sends nothing".
\* The record is the same for every caller and the one on the span, it holds
\* every field set before it, and nothing is logged under it afterwards but the
\* exception of an Error under way.  Unless fields came after the span had ended
\* the span shows the record's values, except where the attribute of a
\* StructuredError has come later under the same name: those, which the record
\* never has, may come even after it is sealed.
OneRecord ==
    LET emits == {i \in DOMAIN events : events[i].name = "log.emit.manual"}
    IN  /\ \A g \in Goroutines : got[g] \in {NotEmitted, emitted}
        /\ Sealed(emitted) => emitted = Snapshot(fields)
        /\ ~missed => attributes = Copied(fields, erred)
        /\ \A i \in emits : /\ events[i].fields = fields
                            /\ \A j \in DOMAIN events : j > i => events[j].name = "exception"
=============================================================================

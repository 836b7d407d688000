--------------------------- MODULE BaggageLimits ---------------------------
(* Business context in baggage: SafeBaggage with its Schema (schema.go),    *)
(* BusinessContext with its Profile (business.go), and the processor that   *)
(* copies baggage onto a span as it starts (processors/baggage.go).         *)
(* Requests share one SafeBaggage, and each has a context of its own.  A    *)
(* value is what was written, in which form it is sent, and its size.       *)
EXTENDS Integers, FiniteSetsExt

CONSTANTS
    Requests,       \* goroutines, each with its context
    Fields,         \* those of AllFields that are written
    Raws,           \* what callers write; "" is empty
    Limit,          \* WithCardinalityLimit of the tenant
    MaxTotalSize    \* WithMaxTotalSize

VARIABLES
    carried,        \* carried[r]: the baggage of request r's context
    safe,           \* safe[r]: r writes through SafeBaggage, or BusinessContext
    seenValues,     \* the tenants seen
    setting,        \* setting[r]: what SetMultiple still has to set, and what
                    \* is past the cardinality check
    reported        \* the tenants on spans that SafeBaggage's requests started

baggageVars == <<carried, safe, seenValues, setting, reported>>

\* Definitions named Faulty... are variants that no action uses: each breaks a
\* property when it takes the place of the definition it stands beside.

\* A counted field, a hashed one, a redacted one, a constrained one (by an
\* enumeration, bounds or a type) and one the schema does not define.
AllFields == {"tenant_id", "user_id", "note", "priority", "other"}

ASSUME BaggageAssumption ==
    Fields \subseteq AllFields /\ Limit \in Nat /\ MaxTotalSize \in Nat

Strict == TRUE
MaxLength == 2
Required(field) == field = "tenant_id"
Constrained(field, raw) == field = "priority" => raw = "low"
Sensitive == {"user_id", "note"}

Value(raw, form, size) == [raw |-> raw, form |-> form, size |-> size]
Written(raw) == Value(raw, "plain", IF raw = "" THEN 0 ELSE IF raw = "long" THEN 3 ELSE 1)
Hashed(v) == Value("", "hashed", 2)
Redacted(v) == Value("", "redacted", 3)
Truncated(v) == [v EXCEPT !.size = IF @ > MaxLength THEN MaxLength ELSE @]
NoBaggage == <<>>
-----------------------------------------------------------------------------
(* schema.go *)

\* Validate.  A field with a maximum length rejects what exceeds it.
Valid(field, raw) ==
    IF field = "other" THEN ~Strict
    ELSE IF raw = "" THEN ~Required(field)
    ELSE Constrained(field, raw) /\ (field \in {"tenant_id", "note"} => Written(raw).size <= MaxLength)

\* Process, of a valid value: redacted, hashed, cut to length.
Processed(field, raw) ==
    CASE field = "user_id" -> Hashed(Written(raw))
      [] field = "note" /\ raw # "" -> Truncated(Redacted(Written(raw)))
      [] OTHER -> Written(raw)

\* trackCardinality: known, or room for one more.
FaultyRoomFor(v, seen) == v \in seen \/ Cardinality(seen) <= Limit
RoomFor(v, seen) == v \in seen \/ Cardinality(seen) < Limit

\* The units of size of a context: each value's, and one more for its key.
Units(bag) == UNION {{f} \X (0..bag[f].size) : f \in DOMAIN bag}
BaggageSize(bag) == Cardinality(Units(bag))
\* A value that replaces another is counted on top of it.
Fits(bag, field, v) == BaggageSize(bag) + v.size + 1 <= MaxTotalSize

SetMember(bag, field, v) ==
    [f \in DOMAIN bag \cup {field} |-> IF f = field THEN v ELSE bag[f]]
-----------------------------------------------------------------------------
Nothing == [todo |-> {}, field |-> "", value |-> Written("")]

BaggageInit ==
    /\ carried = [r \in Requests |-> NoBaggage]
    /\ safe \in [Requests -> BOOLEAN]
    /\ seenValues = {}
    /\ setting = [r \in Requests |-> Nothing]
    /\ reported = {}

\* SetMultiple with some values; Set is SetMultiple with one.
SetMultiple(r) ==
    /\ setting[r] = Nothing /\ safe[r]
    /\ \E some \in {s \in SUBSET Fields : Cardinality(s) \in 1..2} :
         \E raw \in [some -> Raws] :
            setting' = [setting EXCEPT
                ![r].todo = {<<f, raw[f]>> : f \in some}]
    /\ UNCHANGED <<carried, safe, seenValues, reported>>

Stop(r) == setting' = [setting EXCEPT ![r] = Nothing]
\* On to the next value, in map order.
Skip(r, item) == setting' = [setting EXCEPT ![r].todo = @ \ {item}]

\* Process, and trackCardinality under its lock.  A rejected value ends the
\* call with what was set so far; one refused later has been counted.
Check(r, item) ==
    /\ setting[r].field = "" /\ item \in setting[r].todo
    /\ LET field == item[1]  v == Processed(field, item[2])
       IN  IF ~Valid(field, item[2]) THEN Stop(r) /\ UNCHANGED seenValues
           ELSE IF v.size = 0 THEN Skip(r, item) /\ UNCHANGED seenValues
           ELSE IF field = "tenant_id" /\ ~RoomFor(v, seenValues)
                THEN Stop(r) /\ UNCHANGED seenValues
           ELSE /\ seenValues' = IF field = "tenant_id" THEN seenValues \cup {v}
                                 ELSE seenValues
                /\ setting' = [setting EXCEPT
                     ![r] = [todo |-> @.todo \ {item}, field |-> field, value |-> v]]
    /\ UNCHANGED <<carried, safe, reported>>

\* The size check, NewMember, which may refuse the value, and SetMember.
Store(r, accepted) ==
    /\ setting[r].field # ""
    /\ LET field == setting[r].field  v == setting[r].value
       IN  IF accepted /\ Fits(carried[r], field, v)
           THEN /\ carried' = [carried EXCEPT ![r] = SetMember(@, field, v)]
                /\ setting' = [setting EXCEPT ![r] = [todo |-> @.todo, field |-> "", value |-> Written("")]]
           ELSE Stop(r) /\ UNCHANGED carried
    /\ UNCHANGED <<safe, seenValues, reported>>

\* BusinessContext.Set: values a profile rejects are skipped, the rest cut to
\* length, then hashed.  It counts nothing.
SetBusiness(r, field, raw) ==
    /\ ~safe[r]
    /\ field \in Fields \cap {"tenant_id", "user_id", "priority"} /\ raw # "" /\ Constrained(field, raw)
    /\ LET cut == Truncated(Written(raw))
       IN  carried' = [carried EXCEPT
             ![r] = SetMember(@, field, IF field = "user_id" THEN Hashed(cut) ELSE cut)]
    /\ UNCHANGED <<safe, seenValues, setting, reported>>

\* OnStart: a span carries the baggage there was when it started.
StartSpan(r) ==
    /\ safe[r] /\ "tenant_id" \in DOMAIN carried[r]
    /\ reported' = reported \cup {carried[r]["tenant_id"]}
    /\ UNCHANGED <<carried, safe, seenValues, setting>>

BaggageNext ==
    \E r \in Requests :
        \/ SetMultiple(r)
        \/ \E item \in Fields \X Raws : Check(r, item)
        \/ \E accepted \in BOOLEAN : Store(r, accepted)
        \/ \E field \in Fields, raw \in Raws : SetBusiness(r, field, raw)
        \/ StartSpan(r)

BaggageSpec == BaggageInit /\ [][BaggageNext]_baggageVars
-----------------------------------------------------------------------------
\* However many requests set it at once, and whatever fails after the count,
\* no more than Limit tenants go out (WithCardinalityLimit, trackCardinality).
TenantsAreFew ==
    LET carrying == {r \in Requests : safe[r] /\ "tenant_id" \in DOMAIN carried[r]}
    IN  Cardinality(reported \cup {carried[r]["tenant_id"] : r \in carrying}) <= Limit

\* A context never carries more than the limit, whatever the order in which
\* SetMultiple goes through its values and where it stops.
SizeHeld == \A r \in Requests : safe[r] => BaggageSize(carried[r]) <= MaxTotalSize

\* No context has a sensitive field as it was written, whichever wrote it.
NothingRaw ==
    \A r \in Requests : \A f \in DOMAIN carried[r] \cap Sensitive : carried[r][f].form # "plain"

\* baggage: "guardrails to prevent PII leakage and high-cardinality explosions".
GuardrailsHold == TenantsAreFew /\ SizeHeld /\ NothingRaw
=============================================================================

--------------------------- MODULE ConfigOptions ---------------------------
(* The values a configuration is made of, the options of options.go and    *)
(* the vendor backends of backends.go.  An option is the set of fields it  *)
(* writes, as a record: a later option overrides an earlier one, field by  *)
(* field, except that headers and resource attributes accumulate.          *)
EXTENDS Integers, Sequences, FiniteSets, TLC

CONSTANTS
    Signals,        \* of "traces", "metrics" and "logs", those looked at
    Unset,          \* the zero value: nothing said
    Bad             \* a value that cannot be parsed

Default == "default"    \* what defaultConfig writes

\* An address with its scheme ("bare" for host:port) and its path: "base", or
\* "signal" when it already ends in the path of a signal.
At(host, scheme) == [at |-> host, scheme |-> scheme, path |-> "base"]
Localhost == At("localhost:4318", "bare")
IsURL(endpoint) == endpoint.scheme \in {"http", "https"}

\* Variant, used by no action: any gRPC scheme is taken off.
FaultySanitized(endpoint) ==
    IF endpoint # Unset /\ endpoint.scheme \in {"grpc", "grpcs"}
    THEN [endpoint EXCEPT !.scheme = "bare"] ELSE endpoint
\* A gRPC scheme says no more than whether TLS is used.
Sanitized(endpoint) ==
    IF endpoint # Unset /\ endpoint.scheme \in {"grpc", "grpcs"}
    THEN [endpoint EXCEPT !.scheme = IF @ = "grpcs" THEN "https" ELSE "bare"] ELSE endpoint

\* Header names ignore case; a spelling tells two writings of one name apart.
Header(name, spelling) == [name |-> name, spelling |-> spelling]
SameHeader(h, k) == h.name = k.name
None == <<>>            \* the empty map
NoSignal == [endpoint |-> Unset, headers |-> None, disabled |-> FALSE]

DefaultConfig ==
    [name |-> Default, version |-> Default, environment |-> Default,
     endpoint |-> Unset, protocol |-> "http", insecure |-> TRUE,
     sampler |-> Default, numbers |-> Default, metrics |-> TRUE, logs |-> TRUE,
     versionChosen |-> FALSE, environmentChosen |-> FALSE, protocolChosen |-> FALSE,
     samplerChosen |-> FALSE, headers |-> None, attrs |-> None, debug |-> Unset,
     custom |-> None,
     signals |-> [s \in Signals |-> NoSignal], logFile |-> Unset,
     preset |-> Unset, devtools |-> FALSE, failed |-> FALSE]

\* Fields with a default, and those that record a choice of it (unexported).
ChosenFlag == [version |-> "versionChosen", environment |-> "environmentChosen",
               protocol |-> "protocolChosen", sampler |-> "samplerChosen"]

\* A Config built by hand: zero values but for what the program writes.
HandBuilt ==
    [DefaultConfig EXCEPT !.name = Unset, !.version = Unset, !.environment = Unset,
        !.protocol = Unset, !.insecure = FALSE, !.sampler = Unset, !.numbers = Unset,
        !.metrics = FALSE, !.logs = FALSE]
-----------------------------------------------------------------------------
(* options.go *)

WithService(n) == [name |-> n]
WithServiceVersion(v) == [version |-> v, versionChosen |-> TRUE]
WithEnvironment(e) == [environment |-> e, environmentChosen |-> TRUE]
WithEndpoint(e) == [endpoint |-> e]
WithProtocol(p) == [protocol |-> p, protocolChosen |-> TRUE]
WithInsecure(b) == [insecure |-> b]
WithSampler(s) == [sampler |-> s, samplerChosen |-> TRUE]
WithAdaptiveSampler == WithSampler("adaptive")
WithTargetRateSampler == WithSampler("targetRate")
WithLinksBasedSampling == WithSampler("linksBased")
WithHeaders(hs) == [headers |-> hs]
WithDebug(b) == [debug |-> IF b THEN "on" ELSE "off"]
Presets == {"datadog", "honeycomb", "grafana"}      \* other backends do nothing
WithBackend(p) == [preset |-> p]
WithDevtools == [devtools |-> TRUE]
WithLogFile(f) == [logFile |-> f]
WithMetrics(b) == [metrics |-> b]
WithLogs(b) == [logs |-> b]
\* Exporters of the program's own, for the signals they are given for.
WithSpanExporters == [custom |-> "traces" :> TRUE]
WithMetricExporters == [custom |-> "metrics" :> TRUE]
WithLogExporters == [custom |-> "logs" :> TRUE]
\* WithBatchTimeout, WithMaxQueueSize, WithEventQueue and the other numbers.
WithNumbers(n) == [numbers |-> n]

\* Maps one over the other: a key of the upper one wins.
Overlaid(upper, lower) ==
    [k \in DOMAIN upper \cup DOMAIN lower |-> IF k \in DOMAIN upper THEN upper[k] ELSE lower[k]]

Accumulated == {"headers", "attrs", "custom"}
Applied(o, config) ==
    [f \in DOMAIN config |->
        IF f \notin DOMAIN o THEN config[f]
        ELSE IF f \in Accumulated THEN Overlaid(o[f], config[f]) ELSE o[f]]

Invalid == [failed |-> TRUE]
\* The options from first to last, as one.
Compose(os) ==
    LET fields == UNION {DOMAIN os[i] : i \in DOMAIN os}
        Last(f) == CHOOSE i \in DOMAIN os :
                      f \in DOMAIN os[i] /\ \A j \in DOMAIN os : j > i => f \notin DOMAIN os[j]
    IN  [f \in fields |-> os[Last(f)][f]]
-----------------------------------------------------------------------------
(* backends.go.  What a caller fills in: the service, the credentials, its *)
(* own endpoint, an environment and a version or Unset.                    *)

Identity(b) ==
    Compose(<<WithService(b.service)>>
        \o (IF b.environment # Unset THEN <<WithEnvironment(b.environment)>> ELSE <<>>)
        \o (IF b.version # Unset THEN <<WithServiceVersion(b.version)>> ELSE <<>>))
Own(b, otherwise) == IF b.endpoint # Unset THEN b.endpoint ELSE otherwise
Credential(name, b) == WithHeaders(Header(name, 1) :> b.key)
Lacking(b, needed) == \E f \in needed : b[f] = Unset

\* The sampler is set without marking it chosen; at rate 1 it is the default.
HoneycombSampling(rate) ==
    [attrs |-> "SampleRate" :> rate, sampler |-> IF rate = 1 THEN Default ELSE "ratio"]

Honeycomb(b, rate) ==
    IF Lacking(b, {"key", "service"}) \/ rate < 0 THEN Invalid
    ELSE Compose(<<Identity(b), WithProtocol("grpc"),
                   WithEndpoint(Own(b, At("honeycomb", "bare"))), WithInsecure(FALSE),
                   Credential("x-honeycomb-team", b)>>
             \o (IF rate > 0 THEN <<HoneycombSampling(rate)>> ELSE <<>>))

\* Through the local agent, or straight to Datadog with a key.
Datadog(b, useAgent) ==
    IF Lacking(b, {"service"}) \/ (~useAgent /\ Lacking(b, {"key"})) THEN Invalid
    ELSE Compose(<<Identity(b), WithProtocol("http")>>
             \o (IF useAgent THEN <<WithEndpoint(Own(b, At("localhost:4318", "http")))>>
                 ELSE <<WithEndpoint(At("datadog", "https")), Credential("dd-api-key", b)>>))

\* Names no protocol; TLS unless the endpoint is an http:// URL.
Grafana(b) ==
    IF Lacking(b, {"endpoint", "service"}) THEN Invalid
    ELSE Compose(<<Identity(b), WithEndpoint(b.endpoint), WithMetrics(TRUE)>>
             \o (IF b.key # Unset THEN <<Credential("authorization", b)>> ELSE <<>>)
             \o (IF b.endpoint.scheme # "http" THEN <<WithInsecure(FALSE)>> ELSE <<>>))

\* Logfire, Langfuse and PostHog are alike: a known region or an endpoint of
\* one's own, OTLP over HTTP, a key in Authorization.
OverHTTP(b, vendor) ==
    Compose(<<Identity(b), WithProtocol("http"), WithEndpoint(Own(b, At(vendor, "https"))),
              WithInsecure(FALSE), Credential("authorization", b)>>)
Regional(b, vendor, regions, region) ==
    IF Lacking(b, {"key", "service"}) \/ (b.endpoint = Unset /\ region \notin regions)
    THEN Invalid ELSE OverHTTP(b, vendor)
Logfire(b, region) == Regional(b, "logfire", {"us", "eu"}, region)
Langfuse(b, region) == Regional(b, "langfuse", {"us", "eu", Unset}, region)
PostHog(b, region) == Regional(b, "posthog", {"us", "eu", Unset}, region)

Collector(b, protocol) ==
    IF Lacking(b, {"service"}) THEN Invalid
    ELSE LET endpoint == Own(b, At(IF protocol = "grpc" THEN "localhost:4317" ELSE "localhost:4318", "http"))
         IN  Compose(<<Identity(b), WithProtocol(IF protocol = Unset THEN "http" ELSE protocol),
                       WithEndpoint(endpoint)>>
                 \o (IF b.key # Unset THEN <<Credential("authorization", b)>> ELSE <<>>)
                 \o (IF endpoint.scheme = "https" THEN <<WithInsecure(FALSE)>> ELSE <<>>))
=============================================================================

--------------------------- MODULE ConfigScenarios --------------------------
(* What the sources say in the runs, one group of settings at a time.        *)
EXTENDS ConfigOptions

NoAttrs == None
SilentEnv ==
    [name |-> Unset, endpoint |-> Unset, protocol |-> Unset, headers |-> None,
     attrs |-> NoAttrs, signals |-> [s \in Signals |-> NoSignal], sampler |-> Unset,
     logFile |-> Unset, debug |-> FALSE, production |-> FALSE, presetKey |-> Unset,
     build |-> [name |-> Unset, version |-> Unset]]
SilentFile ==
    [state |-> "read", name |-> Unset, version |-> Unset, environment |-> Unset,
     endpoint |-> Unset, protocol |-> Unset, headers |-> None, attrs |-> NoAttrs,
     debug |-> Unset]
NoFile == [SilentFile EXCEPT !.state = "missing"]
Files(readable) == {NoFile, [SilentFile EXCEPT !.state = "unreadable"]} \cup readable
Lists(options, n) == UNION {[1..k -> options] : k \in 0..n}
Account == [service |-> "vendor", key |-> "key", endpoint |-> Unset,
            environment |-> Unset, version |-> Unset]

NameAttrs(who) == {NoAttrs, "service.name" :> who}
Identities ==
    [starts |-> {DefaultConfig} \cup
        {[c EXCEPT !.name = n, !.attrs = a] : c \in {DefaultConfig, HandBuilt},
            n \in {Default, Unset, "struct"}, a \in NameAttrs("structAttr")},
     lists |-> Lists({WithService("option"), WithService(Default), WithEnvironment("option"),
                      WithEnvironment(Default), WithService(Unset)}, 2),
     envs |-> {[SilentEnv EXCEPT !.name = n, !.attrs = a, !.build.name = b] :
                  n \in {Unset, "env"}, b \in {Unset, "stamp"},
                  a \in NameAttrs("envAttr") \cup {"deployment.environment" :> "envAttr",
                                                  "deployment.environment.name" :> "envAttr"}},
     yamls |-> Files({[SilentFile EXCEPT !.name = n, !.environment = e, !.attrs = a] :
                  n \in {Unset, "file"}, e \in {Unset, "file"}, a \in NameAttrs("fileAttr")})]

Versions ==
    [starts |-> {DefaultConfig, HandBuilt},
     lists |-> Lists({WithServiceVersion("option"), WithServiceVersion(Default),
                      Honeycomb([Account EXCEPT !.version = "vendor"], 0)}, 2),
     envs |-> {[SilentEnv EXCEPT !.build.version = b, !.attrs = a] : b \in {Unset, "stamp"},
                  a \in {NoAttrs, "service.version" :> "envAttr"}},
     yamls |-> Files({[SilentFile EXCEPT !.version = v] : v \in {Unset, "file"}})]

EndpointValues(who) == {Unset, At(who, "bare"), At(who, "https"), At(who, "grpcs"), Localhost}
Endpoints ==
    [starts |-> {DefaultConfig, [HandBuilt EXCEPT !.metrics = TRUE]},
     lists |-> Lists({WithEndpoint(At("option", "grpc")), WithEndpoint(Localhost), WithBackend("datadog"),
                      WithDevtools, WithMetrics(FALSE), WithLogs(FALSE),
                      WithSpanExporters, WithMetricExporters, WithLogExporters,
                      Collector(Account, "grpc"),
                      Grafana([Account EXCEPT !.endpoint = At("grafana", "https")])}, 2),
     envs |-> {[SilentEnv EXCEPT !.endpoint = e,
                    !.signals = [s \in Signals |->
                        IF s = "traces" THEN [NoSignal EXCEPT !.endpoint = own, !.disabled = off]
                        ELSE NoSignal]] :
                  e \in EndpointValues("env"), own \in EndpointValues("traces"), off \in BOOLEAN},
     yamls |-> {NoFile} \cup {[SilentFile EXCEPT !.endpoint = e] : e \in EndpointValues("file")}]

Competitors ==
    [starts |-> {DefaultConfig, [DefaultConfig EXCEPT !.protocol = "grpc"],
                 [HandBuilt EXCEPT !.sampler = "struct"]},
     lists |-> Lists({WithProtocol("http"), WithProtocol("grpc"), WithBackend("honeycomb"),
                      WithBackend("grafana"), WithDevtools, WithDebug(TRUE),
                      Datadog(Account, TRUE), Logfire(Account, "us"), Langfuse(Account, "mars")}, 2),
     envs |-> {[SilentEnv EXCEPT !.protocol = p, !.debug = d] :
                  p \in {Unset, "http", "grpc", Bad}, d \in BOOLEAN},
     yamls |-> Files({[SilentFile EXCEPT !.protocol = p, !.debug = d] :
                  p \in {Unset, "http", "grpc", Bad}, d \in {Unset, "off"}})]

Samplers ==
    [starts |-> {DefaultConfig, [HandBuilt EXCEPT !.sampler = "struct"]},
     lists |-> Lists({WithSampler("option"), WithSampler(Default), WithAdaptiveSampler,
                      WithTargetRateSampler, WithLinksBasedSampling, WithLogFile("hourly"),
                      Honeycomb(Account, 2)}, 2),
     envs |-> {[SilentEnv EXCEPT !.sampler = m, !.logFile = f, !.production = p] :
                  m \in {Unset, "never", Bad}, f \in {Unset, "daily", Bad}, p \in BOOLEAN},
     yamls |-> {NoFile, [SilentFile EXCEPT !.state = "unreadable"]}]

Auth(spelling, value) == Header("authorization", spelling) :> value
HeaderSettings ==
    [starts |-> {DefaultConfig},
     lists |-> Lists({WithHeaders(Auth(1, "option")), WithHeaders(Auth(2, "option")),
                      WithBackend("grafana"), WithBackend("datadog"), PostHog(Account, Unset)}, 2),
     envs |-> {[SilentEnv EXCEPT !.endpoint = At("env", "https"), !.headers = h, !.presetKey = k,
                    !.signals = [s \in Signals |->
                        IF s = "traces" THEN [NoSignal EXCEPT !.headers = own] ELSE NoSignal]] :
                  h \in {None, Auth(1, "env"), Auth(2, "env")}, k \in {Unset, "presetKey"},
                  own \in {None, Auth(1, "traces"), Header("dd-api-key", 1) :> "traces"}},
     yamls |-> Files({[SilentFile EXCEPT !.headers = h] :
                  h \in {None, Auth(1, "file"), Auth(2, "file"), Header("dd-api-key", 2) :> "file"}})]

AllScenarios == {Identities, Versions, Endpoints, Competitors, Samplers, HeaderSettings}
=============================================================================

--------------------------- MODULE Configuration ---------------------------
(* How Init settles its configuration: the options of the program, the     *)
(* OTEL_* environment and autotel.yaml are laid over one another, vendor   *)
(* presets, devtools and build info fill what is left, and each signal     *)
(* gets its endpoint and headers (config_merge.go, env.go, yaml_loader.go, *)
(* devtools.go and autotel.go).  "Says" is what a source has a value for.  *)
EXTENDS ConfigOptions

CONSTANTS
    Hosts,          \* that an endpoint may name
    Scenarios       \* [starts, lists, envs, yamls]: what one run combines

Addresses == [at : Hosts, scheme : {"bare", "http", "https", "grpc", "grpcs"},
              path : {"base", "signal"}]
MaybeAddress == Addresses \cup {Unset}

\* What each source is able to say.  Only an option records a choice, and only
\* with what it chooses; text that cannot be parsed is in the environment and
\* the file; a file that was not read says nothing.
IsConfig(c) ==
    /\ DOMAIN c = DOMAIN DefaultConfig /\ c.endpoint \in MaybeAddress
    /\ \A f \in DOMAIN c : c[f] # Bad
    /\ \A f \in DOMAIN ChosenFlag : c[ChosenFlag[f]] = FALSE
IsOption(o) ==
    /\ \A f \in DOMAIN o : o[f] # Bad
    /\ "endpoint" \in DOMAIN o => o.endpoint \in MaybeAddress
    /\ \A f \in DOMAIN ChosenFlag :
          ChosenFlag[f] \in DOMAIN o => f \in DOMAIN o /\ o[ChosenFlag[f]] = TRUE
IsEnv(e) ==
    /\ {"name", "endpoint", "protocol", "headers", "attrs", "signals", "sampler", "logFile",
        "debug", "production", "presetKey", "build"} \subseteq DOMAIN e
    /\ e.endpoint \in MaybeAddress /\ e.name # Bad /\ e.build.name # Bad
    /\ \A s \in Signals : /\ {"endpoint", "headers"} \subseteq DOMAIN e.signals[s]
                           /\ e.signals[s].endpoint \in MaybeAddress
IsFile(y) ==
    /\ {"state", "name", "version", "environment", "endpoint", "protocol", "headers", "attrs",
        "debug"} \subseteq DOMAIN y
    /\ y.endpoint \in MaybeAddress /\ y.name # Bad /\ y.environment # Bad /\ y.debug # Bad
    /\ y.state # "read" => y.headers = None /\ y.attrs = None
WellFormed(scenario) ==
    /\ \A c \in scenario.starts : IsConfig(c)
    /\ \A os \in scenario.lists : /\ Len(os) \in Nat /\ DOMAIN os = 1..Len(os)
                                 /\ \A i \in DOMAIN os : IsOption(os[i])
    /\ \A e \in scenario.envs : IsEnv(e)
    /\ \A y \in scenario.yamls : IsFile(y)

ASSUME ConfigAssumption ==
    /\ Presets \cup {"devtools", "localhost:4318"} \subseteq Hosts
    /\ Unset \notin Addresses /\ Bad \notin Addresses
    /\ Unset # Bad /\ {Unset, Bad} \cap {Default, "http", "grpc", "on", "off"} = {}
    /\ \A scenario \in Scenarios : WellFormed(scenario)

VARIABLES
    start,          \* the Config the options are applied to
    opts,           \* the options of the program, in order
    env, yaml,      \* what the environment and the file hold
    phase,          \* the step Init is at
    applied,        \* options applied so far
    explicit,       \* the Config of the program
    merged          \* the Config Init builds from

inputs == <<start, opts, env, yaml>>
configVars == <<inputs, phase, applied, explicit, merged>>
-----------------------------------------------------------------------------
(* Merging *)

IfSet(value, otherwise) == IF value = Unset THEN otherwise ELSE value
\* Differs from the default, or was chosen although it does not.
IfChosen(value, chosen, otherwise) ==
    IF value # Unset /\ (chosen \/ value # Default) THEN value ELSE otherwise

\* Header names ignore case: a name of source replaces each spelling of it.
MergeHeaders(target, source) ==
    LET kept == {h \in DOMAIN target : \A k \in DOMAIN source : h = k \/ ~SameHeader(h, k)}
    IN  Overlaid(source, [h \in kept |-> target[h]])

\* A layer that names the service by resource attribute outranks the name
\* below it.
YieldToResourceName(name, layer) ==
    IF "service.name" \in DOMAIN layer.attrs /\ layer.name \in {Unset, Default}
    THEN Default ELSE name

\* Variant, used by no action: the variables of single signals stay in charge.
FaultyOverrideSignalEndpoints(signals, endpoint) == signals
\* An endpoint given here outranks the endpoints of single signals below it.
OverrideSignalEndpoints(signals, endpoint) ==
    IF endpoint = Unset THEN signals
    ELSE [s \in Signals |-> [signals[s] EXCEPT !.endpoint = Unset, !.headers = None]]
-----------------------------------------------------------------------------
(* Options, and the three layers *)

\* Init applies options to the defaults; InitWithConfig takes a Config as it is.
ConfigInit ==
    /\ \E scenario \in Scenarios :
          /\ start \in scenario.starts /\ opts \in scenario.lists
          /\ env \in scenario.envs /\ yaml \in scenario.yamls
    /\ start = DefaultConfig \/ opts = <<>>
    /\ phase = "options" /\ applied = 0
    /\ explicit = start /\ merged = DefaultConfig

ApplyOption ==
    /\ phase = "options" /\ applied < Len(opts)
    /\ applied' = applied + 1
    /\ explicit' = Applied(opts[applied + 1], explicit)
    /\ UNCHANGED <<inputs, phase, merged>>

\* An option that failed fails Init before anything is built.
OptionsDone ==
    /\ phase = "options" /\ applied = Len(opts)
    /\ phase' = IF explicit.failed THEN "failed" ELSE "env"
    /\ UNCHANGED <<inputs, applied, explicit, merged>>

\* What a source yields of a value: nothing when it cannot be parsed.
Parsed(value) == IF value = Bad THEN Unset ELSE value

SignalFromEnv(s) == [env.signals[s] EXCEPT !.endpoint = Sanitized(@)]
SamplerFromEnv == Parsed(env.sampler)
LogFileFromEnv == Parsed(env.logFile)
ResolvedEnv ==
    [env EXCEPT !.endpoint = Sanitized(@), !.protocol = Parsed(@),
                !.sampler = SamplerFromEnv, !.logFile = LogFileFromEnv,
                !.signals = [s \in Signals |-> SignalFromEnv(s)]]

EnvLayer(config) ==
    LET layer == ResolvedEnv
    IN  [config EXCEPT
            !.name = IfSet(layer.name, @),
            !.endpoint = IfSet(layer.endpoint, @),
            !.protocol = IfSet(layer.protocol, @),
            !.headers = layer.headers,
            !.attrs = layer.attrs,
            !.signals = layer.signals,
            !.logFile = layer.logFile,
            !.sampler = IfSet(layer.sampler, @),
            !.samplerChosen = layer.sampler # Unset]
ApplyEnvLayer ==
    /\ phase = "env" /\ phase' = "yaml"
    /\ merged' = EnvLayer(merged)
    /\ UNCHANGED <<inputs, applied, explicit>>

\* yamlToConfig.
YAMLConfig == [yaml EXCEPT !.endpoint = Sanitized(@), !.protocol = Parsed(@)]

\* A missing file says nothing; one that cannot be read contributes its error.
Loaded == yaml.state = "read"

YAMLLayer(config) ==
    LET layer == YAMLConfig
    IN  [config EXCEPT
            !.name = IfSet(layer.name, YieldToResourceName(@, layer)),
            !.version = IfSet(layer.version, @),
            !.environment = IfSet(layer.environment, @),
            !.endpoint = IfSet(layer.endpoint, @),
            !.signals = OverrideSignalEndpoints(@, layer.endpoint),
            !.protocol = IfSet(layer.protocol, @),
            !.protocolChosen = @ \/ layer.protocol # Unset,
            !.headers = MergeHeaders(@, layer.headers),
            !.attrs = Overlaid(layer.attrs, @),
            !.debug = IfSet(layer.debug, @)]
ApplyYAMLLayer ==
    /\ phase = "yaml" /\ phase' = "explicit"
    /\ merged' = IF Loaded THEN YAMLLayer(merged) ELSE merged
    /\ UNCHANGED <<inputs, applied, explicit>>

\* A variable matters, and may fail Init, only when Unset outranks it.
BadVariable(config) ==
    \/ env.protocol = Bad /\ ~config.protocolChosen
    \/ env.sampler = Bad /\ ~config.samplerChosen
    \/ env.logFile = Bad
BadFile == yaml.state = "unreadable" \/ (Loaded /\ yaml.protocol = Bad)

\* What the program says although it may be the default.
SamplerSaid == explicit.samplerChosen \/ explicit.sampler \notin {Unset, Default}
ProtocolSaid == explicit.protocolChosen \/ explicit.protocol \notin {Unset, "http"}
\* Taken wholesale; then the fields the lower layers feed are restored.
ExplicitLayer(config) ==
    [explicit EXCEPT
        !.name = IfChosen(@, FALSE, YieldToResourceName(config.name, explicit)),
        !.version = IfChosen(@, explicit.versionChosen, config.version),
        !.environment = IfChosen(@, explicit.environmentChosen, config.environment),
        !.endpoint = IfSet(@, config.endpoint),
        !.signals = OverrideSignalEndpoints(config.signals, explicit.endpoint),
        !.protocol = IF ProtocolSaid THEN @ ELSE config.protocol,
        !.protocolChosen = ProtocolSaid \/ config.protocolChosen,
        !.headers = MergeHeaders(config.headers, @),
        !.attrs = Overlaid(@, config.attrs),
        !.debug = IfSet(@, config.debug),
        !.logFile = IfSet(@, config.logFile),
        !.sampler = IF SamplerSaid THEN @ ELSE config.sampler,
        !.samplerChosen = SamplerSaid \/ config.samplerChosen]
ApplyExplicitLayer ==
    /\ phase = "explicit"
    /\ merged' = ExplicitLayer(merged)
    /\ phase' = IF BadVariable(ExplicitLayer(merged)) \/ BadFile THEN "failed" ELSE "preset"
    /\ UNCHANGED <<inputs, applied, explicit>>
-----------------------------------------------------------------------------
(* What is left is filled in *)

PresetKey == [datadog |-> "dd-api-key", honeycomb |-> "x-honeycomb-team",
              grafana |-> "authorization"]
\* A key of the environment, unless the configuration has that header already.
PresetHeaders(preset, headers) ==
    LET key == Header(PresetKey[preset], 1)
        known == \E h \in DOMAIN headers : SameHeader(h, key)
        withKey == IF env.presetKey = Unset \/ known THEN headers
                   ELSE Overlaid([h \in {key} |-> env.presetKey], headers)
    IN  IF preset = "datadog" THEN Overlaid([h \in {Header("x-datadog-origin", 1)} |-> "otlp"], withKey)
        ELSE withKey

BackendPreset(config) ==
    [config EXCEPT
        !.endpoint = IF @ \in {Unset, Localhost} THEN At(config.preset, "bare") ELSE @,
        !.protocol = IF config.protocolChosen THEN @
                     ELSE IF config.preset = "honeycomb" THEN "http" ELSE "grpc",
        !.insecure = FALSE,
        !.headers = PresetHeaders(config.preset, @)]
ApplyBackendPreset ==
    /\ phase = "preset" /\ phase' = "devtools"
    /\ merged' = IF merged.preset \in Presets THEN BackendPreset(merged) ELSE merged
    /\ UNCHANGED <<inputs, applied, explicit>>

Devtools(config) ==
    [config EXCEPT
        !.endpoint = IfSet(@, At("devtools", "http")),
        !.protocol = IF config.endpoint = Unset THEN "http" ELSE @,
        !.debug = IF @ = Unset /\ ~env.debug THEN "off" ELSE @]
ApplyDevtools ==
    /\ phase = "devtools" /\ phase' = "buildinfo"
    /\ merged' = IF merged.devtools THEN Devtools(merged) ELSE merged
    /\ UNCHANGED <<inputs, applied, explicit>>

\* A default gives way to what the toolchain stamped, unless an attribute does.
Stamped(attrs, key, value, stamp) ==
    IF key \notin DOMAIN attrs /\ value = Default THEN IfSet(stamp, value) ELSE value
\* The last schemes are settled, and the toolchain's name and version stand in
\* for defaults.
BuildInfo(config) ==
    [config EXCEPT
        !.endpoint = Sanitized(@),
        !.name = Stamped(config.attrs, "service.name", @, env.build.name),
        !.version = Stamped(config.attrs, "service.version", @, env.build.version)]
FillZeroValues(config) == [config EXCEPT !.numbers = IfSet(@, Default), !.sampler = IfSet(@, Default)]
SetupDebugMode(config) ==
    [config EXCEPT !.debug = IfSet(@, IF env.debug \/ ~env.production THEN "on" ELSE "off")]
ApplyBuildInfo ==
    /\ phase = "buildinfo" /\ phase' = "ready"
    /\ merged' = SetupDebugMode(FillZeroValues(BuildInfo(merged)))
    /\ UNCHANGED <<inputs, applied, explicit>>

ConfigNext ==
    \/ ApplyOption \/ OptionsDone
    \/ ApplyEnvLayer \/ ApplyYAMLLayer \/ ApplyExplicitLayer
    \/ ApplyBackendPreset \/ ApplyDevtools \/ ApplyBuildInfo

ConfigSpec == ConfigInit /\ [][ConfigNext]_configVars
-----------------------------------------------------------------------------
(* What the signals and the resource get *)

WithScheme(endpoint) ==
    IF IsURL(endpoint) THEN endpoint
    ELSE [endpoint EXCEPT !.scheme = IF merged.insecure THEN "http" ELSE "https"]
SignalEndpointURL(endpoint) == [endpoint EXCEPT !.path = "signal"]
\* A signal's own URL goes as it is; every other gets the signal's path.
SignalEndpoint(s) ==
    LET own == merged.signals[s].endpoint
    IN  IF own # Unset
        THEN IF IsURL(own) THEN own ELSE SignalEndpointURL(WithScheme(own))
        ELSE IF merged.endpoint = Unset THEN Unset
        ELSE SignalEndpointURL(WithScheme(merged.endpoint))
SignalHeaders(s) == Overlaid(merged.signals[s].headers, merged.headers)

Enabled(s) ==
    /\ ~merged.signals[s].disabled
    /\ CASE s = "metrics" -> merged.metrics [] s = "logs" -> merged.logs [] OTHER -> TRUE
\* Custom exporters take the place of OTLP, but for traces, which go to both.
Replaced(s) == s # "traces" /\ s \in DOMAIN merged.custom
\* Where OTLP sends a signal.
Exported(s) == IF Enabled(s) /\ ~Replaced(s) THEN SignalEndpoint(s) ELSE Unset

\* A value somebody set beats the resource attribute, a default gives way.
ResourceValue(key, value, chosen) ==
    IF key \in DOMAIN merged.attrs /\ ~chosen /\ value = Default THEN merged.attrs[key]
    ELSE value
ServiceName == ResourceValue("service.name", merged.name, FALSE)
ServiceVersion == ResourceValue("service.version", merged.version, merged.versionChosen)
\* A default also gives way to the attribute's newer name, and then the resource
\* has that one alone.
EnvironmentKeys == {"deployment.environment", "deployment.environment.name"}
Environment ==
    LET old == "deployment.environment"
    IN  IF old \notin DOMAIN merged.attrs /\ EnvironmentKeys \cap DOMAIN merged.attrs # {}
           /\ ~merged.environmentChosen /\ merged.environment = Default
        THEN Unset ELSE ResourceValue(old, merged.environment, merged.environmentChosen)
-----------------------------------------------------------------------------
(* The reference: of the sources that say something, the highest one *)

Silent == {Unset, Bad}
\* The first of a list that says something; the last one always does.
Highest(said) ==
    said[CHOOSE i \in DOMAIN said :
            /\ i = Len(said) \/ said[i] \notin Silent
            /\ \A j \in 1..(i - 1) : said[j] \in Silent]

Writers(f) == {i \in DOMAIN opts : f \in DOMAIN opts[i]}
ChosenByOption(f) == f \in DOMAIN ChosenFlag /\ Writers(ChosenFlag[f]) # {}
\* What the program says of f: its last option, or else its own Config.  A
\* default that no option chose says nothing.
Program(f) ==
    LET last == opts[CHOOSE i \in Writers(f) : \A j \in Writers(f) : j <= i]
        value == IF Writers(f) = {} THEN start[f] ELSE last[f]
    IN  IF value = DefaultConfig[f] /\ ~ChosenByOption(f) THEN Unset ELSE value
File(f) == IF Loaded THEN yaml[f] ELSE Unset
Named(layer, said) ==
    IF said # Unset THEN said
    ELSE IF "service.name" \in DOMAIN layer.attrs THEN layer.attrs["service.name"] ELSE Unset
Attribute(key) == IF key \in DOMAIN merged.attrs THEN merged.attrs[key] ELSE Unset
HasPreset == merged.preset \in Presets

\* What names an endpoint above the environment, and with it.
ChosenEndpoint == Highest(<<Program("endpoint"), File("endpoint"), Unset>>)
BaseEndpoint == Highest(<<ChosenEndpoint, env.endpoint, Unset>>)
\* The variables of a single signal count while nothing above them names an
\* endpoint.
OwnAddress(s) == IF ChosenEndpoint = Unset THEN env.signals[s].endpoint ELSE Unset
OwnHeaders(s) == IF ChosenEndpoint = Unset THEN env.signals[s].headers ELSE None
\* What names the endpoint of a signal.
Address(s) ==
    Highest(<<OwnAddress(s), BaseEndpoint,
              IF HasPreset THEN At(merged.preset, "bare") ELSE Unset,
              IF merged.devtools THEN At("devtools", "http") ELSE Unset, Unset>>)

IdentityFromTheTop ==
    /\ ServiceName = Highest(<<Named(explicit, Program("name")), Named(yaml, File("name")),
                               Named(env, env.name), env.build.name, Default>>)
    /\ Environment = Highest(<<Program("environment"), File("environment"),
                               Attribute("deployment.environment"),
                               IF "deployment.environment.name" \in DOMAIN merged.attrs
                               THEN Unset ELSE Default>>)
EndpointsFromTheTop ==
    \A s \in Signals :
        IF Exported(s) = Unset
        THEN ~Enabled(s) \/ Address(s) = Unset \/ (s # "traces" /\ s \in DOMAIN explicit.custom)
        ELSE /\ Enabled(s)
             /\ \/ Exported(s).at = Address(s).at
                \/ HasPreset /\ OwnAddress(s) = Unset /\ Sanitized(BaseEndpoint) = Localhost
\* A vendor's own protocol is part of what the program says, if it says no other.
VendorProtocol ==
    IF ~HasPreset THEN Unset ELSE IF merged.preset = "honeycomb" THEN "http" ELSE "grpc"
HighestProtocol ==
    Highest(<<Program("protocol"), File("protocol"), VendorProtocol, env.protocol, "http">>)
\* Devtools gives the endpoint where nothing else does.
DevtoolsEndpoint == merged.devtools /\ ~HasPreset /\ BaseEndpoint = Unset
ProtocolFromTheTop == merged.protocol = HighestProtocol \/ DevtoolsEndpoint
SamplerFromTheTop == merged.sampler = Highest(<<Program("sampler"), env.sampler, Default>>)
DebugFromTheTop ==
    merged.debug = Highest(<<Program("debug"), File("debug"),
                             IF merged.devtools /\ ~env.debug THEN "off" ELSE Unset,
                             IF env.debug \/ ~env.production THEN "on" ELSE "off">>)
\* Of the layers that carry a header, whatever its spelling, the highest one's
\* spellings and values are sent, and no other.  A signal's own variable adds to
\* them; of a name that both have, only that what no program or file names is
\* sent as the variable has it.
Carrying(headers, n) == {h \in DOMAIN headers : h.name = n}
HeaderLayers == <<explicit.headers, yaml.headers, env.headers>>
Carriers(n) == {i \in DOMAIN HeaderLayers : Carrying(HeaderLayers[i], n) # {}}
TopLayer(n) == HeaderLayers[CHOOSE i \in Carriers(n) : \A j \in Carriers(n) : i <= j]
SentFromTheTop(sent, n) ==
    IF Carriers(n) = {} THEN Carrying(sent, n) = {} \/ HasPreset
    ELSE /\ Carrying(sent, n) = Carrying(TopLayer(n), n)
         /\ \A h \in Carrying(sent, n) : sent[h] = TopLayer(n)[h] \/ n = "x-datadog-origin"
HeadersFromTheTop ==
    \A s \in Signals :
        LET sent == SignalHeaders(s)
            own == OwnHeaders(s)
            named == DOMAIN sent \cup UNION {DOMAIN HeaderLayers[i] : i \in DOMAIN HeaderLayers}
        IN  /\ \A n \in {h.name : h \in named} : Carrying(own, n) = {} => SentFromTheTop(sent, n)
            /\ \A h \in DOMAIN own :
                  Carriers(h.name) \subseteq {3} => h \in DOMAIN sent /\ sent[h] = own[h]
-----------------------------------------------------------------------------
(* Properties *)

\* Whatever the program, autotel.yaml, the environment, a vendor preset and
\* devtools say, in any combination, each setting Init builds from is the one
\* of the highest source that says something: a signal's own variable never
\* beats an endpoint from above it, a default never beats a choice, and of the
\* headers sent with a signal one written in another case is replaced and not
\* sent twice (mergeConfigs, applyBackendPreset, applyDevtools, buildResource,
\* signalHeaders).  Three exceptions are the code's: a preset replaces a bare
\* localhost:4318 that somebody named, devtools brings http along with its
\* endpoint, and a signal's own header variable is laid over the headers of the
\* program.  Properties below state what the documents say of the last two.  It
\* is proved of all sources that leave no doubt, in the sense of Unmistakable.
HighestSourceWins ==
    phase = "ready" =>
        /\ IdentityFromTheTop /\ EndpointsFromTheTop /\ ProtocolFromTheTop
        /\ SamplerFromTheTop /\ DebugFromTheTop /\ HeadersFromTheTop

\* Sources that leave no doubt.  Where one of these fails the code may settle on
\* something else than the reference: an option chooses the empty value, the
\* file or the environment spells a default out, a resource attribute is empty,
\* or x-datadog-origin is spelled in capitals.
NamesAnIdentity(attrs) ==
    \A key \in {"service.name", "deployment.environment"} :
        key \in DOMAIN attrs => attrs[key] \notin Silent
Unmistakable ==
    /\ \A f \in DOMAIN ChosenFlag : ChosenByOption(f) => explicit[f] # Unset
    /\ env.name # Default /\ File("name") # Default /\ File("environment") # Default
    /\ NamesAnIdentity(explicit.attrs) /\ NamesAnIdentity(yaml.attrs) /\ NamesAnIdentity(env.attrs)
    /\ \A i \in DOMAIN HeaderLayers : \A h \in Carrying(HeaderLayers[i], "x-datadog-origin") :
          h = Header("x-datadog-origin", 1)

\* An endpoint given with TLS keeps it through every layer, and a bare address
\* gets it from a vendor preset: a credential is never sent in cleartext to an
\* address somebody wrote as https:// or grpcs:// (sanitizeEndpoint, withScheme).
TLSIsKept ==
    phase = "ready" => \A s \in Signals :
        Exported(s) # Unset =>
            CASE Address(s).scheme \in {"https", "grpcs"} -> Exported(s).scheme = "https"
              [] Address(s).scheme = "http" -> Exported(s).scheme = "http"
              [] OTHER -> HasPreset => Exported(s).scheme = "https"

\* A version an option chose is the version of the resource, even when it names
\* the default (CHANGELOG.md: "WithEnvironment, WithServiceVersion and
\* WithProtocol win even when they name the default").
ChosenVersionStands ==
    phase = "ready" /\ Program("version") # Unset => ServiceVersion = Program("version")

\* options.go, WithDevtools: "It changes three defaults, and only defaults:
\* anything configured explicitly or through the environment still wins."  So the
\* protocol somebody configured is the one used.
DevtoolsChangesDefaults == phase = "ready" /\ merged.devtools => merged.protocol = HighestProtocol

\* docs/configuration.md: "Code beats YAML, and YAML beats the environment", with
\* no exception for headers.  So each signal is sent the headers of the program.
CodeBeatsTheEnvironment ==
    phase = "ready" => \A s \in Signals : \A h \in DOMAIN explicit.headers :
        Exported(s) # Unset => /\ h \in DOMAIN SignalHeaders(s)
                               /\ SignalHeaders(s)[h] = explicit.headers[h]
=============================================================================

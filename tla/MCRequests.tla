----------------------------- MODULE MCRequests -----------------------------
(* Small instances of what serves one request or one Init and shares        *)
(* nothing with the rest, side by side for TLC: the HTTP middleware and     *)
(* client, baggage limits, the request logger, traced calls and the         *)
(* configuration.  A behaviour exercises one.  Of HTTP there are two        *)
(* instances: one in which handlers answer and nobody sets a correlation    *)
(* ID, and one in which handlers set IDs and no handler or call ever ends,  *)
(* so that each may still do all it ever may.                               *)
EXTENDS ConfigScenarios, Configuration, HTTPRequests, RequestLogger, TracedCalls,
        BaggageLimits

VARIABLE component

vars == <<component, httpVars, baggageVars, loggerVars, callVars, configVars>>

StoresIDs == {<<TRUE, FALSE>>, <<TRUE, TRUE>>}
NobodySetsAnID == \A h \in DOMAIN handlers : handlers'[h].ctx = handlers[h].ctx
NothingEnds == /\ \A h \in DOMAIN handlers : handlers'[h].reply = NoReply /\ handlers'[h].running
               /\ \A t \in DOMAIN trips : trips'[t].waiting

Untouched ==
    /\ start = DefaultConfig /\ opts = <<>> /\ env = SilentEnv /\ yaml = NoFile
    /\ phase = "options" /\ applied = 0 /\ explicit = start /\ merged = DefaultConfig

Init ==
    /\ component \in {"answers", "IDs", "baggage", "logger", "calls", "configuration"}
    /\ HTTPInit /\ BaggageInit /\ LoggerInit /\ CallsInit
    /\ component # "baggage" => \A r \in Requests : safe[r]
    /\ IF component = "configuration" THEN ConfigInit ELSE Untouched

Next ==
    /\ \/ /\ \/ component = "answers" /\ HTTPNext /\ NobodySetsAnID
             \/ component = "IDs" /\ HTTPNext /\ NothingEnds
          /\ UNCHANGED <<baggageVars, loggerVars, callVars, configVars>>
       \/ /\ component = "baggage" /\ BaggageNext
          /\ UNCHANGED <<httpVars, loggerVars, callVars, configVars>>
       \/ /\ component = "logger" /\ LoggerNext
          /\ UNCHANGED <<httpVars, baggageVars, callVars, configVars>>
       \/ /\ component = "calls" /\ CallsNext
          /\ UNCHANGED <<httpVars, baggageVars, loggerVars, configVars>>
       \/ /\ component = "configuration" /\ ConfigNext
          /\ UNCHANGED <<httpVars, baggageVars, loggerVars, callVars>>
    /\ UNCHANGED component

Spec == Init /\ [][Next]_vars
=============================================================================

----------------------------- MODULE Lifecycle -----------------------------
(***************************************************************************)
(* Init builds a pipeline (a provider per signal, a log file, an event     *)
(* queue) and installs it in the package's globals; Shutdown and the       *)
(* cleanup functions Init returned take pipelines down, the latest one or  *)
(* one that a later Init replaced, from any goroutine and while an Init is *)
(* under way.                                                              *)
(*                                                                         *)
(* Init calls do not overlap each other.  What a provider exports, what a  *)
(* stop reports, debug mode and the providers kept by the otel package are *)
(* left out: an error is collected and changes nothing else.               *)
(***************************************************************************)
EXTENDS Naturals, Sequences

CONSTANTS Callers,    \* goroutines that call Shutdown or a cleanup function
          MaxInits    \* bound: Init calls in a behaviour

Pipeline == 1..MaxInits

ASSUME LifecycleAssumption == MaxInits \in Nat

VARIABLES
    inits, initAt,   \* Init calls so far; where the latest of them is
    parts,           \* parts[p]: what the p-th Init is configured to build
    running,         \* the parts built and not stopped, as <<p, part>>
    installed,       \* the pipelines whose Init returned a cleanup function
    current,         \* the pipeline Flush and Shutdown act on, 0 for none
    globalTracker, logFileSink,   \* whose queue Track uses, whose file logs go to
    logsStayLocal,
    stage,           \* stage[p]: where the one execution of p's close is
    target           \* target[c]: the pipeline c waits to see down, 0 for none

initVars == <<inits, initAt, parts, installed, current>>
globalVars == <<globalTracker, logFileSink, logsStayLocal>>
vars == <<initVars, running, globalVars, stage, target>>

\* Definitions named Faulty... are variants that no action uses: each breaks a
\* property when it takes the place of the definition it stands beside.

Has(p, part) == part \in parts[p]
Up(p, part) == <<p, part>> \in running

Init ==
    /\ inits = 0 /\ initAt = "idle"
    /\ parts = [p \in Pipeline |-> {}]
    /\ running = {} /\ installed = {}
    /\ current = 0 /\ globalTracker = 0 /\ logFileSink = 0
    /\ logsStayLocal = FALSE
    /\ stage = [p \in Pipeline |-> "new"]
    /\ target = [c \in Callers |-> 0]
-----------------------------------------------------------------------------
(* Init. Only the tracer provider is always there.                         *)

Optional == {"mp", "lp", "file", "tracker"}

\* An Init with bad options returns before this and changes nothing.
CallInit(want) ==
    /\ initAt = "idle" /\ inits < MaxInits
    /\ inits' = inits + 1
    /\ parts' = [parts EXCEPT ![inits + 1] = want \cup {"tp"}]
    /\ initAt' = "mp"
    /\ UNCHANGED <<running, installed, current, globalVars, stage, target>>

\* The steps that can fail, in order, and what follows each.
After == [mp |-> "lp", lp |-> "tp", tp |-> "file", file |-> "stayLocal"]

Build ==
    /\ initAt \in DOMAIN After
    /\ initAt' = After[initAt]
    /\ running' = IF Has(inits, initAt) THEN running \cup {<<inits, initAt>>}
                                        ELSE running
    /\ UNCHANGED <<inits, parts, installed, current, globalVars,
                   stage, target>>

\* shutdownPartial, and tp.Shutdown when it was the log file that failed.
FaultyUnwound == running \ ({inits} \X {"mp", "lp"})   \* leaves tp running
Unwound == running \ ({inits} \X {"mp", "lp", "tp"})

BuildFails ==
    /\ initAt \in DOMAIN After /\ Has(inits, initAt)
    /\ running' = Unwound
    /\ initAt' = "idle"
    /\ UNCHANGED <<inits, parts, installed, current, globalVars,
                   stage, target>>

\* installLogSinks, in two steps: the flag, then the file.
InstallStayLocal ==
    /\ initAt = "stayLocal"
    /\ logsStayLocal' = ~Has(inits, "lp")
    /\ initAt' = "sink"
    /\ UNCHANGED <<inits, parts, installed, current, running,
                   globalTracker, logFileSink, stage, target>>

InstallSink ==
    /\ initAt = "sink"
    /\ logFileSink' = IF Has(inits, "file") THEN inits ELSE 0
    /\ running' = running \ {<<logFileSink, "file">>}
    /\ initAt' = "tracker"
    /\ UNCHANGED <<inits, parts, installed, current,
                   globalTracker, logsStayLocal, stage, target>>

\* setupGlobalFeatures: without subscribers the global tracker stays as it is.
InstallTracker ==
    /\ initAt = "tracker"
    /\ IF Has(inits, "tracker")
       THEN /\ running' = running \cup {<<inits, "tracker">>}
            /\ globalTracker' = inits
       ELSE UNCHANGED <<running, globalTracker>>
    /\ initAt' = "current"
    /\ UNCHANGED <<inits, parts, installed, current, logFileSink,
                   logsStayLocal, stage, target>>

\* createCleanupFunc.
InstallCurrent ==
    /\ initAt = "current"
    /\ current' = inits
    /\ installed' = installed \cup {inits}
    /\ initAt' = "idle"
    /\ UNCHANGED <<inits, parts, running, globalVars, stage, target>>

Install == InstallStayLocal \/ InstallSink \/ InstallTracker \/ InstallCurrent
-----------------------------------------------------------------------------
(* Shutdown and the cleanup functions.                                     *)

\* Shutdown takes the current pipeline, a cleanup function its own.
CallShutdown(c, p) ==
    /\ target[c] = 0 /\ p \in installed
    /\ target' = [target EXCEPT ![c] = p]
    /\ UNCHANGED <<initVars, running, globalVars, stage>>

\* The first caller runs close; the others block until it is done.
EnterOnce(p) ==
    /\ stage[p] = "new" /\ \E c \in Callers : target[c] = p
    /\ stage' = [stage EXCEPT ![p] = "clear"]
    /\ UNCHANGED <<initVars, running, globalVars, target>>

\* The providers stop in parallel, started before the tracker is looked at;
\* each is back by the context's deadline.
StopProvider(p, part) ==
    /\ part \in {"tp", "mp", "lp"}
    /\ stage[p] \in {"clear", "wait"} /\ Up(p, part)
    /\ running' = running \ {<<p, part>>}
    /\ UNCHANGED <<initVars, globalVars, stage, target>>

TrackerAfter(p) == IF globalTracker = p THEN 0 ELSE globalTracker

ClearTracker(p) ==
    /\ stage[p] = "clear"
    /\ globalTracker' = IF Has(p, "tracker") THEN TrackerAfter(p)
                                             ELSE globalTracker
    /\ stage' = [stage EXCEPT ![p] = "wait"]
    /\ UNCHANGED <<initVars, running, logFileSink, logsStayLocal, target>>

\* The stages in which the queue may be shut down.
FaultyStopping == {"clear", "wait"}   \* before Track is turned away from it
Stopping == {"wait"}

\* The queue's Shutdown looks at no deadline: it waits for its subscribers.
StopTracker(p) ==
    /\ stage[p] \in Stopping /\ Up(p, "tracker")
    /\ running' = running \ {<<p, "tracker">>}
    /\ UNCHANGED <<initVars, globalVars, stage, target>>

\* The WaitGroup: everything but the file has stopped.
FaultyFileStopped(p) == \A part \in parts[p] : ~Up(p, part)   \* and the file too
AllStopped(p) == \A part \in {"tp", "mp", "lp", "tracker"} : ~Up(p, part)

\* Reads current; the flag is written in a step of its own.
AskCurrent(p) ==
    /\ stage[p] = "wait" /\ AllStopped(p)
    /\ stage' = [stage EXCEPT ![p] = IF current = p THEN "stayLocal" ELSE "sink"]
    /\ UNCHANGED <<initVars, running, globalVars, target>>

KeepLogsLocal(p) ==
    /\ stage[p] = "stayLocal"
    /\ logsStayLocal' = TRUE
    /\ stage' = [stage EXCEPT ![p] = "sink"]
    /\ UNCHANGED <<initVars, running, globalTracker, logFileSink, target>>

\* CompareAndSwap(p.file, nil); a pipeline without a file has no more to do.
FaultySinkAfter(p) == 0
SinkAfter(p) == IF logFileSink = p THEN 0 ELSE logFileSink

ReleaseSink(p) ==
    /\ stage[p] = "sink"
    /\ IF Has(p, "file")
       THEN logFileSink' = SinkAfter(p) /\ stage' = [stage EXCEPT ![p] = "file"]
       ELSE UNCHANGED logFileSink /\ stage' = [stage EXCEPT ![p] = "done"]
    /\ UNCHANGED <<initVars, running, globalTracker, logsStayLocal, target>>

CloseFile(p) ==
    /\ stage[p] = "file"
    /\ running' = running \ {<<p, "file">>}
    /\ stage' = [stage EXCEPT ![p] = "done"]
    /\ UNCHANGED <<initVars, globalVars, target>>

Return(c) ==
    /\ target[c] # 0 /\ stage[target[c]] = "done"
    /\ target' = [target EXCEPT ![c] = 0]
    /\ UNCHANGED <<initVars, running, globalVars, stage>>

StopProviders(p) == \E part \in {"tp", "mp", "lp"} : StopProvider(p, part)
Proceed(p) == EnterOnce(p) \/ ClearTracker(p) \/ AskCurrent(p)
                \/ KeepLogsLocal(p) \/ ReleaseSink(p) \/ CloseFile(p)
-----------------------------------------------------------------------------
Next ==
    \/ \E want \in SUBSET Optional : CallInit(want)
    \/ Build \/ BuildFails \/ Install
    \/ \E p \in Pipeline : Proceed(p) \/ StopProviders(p) \/ StopTracker(p)
    \/ \E c \in Callers : Return(c) \/ \E p \in Pipeline : CallShutdown(c, p)

Spec == Init /\ [][Next]_vars

\* A goroutine inside close goes on and the providers are back by the
\* deadline; nothing obliges anyone to call Init or Shutdown.
Fairness ==
    /\ \A p \in Pipeline : WF_vars(Proceed(p)) /\ WF_vars(StopProviders(p))
    /\ \A c \in Callers : WF_vars(Return(c))

FairSpec == Spec /\ Fairness
-----------------------------------------------------------------------------
Part == Optional \cup {"tp"}
Stages == {"new", "clear", "wait", "stayLocal", "sink", "file", "done"}
InitStages == DOMAIN After \cup {"idle", "stayLocal", "sink", "tracker", "current"}
PipelineOrNone == Pipeline \cup {0}

InitType ==
    /\ inits \in PipelineOrNone /\ initAt \in InitStages
    /\ parts \in [Pipeline -> SUBSET Part]
    /\ installed \subseteq 1..inits /\ current \in installed \cup {0}
RunningType ==
    running \subseteq {x \in Pipeline \X Part : x[1] <= inits /\ Has(x[1], x[2])}
GlobalType ==
    /\ globalTracker \in PipelineOrNone /\ logFileSink \in PipelineOrNone
    /\ logsStayLocal \in BOOLEAN
CloseType ==
    /\ stage \in [Pipeline -> Stages]
    /\ target \in [Callers -> installed \cup {0}]

TypeOK == InitType /\ RunningType /\ GlobalType /\ CloseType

\* Whatever still runs can still be stopped: it belongs to the Init under way
\* or to a pipeline whose cleanup has not finished.  An Init that fails, and a
\* shutdown that finishes, leave nothing running.
NothingLeaks ==
    \A x \in running :
      \/ x[1] = inits /\ initAt # "idle"
      \/ x[1] \in installed /\ stage[x[1]] # "done"

\* Track is never pointed at a queue that has been shut down, nor a log record
\* at a file that has been closed.
GlobalsAreLive ==
    /\ globalTracker # 0 => Up(globalTracker, "tracker")
    /\ logFileSink # 0 => Up(logFileSink, "file")

\* Until someone shuts the latest pipeline down, its queue is the one Track
\* uses and its file the one logs go to, whatever stale cleanups do.
LatestKeepsItsSinks ==
    initAt = "idle" /\ current # 0 /\ stage[current] = "new" =>
      /\ Has(current, "tracker") => globalTracker = current
      /\ logFileSink = IF Has(current, "file") THEN current ELSE 0

\* Shutdown and every cleanup return, if the subscribers' sends do.
ShutdownReturns ==
    (\A p \in Pipeline : WF_vars(StopTracker(p)))
      => \A c \in Callers : target[c] # 0 ~> target[c] = 0

Settled == initAt = "idle" /\ \A p \in Pipeline : stage[p] \in {"new", "done"}

\* "A pipeline an Init has replaced no longer decides where logs go"
\* (lifecycle.go): the latest pipeline's log provider gets the records.
LatestDecidesLogs ==
    Settled /\ current # 0 /\ stage[current] = "new" =>
      logsStayLocal = ~Has(current, "lp")
=============================================================================

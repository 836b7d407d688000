-------------------------- MODULE LifecycleProofs --------------------------
(***************************************************************************)
(* Proofs about the pipeline lifecycle, for any number of Init calls and   *)
(* any set of goroutines that shut pipelines down.                         *)
(***************************************************************************)
EXTENDS Lifecycle, TLAPS

\* Where an Init is before it has installed its file, and its queue.
BeforeSink == DOMAIN After \cup {"stayLocal", "sink"}
BeforeTracker == BeforeSink \cup {"tracker"}

\* The pipeline an Init is building is nobody else's yet: nobody can shut it
\* down, and its queue and file are running only once they are made.
BuildInv ==
    /\ initAt # "idle" => inits \in Pipeline /\ inits \notin installed
    /\ initAt \in DOMAIN After => ~Up(inits, "file")
    /\ initAt \in BeforeTracker => ~Up(inits, "tracker")
    /\ initAt \in {"stayLocal", "sink"} /\ Has(inits, "file") => Up(inits, "file")

\* The globals name installed pipelines, or the one being installed.
OwnerInv ==
    /\ \/ globalTracker \in installed \cup {0}
       \/ globalTracker = inits /\ initAt = "current"
    /\ \/ logFileSink \in installed \cup {0}
       \/ logFileSink = inits /\ initAt \in {"tracker", "current"}

\* What each stage of a close tells: the globals p has given up and the parts
\* it has stopped.
StageOf(p) ==
    /\ stage[p] # "new" => p \in installed
    /\ stage[p] \notin {"new", "clear"} => globalTracker # p
    /\ stage[p] \in {"file", "done"} => logFileSink # p
    /\ stage[p] \in {"stayLocal", "sink", "file", "done"} => AllStopped(p)
    /\ stage[p] = "done" => ~Up(p, "file")

StageInv == \A p \in Pipeline : StageOf(p)

\* Every running part belongs to an installed pipeline or the one being built.
OrphanInv ==
    \A x \in running : x[1] \in installed \/ (x[1] = inits /\ initAt # "idle")

\* Whose the sinks are while an Init installs its own, and before.
LatestInv ==
    /\ initAt = "current" /\ Has(inits, "tracker") => globalTracker = inits
    /\ initAt \in {"tracker", "current"} =>
         logFileSink = IF Has(inits, "file") THEN inits ELSE 0
    /\ current # 0 /\ stage[current] = "new" =>
         /\ initAt # "current" /\ Has(current, "tracker") => globalTracker = current
         /\ initAt \notin {"tracker", "current"} =>
              logFileSink = IF Has(current, "file") THEN current ELSE 0

IInv == /\ TypeOK /\ BuildInv /\ OwnerInv /\ StageInv /\ OrphanInv
        /\ GlobalsAreLive /\ LatestInv
-----------------------------------------------------------------------------
(* One lemma for each part of the invariant. *)

LEMMA InitTypeStep ==
  ASSUME TypeOK, BuildInv, [Next]_vars PROVE InitType'
<1> USE LifecycleAssumption
        DEF initVars, globalVars, Has, Up, TypeOK, BuildInv, InitType,
            Pipeline, PipelineOrNone, InitStages, Part, Optional, After
<1>1. ASSUME NEW want \in SUBSET Optional, CallInit(want)
      PROVE  InitType'
  BY <1>1 DEF CallInit
<1>2. CASE Build
  BY <1>2 DEF Build, After
<1>3. CASE BuildFails
  BY <1>3 DEF BuildFails, Unwound, After
<1>4. CASE Install
  <2>1. CASE InstallStayLocal
    BY <2>1 DEF InstallStayLocal
  <2>2. CASE InstallSink
    BY <2>2 DEF InstallSink
  <2>3. CASE InstallTracker
    BY <2>3 DEF InstallTracker
  <2>4. CASE InstallCurrent
    BY <2>4 DEF InstallCurrent
  <2> QED BY <1>4, <2>1, <2>2, <2>3, <2>4 DEF Install
<1>5. ASSUME NEW p \in Pipeline, Proceed(p) PROVE InitType'
  <2>1. CASE EnterOnce(p)
    BY <2>1 DEF EnterOnce
  <2>2. CASE ClearTracker(p)
    BY <2>2 DEF ClearTracker, TrackerAfter
  <2>3. CASE AskCurrent(p)
    BY <2>3 DEF AskCurrent
  <2>4. CASE KeepLogsLocal(p)
    BY <2>4 DEF KeepLogsLocal
  <2>5. CASE ReleaseSink(p)
    BY <2>5 DEF ReleaseSink, SinkAfter
  <2>6. CASE CloseFile(p)
    BY <2>6 DEF CloseFile
  <2> QED BY <1>5, <2>1, <2>2, <2>3, <2>4, <2>5, <2>6 DEF Proceed
<1>6. ASSUME NEW p \in Pipeline, NEW part \in Part, StopProvider(p, part)
      PROVE  InitType'
  BY <1>6 DEF StopProvider
<1>7. ASSUME NEW p \in Pipeline, StopTracker(p) PROVE InitType'
  BY <1>7 DEF StopTracker, Stopping
<1>8. ASSUME NEW c \in Callers, Return(c) PROVE InitType'
  BY <1>8 DEF Return
<1>9. ASSUME NEW c \in Callers, NEW p \in Pipeline, CallShutdown(c, p)
      PROVE  InitType'
  BY <1>9 DEF CallShutdown
<1>10. CASE UNCHANGED vars
  BY <1>10 DEF vars
<1> HIDE
        DEF initVars, globalVars, Has, Up, TypeOK, BuildInv, InitType,
            Pipeline, PipelineOrNone, InitStages, Part, Optional, After
<1> QED BY <1>1, <1>2, <1>3, <1>4, <1>5, <1>6, <1>7, <1>8, <1>9, <1>10
        DEF Next, StopProviders, Part, Optional

LEMMA RunningTypeStep ==
  ASSUME TypeOK, BuildInv, [Next]_vars PROVE RunningType'
<1> USE LifecycleAssumption
        DEF initVars, globalVars, Has, Up, TypeOK, BuildInv, InitType,
            RunningType, GlobalType, CloseType, Pipeline, PipelineOrNone,
            Part, Optional
<1>1. ASSUME NEW want \in SUBSET Optional, CallInit(want)
      PROVE  RunningType'
  BY <1>1 DEF CallInit
<1>2. CASE Build
  BY <1>2 DEF Build, After
<1>3. CASE BuildFails
  BY <1>3 DEF BuildFails, Unwound, After
<1>4. CASE Install
  <2>1. CASE InstallStayLocal
    BY <2>1 DEF InstallStayLocal
  <2>2. CASE InstallSink
    BY <2>2 DEF InstallSink
  <2>3. CASE InstallTracker
    BY <2>3 DEF InstallTracker
  <2>4. CASE InstallCurrent
    BY <2>4 DEF InstallCurrent
  <2> QED BY <1>4, <2>1, <2>2, <2>3, <2>4 DEF Install
<1>5. ASSUME NEW p \in Pipeline, Proceed(p) PROVE RunningType'
  <2>1. CASE EnterOnce(p)
    BY <2>1 DEF EnterOnce
  <2>2. CASE ClearTracker(p)
    BY <2>2 DEF ClearTracker, TrackerAfter
  <2>3. CASE AskCurrent(p)
    BY <2>3 DEF AskCurrent
  <2>4. CASE KeepLogsLocal(p)
    BY <2>4 DEF KeepLogsLocal
  <2>5. CASE ReleaseSink(p)
    BY <2>5 DEF ReleaseSink, SinkAfter
  <2>6. CASE CloseFile(p)
    BY <2>6 DEF CloseFile
  <2> QED BY <1>5, <2>1, <2>2, <2>3, <2>4, <2>5, <2>6 DEF Proceed
<1>6. ASSUME NEW p \in Pipeline, NEW part \in Part, StopProvider(p, part)
      PROVE  RunningType'
  BY <1>6 DEF StopProvider
<1>7. ASSUME NEW p \in Pipeline, StopTracker(p) PROVE RunningType'
  BY <1>7 DEF StopTracker, Stopping
<1>8. ASSUME NEW c \in Callers, Return(c) PROVE RunningType'
  BY <1>8 DEF Return
<1>9. ASSUME NEW c \in Callers, NEW p \in Pipeline, CallShutdown(c, p)
      PROVE  RunningType'
  BY <1>9 DEF CallShutdown
<1>10. CASE UNCHANGED vars
  BY <1>10 DEF vars
<1> HIDE
        DEF initVars, globalVars, Has, Up, TypeOK, BuildInv, InitType,
            RunningType, GlobalType, CloseType, Pipeline, PipelineOrNone,
            Part, Optional
<1> QED BY <1>1, <1>2, <1>3, <1>4, <1>5, <1>6, <1>7, <1>8, <1>9, <1>10
        DEF Next, StopProviders, Part, Optional

LEMMA GlobalTypeStep ==
  ASSUME TypeOK, BuildInv, [Next]_vars PROVE GlobalType'
<1> USE LifecycleAssumption
        DEF initVars, globalVars, Has, Up, TypeOK, BuildInv, InitType,
            GlobalType, Pipeline, PipelineOrNone
<1>1. ASSUME NEW want \in SUBSET Optional, CallInit(want)
      PROVE  GlobalType'
  BY <1>1 DEF CallInit
<1>2. CASE Build
  BY <1>2 DEF Build, After
<1>3. CASE BuildFails
  BY <1>3 DEF BuildFails, Unwound, After
<1>4. CASE Install
  <2>1. CASE InstallStayLocal
    BY <2>1 DEF InstallStayLocal
  <2>2. CASE InstallSink
    BY <2>2 DEF InstallSink
  <2>3. CASE InstallTracker
    BY <2>3 DEF InstallTracker
  <2>4. CASE InstallCurrent
    BY <2>4 DEF InstallCurrent
  <2> QED BY <1>4, <2>1, <2>2, <2>3, <2>4 DEF Install
<1>5. ASSUME NEW p \in Pipeline, Proceed(p) PROVE GlobalType'
  <2>1. CASE EnterOnce(p)
    BY <2>1 DEF EnterOnce
  <2>2. CASE ClearTracker(p)
    BY <2>2 DEF ClearTracker, TrackerAfter
  <2>3. CASE AskCurrent(p)
    BY <2>3 DEF AskCurrent
  <2>4. CASE KeepLogsLocal(p)
    BY <2>4 DEF KeepLogsLocal
  <2>5. CASE ReleaseSink(p)
    BY <2>5 DEF ReleaseSink, SinkAfter
  <2>6. CASE CloseFile(p)
    BY <2>6 DEF CloseFile
  <2> QED BY <1>5, <2>1, <2>2, <2>3, <2>4, <2>5, <2>6 DEF Proceed
<1>6. ASSUME NEW p \in Pipeline, NEW part \in Part, StopProvider(p, part)
      PROVE  GlobalType'
  BY <1>6 DEF StopProvider
<1>7. ASSUME NEW p \in Pipeline, StopTracker(p) PROVE GlobalType'
  BY <1>7 DEF StopTracker, Stopping
<1>8. ASSUME NEW c \in Callers, Return(c) PROVE GlobalType'
  BY <1>8 DEF Return
<1>9. ASSUME NEW c \in Callers, NEW p \in Pipeline, CallShutdown(c, p)
      PROVE  GlobalType'
  BY <1>9 DEF CallShutdown
<1>10. CASE UNCHANGED vars
  BY <1>10 DEF vars
<1> HIDE
        DEF initVars, globalVars, Has, Up, TypeOK, BuildInv, InitType,
            GlobalType, Pipeline, PipelineOrNone
<1> QED BY <1>1, <1>2, <1>3, <1>4, <1>5, <1>6, <1>7, <1>8, <1>9, <1>10
        DEF Next, StopProviders, Part, Optional

LEMMA CloseTypeStep ==
  ASSUME TypeOK, BuildInv, [Next]_vars PROVE CloseType'
<1> USE LifecycleAssumption
        DEF initVars, globalVars, Has, Up, TypeOK, BuildInv, InitType,
            CloseType, Stages, Pipeline, PipelineOrNone
<1>1. ASSUME NEW want \in SUBSET Optional, CallInit(want)
      PROVE  CloseType'
  BY <1>1 DEF CallInit
<1>2. CASE Build
  BY <1>2 DEF Build, After
<1>3. CASE BuildFails
  BY <1>3 DEF BuildFails, Unwound, After
<1>4. CASE Install
  <2>1. CASE InstallStayLocal
    BY <2>1 DEF InstallStayLocal
  <2>2. CASE InstallSink
    BY <2>2 DEF InstallSink
  <2>3. CASE InstallTracker
    BY <2>3 DEF InstallTracker
  <2>4. CASE InstallCurrent
    BY <2>4 DEF InstallCurrent
  <2> QED BY <1>4, <2>1, <2>2, <2>3, <2>4 DEF Install
<1>5. ASSUME NEW p \in Pipeline, Proceed(p) PROVE CloseType'
  <2>1. CASE EnterOnce(p)
    BY <2>1 DEF EnterOnce
  <2>2. CASE ClearTracker(p)
    BY <2>2 DEF ClearTracker, TrackerAfter
  <2>3. CASE AskCurrent(p)
    BY <2>3 DEF AskCurrent
  <2>4. CASE KeepLogsLocal(p)
    BY <2>4 DEF KeepLogsLocal
  <2>5. CASE ReleaseSink(p)
    BY <2>5 DEF ReleaseSink, SinkAfter
  <2>6. CASE CloseFile(p)
    BY <2>6 DEF CloseFile
  <2> QED BY <1>5, <2>1, <2>2, <2>3, <2>4, <2>5, <2>6 DEF Proceed
<1>6. ASSUME NEW p \in Pipeline, NEW part \in Part, StopProvider(p, part)
      PROVE  CloseType'
  BY <1>6 DEF StopProvider
<1>7. ASSUME NEW p \in Pipeline, StopTracker(p) PROVE CloseType'
  BY <1>7 DEF StopTracker, Stopping
<1>8. ASSUME NEW c \in Callers, Return(c) PROVE CloseType'
  BY <1>8 DEF Return
<1>9. ASSUME NEW c \in Callers, NEW p \in Pipeline, CallShutdown(c, p)
      PROVE  CloseType'
  BY <1>9 DEF CallShutdown
<1>10. CASE UNCHANGED vars
  BY <1>10 DEF vars
<1> HIDE
        DEF initVars, globalVars, Has, Up, TypeOK, BuildInv, InitType,
            CloseType, Stages, Pipeline, PipelineOrNone
<1> QED BY <1>1, <1>2, <1>3, <1>4, <1>5, <1>6, <1>7, <1>8, <1>9, <1>10
        DEF Next, StopProviders, Part, Optional

LEMMA BuildStep ==
  ASSUME IInv, [Next]_vars PROVE BuildInv'
<1> USE LifecycleAssumption
        DEF initVars, globalVars, Has, Up, IInv, TypeOK, BuildInv, StageInv,
            StageOf, BeforeTracker, BeforeSink, After, InitStages, InitType,
            RunningType, GlobalType, CloseType, Pipeline, PipelineOrNone
<1>1. ASSUME NEW want \in SUBSET Optional, CallInit(want)
      PROVE  BuildInv'
  BY <1>1 DEF CallInit
<1>2. CASE Build
  BY <1>2 DEF Build, After
<1>3. CASE BuildFails
  BY <1>3 DEF BuildFails, Unwound, After
<1>4. CASE Install
  <2>1. CASE InstallStayLocal
    BY <2>1 DEF InstallStayLocal
  <2>2. CASE InstallSink
    BY <2>2 DEF InstallSink
  <2>3. CASE InstallTracker
    BY <2>3 DEF InstallTracker
  <2>4. CASE InstallCurrent
    BY <2>4 DEF InstallCurrent
  <2> QED BY <1>4, <2>1, <2>2, <2>3, <2>4 DEF Install
<1>5. ASSUME NEW p \in Pipeline, Proceed(p) PROVE BuildInv'
  <2>1. CASE EnterOnce(p)
    BY <2>1 DEF EnterOnce
  <2>2. CASE ClearTracker(p)
    BY <2>2 DEF ClearTracker, TrackerAfter
  <2>3. CASE AskCurrent(p)
    BY <2>3 DEF AskCurrent
  <2>4. CASE KeepLogsLocal(p)
    BY <2>4 DEF KeepLogsLocal
  <2>5. CASE ReleaseSink(p)
    BY <2>5 DEF ReleaseSink, SinkAfter
  <2>6. CASE CloseFile(p)
    BY <2>6 DEF CloseFile
  <2> QED BY <1>5, <2>1, <2>2, <2>3, <2>4, <2>5, <2>6 DEF Proceed
<1>6. ASSUME NEW p \in Pipeline, NEW part \in Part, StopProvider(p, part)
      PROVE  BuildInv'
  BY <1>6 DEF StopProvider
<1>7. ASSUME NEW p \in Pipeline, StopTracker(p) PROVE BuildInv'
  BY <1>7 DEF StopTracker, Stopping
<1>8. ASSUME NEW c \in Callers, Return(c) PROVE BuildInv'
  BY <1>8 DEF Return
<1>9. ASSUME NEW c \in Callers, NEW p \in Pipeline, CallShutdown(c, p)
      PROVE  BuildInv'
  BY <1>9 DEF CallShutdown
<1>10. CASE UNCHANGED vars
  BY <1>10 DEF vars
<1> HIDE
        DEF initVars, globalVars, Has, Up, IInv, TypeOK, BuildInv, StageInv,
            StageOf, BeforeTracker, BeforeSink, After, InitStages, InitType,
            RunningType, GlobalType, CloseType, Pipeline, PipelineOrNone
<1> QED BY <1>1, <1>2, <1>3, <1>4, <1>5, <1>6, <1>7, <1>8, <1>9, <1>10
        DEF Next, StopProviders, Part, Optional

LEMMA OwnerStep ==
  ASSUME IInv, [Next]_vars PROVE OwnerInv'
<1> USE LifecycleAssumption
        DEF initVars, globalVars, Has, Up, IInv, TypeOK, OwnerInv, BuildInv,
            After, InitType, RunningType, GlobalType, CloseType, Pipeline,
            PipelineOrNone
<1>1. ASSUME NEW want \in SUBSET Optional, CallInit(want)
      PROVE  OwnerInv'
  BY <1>1 DEF CallInit
<1>2. CASE Build
  BY <1>2 DEF Build, After
<1>3. CASE BuildFails
  BY <1>3 DEF BuildFails, Unwound, After
<1>4. CASE Install
  <2>1. CASE InstallStayLocal
    BY <2>1 DEF InstallStayLocal
  <2>2. CASE InstallSink
    BY <2>2 DEF InstallSink
  <2>3. CASE InstallTracker
    BY <2>3 DEF InstallTracker
  <2>4. CASE InstallCurrent
    BY <2>4 DEF InstallCurrent
  <2> QED BY <1>4, <2>1, <2>2, <2>3, <2>4 DEF Install
<1>5. ASSUME NEW p \in Pipeline, Proceed(p) PROVE OwnerInv'
  <2>1. CASE EnterOnce(p)
    BY <2>1 DEF EnterOnce
  <2>2. CASE ClearTracker(p)
    BY <2>2 DEF ClearTracker, TrackerAfter
  <2>3. CASE AskCurrent(p)
    BY <2>3 DEF AskCurrent
  <2>4. CASE KeepLogsLocal(p)
    BY <2>4 DEF KeepLogsLocal
  <2>5. CASE ReleaseSink(p)
    BY <2>5 DEF ReleaseSink, SinkAfter
  <2>6. CASE CloseFile(p)
    BY <2>6 DEF CloseFile
  <2> QED BY <1>5, <2>1, <2>2, <2>3, <2>4, <2>5, <2>6 DEF Proceed
<1>6. ASSUME NEW p \in Pipeline, NEW part \in Part, StopProvider(p, part)
      PROVE  OwnerInv'
  BY <1>6 DEF StopProvider
<1>7. ASSUME NEW p \in Pipeline, StopTracker(p) PROVE OwnerInv'
  BY <1>7 DEF StopTracker, Stopping
<1>8. ASSUME NEW c \in Callers, Return(c) PROVE OwnerInv'
  BY <1>8 DEF Return
<1>9. ASSUME NEW c \in Callers, NEW p \in Pipeline, CallShutdown(c, p)
      PROVE  OwnerInv'
  BY <1>9 DEF CallShutdown
<1>10. CASE UNCHANGED vars
  BY <1>10 DEF vars
<1> HIDE
        DEF initVars, globalVars, Has, Up, IInv, TypeOK, OwnerInv, BuildInv,
            After, InitType, RunningType, GlobalType, CloseType, Pipeline,
            PipelineOrNone
<1> QED BY <1>1, <1>2, <1>3, <1>4, <1>5, <1>6, <1>7, <1>8, <1>9, <1>10
        DEF Next, StopProviders, Part, Optional

LEMMA StageStep ==
  ASSUME NEW q \in Pipeline, IInv, [Next]_vars PROVE StageOf(q)'
<1> USE LifecycleAssumption DEF initVars, globalVars, StageOf, AllStopped, Up
<1>a. StageOf(q) /\ stage \in [Pipeline -> Stages] /\ q # 0
  BY DEF IInv, TypeOK, CloseType, StageInv, Pipeline
<1>b. initAt # "idle" /\ stage[q] # "new" => q # inits
  BY DEF IInv, BuildInv, StageInv
<1>c. /\ globalTracker = q => Has(q, "tracker")
      /\ logFileSink = q => Has(q, "file")
  BY <1>a DEF IInv, TypeOK, GlobalsAreLive, RunningType
<1>1. ASSUME NEW want \in SUBSET Optional, CallInit(want)
      PROVE  StageOf(q)'
  BY <1>1, <1>a DEF CallInit
<1>2. CASE Build
  BY <1>2, <1>a, <1>b DEF Build, After
<1>3. CASE BuildFails
  BY <1>3, <1>a DEF BuildFails, Unwound
<1>4. CASE Install
  <2>1. CASE InstallStayLocal
    BY <2>1, <1>a DEF InstallStayLocal
  <2>2. CASE InstallSink
    BY <2>2, <1>a, <1>b DEF InstallSink
  <2>3. CASE InstallTracker
    BY <2>3, <1>a, <1>b DEF InstallTracker
  <2>4. CASE InstallCurrent
    BY <2>4, <1>a DEF InstallCurrent
  <2> QED BY <1>4, <2>1, <2>2, <2>3, <2>4 DEF Install
<1>5. ASSUME NEW p \in Pipeline, Proceed(p) PROVE StageOf(q)'
  <2>1. CASE EnterOnce(p)
    <3>1. p \in installed
      BY <2>1 DEF EnterOnce, IInv, TypeOK, CloseType, Pipeline
    <3> QED BY <3>1, <2>1, <1>a DEF EnterOnce
  <2>2. CASE ClearTracker(p)
    <3>1. p = q => globalTracker' # q
      BY <2>2, <1>a, <1>c DEF ClearTracker, TrackerAfter
    <3>2. globalTracker # q => globalTracker' # q
      BY <2>2, <1>a DEF ClearTracker, TrackerAfter
    <3> QED BY <3>1, <3>2, <2>2, <1>a DEF ClearTracker
  <2>3. CASE AskCurrent(p)
    BY <2>3, <1>a DEF AskCurrent
  <2>4. CASE KeepLogsLocal(p)
    BY <2>4, <1>a DEF KeepLogsLocal
  <2>5. CASE ReleaseSink(p)
    <3>1. logFileSink # q => logFileSink' # q
      BY <2>5, <1>a DEF ReleaseSink, SinkAfter
    <3>2. p = q => logFileSink' # q
      BY <2>5, <1>a, <1>c DEF ReleaseSink, SinkAfter
    <3>3. ~Has(q, "file") => ~Up(q, "file")
      BY DEF IInv, TypeOK, RunningType
    <3> QED BY <3>1, <3>2, <3>3, <2>5, <1>a DEF ReleaseSink
  <2>6. CASE CloseFile(p)
    BY <2>6, <1>a DEF CloseFile
  <2> QED BY <1>5, <2>1, <2>2, <2>3, <2>4, <2>5, <2>6 DEF Proceed
<1>6. ASSUME NEW p \in Pipeline, NEW part \in Part, StopProvider(p, part)
      PROVE  StageOf(q)'
  BY <1>6, <1>a DEF StopProvider
<1>7. ASSUME NEW p \in Pipeline, StopTracker(p) PROVE StageOf(q)'
  BY <1>7, <1>a DEF StopTracker
<1>8. ASSUME NEW c \in Callers, Return(c) PROVE StageOf(q)'
  BY <1>8, <1>a DEF Return
<1>9. ASSUME NEW c \in Callers, NEW p \in Pipeline, CallShutdown(c, p)
      PROVE  StageOf(q)'
  BY <1>9, <1>a DEF CallShutdown
<1>10. CASE UNCHANGED vars
  BY <1>10, <1>a DEF vars
<1> HIDE DEF StageOf
<1> QED BY <1>1, <1>2, <1>3, <1>4, <1>5, <1>6, <1>7, <1>8, <1>9, <1>10
        DEF Next, StopProviders, Part, Optional

LEMMA OrphanStep ==
  ASSUME IInv, [Next]_vars PROVE OrphanInv'
<1> USE LifecycleAssumption
        DEF initVars, globalVars, Has, Up, IInv, TypeOK, OrphanInv, BuildInv,
            BeforeTracker, BeforeSink, After, Part, Optional, InitType,
            RunningType, GlobalType, CloseType, Pipeline, PipelineOrNone
<1>1. ASSUME NEW want \in SUBSET Optional, CallInit(want)
      PROVE  OrphanInv'
  BY <1>1 DEF CallInit
<1>2. CASE Build
  BY <1>2 DEF Build, After
<1>3. CASE BuildFails
  <2>1. ASSUME NEW x \in running', x[1] = inits PROVE FALSE
    <3>1. x \in running /\ x \in Pipeline \X Part
      BY <1>3, <2>1 DEF BuildFails, Unwound
    <3>2. x = <<inits, x[2]>> /\ x[2] \in Part
      BY <2>1, <3>1
    <3>3. x[2] \in {"file", "tracker"}
      BY <1>3, <2>1, <3>2 DEF BuildFails, Unwound
    <3> QED BY <1>3, <3>1, <3>2, <3>3 DEF BuildFails, After
  <2> QED BY <1>3, <2>1 DEF BuildFails, Unwound
<1>4. CASE Install
  <2>1. CASE InstallStayLocal
    BY <2>1 DEF InstallStayLocal
  <2>2. CASE InstallSink
    BY <2>2 DEF InstallSink
  <2>3. CASE InstallTracker
    BY <2>3 DEF InstallTracker
  <2>4. CASE InstallCurrent
    BY <2>4 DEF InstallCurrent
  <2> QED BY <1>4, <2>1, <2>2, <2>3, <2>4 DEF Install
<1>5. ASSUME NEW p \in Pipeline, Proceed(p) PROVE OrphanInv'
  <2>1. CASE EnterOnce(p)
    BY <2>1 DEF EnterOnce
  <2>2. CASE ClearTracker(p)
    BY <2>2 DEF ClearTracker, TrackerAfter
  <2>3. CASE AskCurrent(p)
    BY <2>3 DEF AskCurrent
  <2>4. CASE KeepLogsLocal(p)
    BY <2>4 DEF KeepLogsLocal
  <2>5. CASE ReleaseSink(p)
    BY <2>5 DEF ReleaseSink, SinkAfter
  <2>6. CASE CloseFile(p)
    BY <2>6 DEF CloseFile
  <2> QED BY <1>5, <2>1, <2>2, <2>3, <2>4, <2>5, <2>6 DEF Proceed
<1>6. ASSUME NEW p \in Pipeline, NEW part \in Part, StopProvider(p, part)
      PROVE  OrphanInv'
  BY <1>6 DEF StopProvider
<1>7. ASSUME NEW p \in Pipeline, StopTracker(p) PROVE OrphanInv'
  BY <1>7 DEF StopTracker, Stopping
<1>8. ASSUME NEW c \in Callers, Return(c) PROVE OrphanInv'
  BY <1>8 DEF Return
<1>9. ASSUME NEW c \in Callers, NEW p \in Pipeline, CallShutdown(c, p)
      PROVE  OrphanInv'
  BY <1>9 DEF CallShutdown
<1>10. CASE UNCHANGED vars
  BY <1>10 DEF vars
<1> HIDE
        DEF initVars, globalVars, Has, Up, IInv, TypeOK, OrphanInv, BuildInv,
            BeforeTracker, BeforeSink, After, Part, Optional, InitType,
            RunningType, GlobalType, CloseType, Pipeline, PipelineOrNone
<1> QED BY <1>1, <1>2, <1>3, <1>4, <1>5, <1>6, <1>7, <1>8, <1>9, <1>10
        DEF Next, StopProviders, Part, Optional

LEMMA GlobalsStep ==
  ASSUME IInv, [Next]_vars PROVE GlobalsAreLive'
<1> USE LifecycleAssumption
        DEF initVars, globalVars, Has, Up, IInv, TypeOK, GlobalsAreLive,
            StageInv, StageOf, OwnerInv, BuildInv, After, Stages, InitType,
            RunningType, GlobalType, CloseType, Pipeline, PipelineOrNone
<1>1. ASSUME NEW want \in SUBSET Optional, CallInit(want)
      PROVE  GlobalsAreLive'
  BY <1>1 DEF CallInit
<1>2. CASE Build
  BY <1>2 DEF Build, After
<1>3. CASE BuildFails
  BY <1>3 DEF BuildFails, Unwound, After
<1>4. CASE Install
  <2>1. CASE InstallStayLocal
    BY <2>1 DEF InstallStayLocal
  <2>2. CASE InstallSink
    BY <2>2 DEF InstallSink
  <2>3. CASE InstallTracker
    <3>1. running \subseteq running' /\ logFileSink' = logFileSink
      BY <2>3 DEF InstallTracker
    <3>2. globalTracker' = globalTracker \/ Up(globalTracker, "tracker")'
      BY <2>3 DEF InstallTracker
    <3> QED BY <3>1, <3>2
  <2>4. CASE InstallCurrent
    BY <2>4 DEF InstallCurrent
  <2> QED BY <1>4, <2>1, <2>2, <2>3, <2>4 DEF Install
<1>5. ASSUME NEW p \in Pipeline, Proceed(p) PROVE GlobalsAreLive'
  <2>1. CASE EnterOnce(p)
    BY <2>1 DEF EnterOnce
  <2>2. CASE ClearTracker(p)
    BY <2>2 DEF ClearTracker, TrackerAfter
  <2>3. CASE AskCurrent(p)
    BY <2>3 DEF AskCurrent
  <2>4. CASE KeepLogsLocal(p)
    BY <2>4 DEF KeepLogsLocal
  <2>5. CASE ReleaseSink(p)
    BY <2>5 DEF ReleaseSink, SinkAfter
  <2>6. CASE CloseFile(p)
    BY <2>6 DEF CloseFile
  <2> QED BY <1>5, <2>1, <2>2, <2>3, <2>4, <2>5, <2>6 DEF Proceed
<1>6. ASSUME NEW p \in Pipeline, NEW part \in Part, StopProvider(p, part)
      PROVE  GlobalsAreLive'
  BY <1>6 DEF StopProvider
<1>7. ASSUME NEW p \in Pipeline, StopTracker(p) PROVE GlobalsAreLive'
  BY <1>7 DEF StopTracker, Stopping
<1>8. ASSUME NEW c \in Callers, Return(c) PROVE GlobalsAreLive'
  BY <1>8 DEF Return
<1>9. ASSUME NEW c \in Callers, NEW p \in Pipeline, CallShutdown(c, p)
      PROVE  GlobalsAreLive'
  BY <1>9 DEF CallShutdown
<1>10. CASE UNCHANGED vars
  BY <1>10 DEF vars
<1> HIDE
        DEF initVars, globalVars, Has, Up, IInv, TypeOK, GlobalsAreLive,
            StageInv, StageOf, OwnerInv, BuildInv, After, Stages, InitType,
            RunningType, GlobalType, CloseType, Pipeline, PipelineOrNone
<1> QED BY <1>1, <1>2, <1>3, <1>4, <1>5, <1>6, <1>7, <1>8, <1>9, <1>10
        DEF Next, StopProviders, Part, Optional

LEMMA LatestStep ==
  ASSUME IInv, [Next]_vars PROVE LatestInv'
<1> USE LifecycleAssumption
        DEF initVars, globalVars, Has, Up, IInv, TypeOK, LatestInv, BuildInv,
            OwnerInv, StageInv, StageOf, After, InitType, RunningType,
            GlobalType, CloseType, Pipeline, PipelineOrNone
<1>1. ASSUME NEW want \in SUBSET Optional, CallInit(want)
      PROVE  LatestInv'
  BY <1>1 DEF CallInit
<1>2. CASE Build
  BY <1>2 DEF Build, After
<1>3. CASE BuildFails
  BY <1>3 DEF BuildFails, Unwound, After
<1>4. CASE Install
  <2>1. CASE InstallStayLocal
    BY <2>1 DEF InstallStayLocal
  <2>2. CASE InstallSink
    BY <2>2 DEF InstallSink
  <2>3. CASE InstallTracker
    BY <2>3 DEF InstallTracker
  <2>4. CASE InstallCurrent
    BY <2>4 DEF InstallCurrent
  <2> QED BY <1>4, <2>1, <2>2, <2>3, <2>4 DEF Install
<1>5. ASSUME NEW p \in Pipeline, Proceed(p) PROVE LatestInv'
  <2>1. CASE EnterOnce(p)
    BY <2>1 DEF EnterOnce
  <2>2. CASE ClearTracker(p)
    BY <2>2 DEF ClearTracker, TrackerAfter
  <2>3. CASE AskCurrent(p)
    BY <2>3 DEF AskCurrent
  <2>4. CASE KeepLogsLocal(p)
    BY <2>4 DEF KeepLogsLocal
  <2>5. CASE ReleaseSink(p)
    BY <2>5 DEF ReleaseSink, SinkAfter
  <2>6. CASE CloseFile(p)
    BY <2>6 DEF CloseFile
  <2> QED BY <1>5, <2>1, <2>2, <2>3, <2>4, <2>5, <2>6 DEF Proceed
<1>6. ASSUME NEW p \in Pipeline, NEW part \in Part, StopProvider(p, part)
      PROVE  LatestInv'
  BY <1>6 DEF StopProvider
<1>7. ASSUME NEW p \in Pipeline, StopTracker(p) PROVE LatestInv'
  BY <1>7 DEF StopTracker, Stopping
<1>8. ASSUME NEW c \in Callers, Return(c) PROVE LatestInv'
  BY <1>8 DEF Return
<1>9. ASSUME NEW c \in Callers, NEW p \in Pipeline, CallShutdown(c, p)
      PROVE  LatestInv'
  BY <1>9 DEF CallShutdown
<1>10. CASE UNCHANGED vars
  BY <1>10 DEF vars
<1> HIDE
        DEF initVars, globalVars, Has, Up, IInv, TypeOK, LatestInv, BuildInv,
            OwnerInv, StageInv, StageOf, After, InitType, RunningType,
            GlobalType, CloseType, Pipeline, PipelineOrNone
<1> QED BY <1>1, <1>2, <1>3, <1>4, <1>5, <1>6, <1>7, <1>8, <1>9, <1>10
        DEF Next, StopProviders, Part, Optional
-----------------------------------------------------------------------------
(* The invariant and what follows from it. *)

LEMMA InitInv == Init => IInv
<1> SUFFICES ASSUME Init PROVE IInv
  OBVIOUS
<1> USE LifecycleAssumption DEF Init, After, Up, Has
<1>1. TypeOK
  BY DEF TypeOK, InitType, RunningType, GlobalType, CloseType, Pipeline,
         PipelineOrNone, InitStages, Stages, Part, Optional
<1>2. StageInv
  BY DEF StageInv, StageOf, Pipeline
<1>3. BuildInv /\ OwnerInv /\ OrphanInv /\ GlobalsAreLive /\ LatestInv
  BY DEF BuildInv, OwnerInv, OrphanInv, GlobalsAreLive, LatestInv, BeforeSink,
         BeforeTracker
<1> QED BY <1>1, <1>2, <1>3 DEF IInv

LEMMA StepInv == IInv /\ [Next]_vars => IInv'
<1> SUFFICES ASSUME IInv, [Next]_vars PROVE IInv'
  OBVIOUS
<1>1. TypeOK /\ BuildInv
  BY DEF IInv
<1>2. TypeOK'
  BY <1>1, InitTypeStep, RunningTypeStep, GlobalTypeStep, CloseTypeStep DEF TypeOK
<1>3. StageInv'
  BY StageStep DEF StageInv, Pipeline
<1> QED BY <1>2, <1>3, BuildStep, OwnerStep, OrphanStep, GlobalsStep, LatestStep
        DEF IInv

\* The inductive invariant holds in every state of every behaviour.
THEOREM Invariance == Spec => []IInv
BY InitInv, StepInv, PTL DEF Spec

\* The variables of lifecycle.go's model keep their types.
THEOREM TypeCorrect == Spec => []TypeOK
<1>1. IInv => TypeOK
  BY DEF IInv
<1> QED BY <1>1, Invariance, PTL

\* Whatever an Init built is stopped when that Init fails or its pipeline's
\* shutdown is done.
THEOREM NoLeak == Spec => []NothingLeaks
<1>1. IInv => NothingLeaks
  <2> SUFFICES ASSUME IInv, NEW x \in running, x[1] \in installed,
                      stage[x[1]] = "done"
               PROVE  FALSE
    BY DEF NothingLeaks, IInv, OrphanInv
  <2>1. x = <<x[1], x[2]>> /\ x[1] \in Pipeline /\ x[2] \in Part
    BY DEF IInv, TypeOK, RunningType
  <2>2. x[2] \notin {"tp", "mp", "lp", "tracker"}
    BY <2>1 DEF IInv, StageInv, StageOf, AllStopped, Up
  <2>3. x[2] # "file"
    BY <2>1 DEF IInv, StageInv, StageOf, Up
  <2> QED BY <2>1, <2>2, <2>3 DEF Part, Optional
<1> QED BY <1>1, Invariance, PTL

\* Track's queue and the log file are running ones, always.
THEOREM LiveGlobals == Spec => []GlobalsAreLive
<1>1. IInv => GlobalsAreLive
  BY DEF IInv
<1> QED BY <1>1, Invariance, PTL

\* The latest pipeline keeps its queue and its file, whatever stale cleanups
\* run beside it.
THEOREM LatestSinks == Spec => []LatestKeepsItsSinks
<1>1. IInv => LatestKeepsItsSinks
  BY DEF IInv, LatestInv, LatestKeepsItsSinks
<1> QED BY <1>1, Invariance, PTL
=============================================================================

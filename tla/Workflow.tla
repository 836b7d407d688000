------------------------------ MODULE Workflow ------------------------------
(***************************************************************************)
(* The saga of workflow/workflow.go: Run executes the registered steps in  *)
(* order, retrying each; when one fails, or the context is cancelled, the  *)
(* completed ones are compensated in reverse, by Run itself or by          *)
(* CompensateAll.  Both may be called by several goroutines.  Spans,       *)
(* events and links are left out: they decide nothing.                     *)
(***************************************************************************)
EXTENDS Naturals, Sequences, Functions

CONSTANTS NumSteps,      \* steps registered before Run
          MaxAttempts,   \* RetryConfig.MaxAttempts, 1 for no retry
          Runners,       \* goroutines that call Run, once each
          Rollers,       \* goroutines that call CompensateAll
          MaxRollbacks,  \* bound: CompensateAll calls in a behaviour
          Overlap        \* may two CompensateAll calls be under way at once?

Steps == 1..NumSteps
Callers == Runners \cup Rollers
Mode == {"on-failure", "manual", "never"}

ASSUME WorkflowAssumption ==
    /\ NumSteps \in Nat /\ MaxAttempts \in Nat \ {0} /\ MaxRollbacks \in Nat
    /\ Overlap \in BOOLEAN
    /\ Runners \cap Rollers = {}

VARIABLES
    mode, hasComp,   \* Config.CompensationMode; the steps with a compensation
    cancelled,       \* the context given to Run is done
    state,           \* w.state
    completed,       \* w.completedSteps: [step, ok] records in order
    pc,              \* pc[p]: where caller p is
    step, attempt,   \* Run's loop index, executeStep's
    stepOk,          \* the result executeStep is about to return
    snapshot, pos, compOk,  \* compensate's copy, index and error list, per caller
    rollbacks,       \* CompensateAll calls so far
    rollback,        \* history: compensations begun since a rollback last ended
    tried, undone    \* history: steps whose compensation was tried, succeeded

configVars == <<mode, hasComp>>
runVars == <<step, attempt, stepOk>>
compVars == <<snapshot, pos, compOk>>
histVars == <<rollback, tried, undone>>
vars == <<configVars, cancelled, state, completed, pc, runVars, compVars,
          rollbacks, histVars>>

Init ==
    /\ mode \in Mode /\ hasComp \in SUBSET Steps
    /\ cancelled = FALSE /\ state = "pending" /\ completed = <<>>
    /\ pc = [p \in Callers |-> "idle"]
    /\ step = 0 /\ attempt = 0 /\ stepOk = FALSE
    /\ snapshot = [p \in Callers |-> <<>>]
    /\ pos = [p \in Callers |-> 0]
    /\ compOk = [p \in Callers |-> TRUE]
    /\ rollbacks = 0 /\ rollback = <<>> /\ tried = {} /\ undone = {}

\* Definitions named Faulty... are variants that no action uses: each breaks a
\* property when it takes the place of the definition it stands beside.

Goto(p, where) == pc' = [pc EXCEPT ![p] = where]
At(p, where) == pc[p] = where
-----------------------------------------------------------------------------
(* Run, by goroutine r. *)

CallRun(r) ==
    /\ At(r, "idle")
    /\ IF state = "pending"
       THEN state' = "running" /\ step' = 1 /\ Goto(r, "loop")
       ELSE Goto(r, "returned") /\ UNCHANGED <<state, step>>
    /\ UNCHANGED <<configVars, cancelled, completed, attempt, stepOk, compVars,
                   rollbacks, histVars>>

BeginStep(r) ==
    /\ At(r, "loop")
    /\ IF step > NumSteps THEN Goto(r, "succeed") /\ UNCHANGED attempt
       ELSE IF cancelled THEN Goto(r, "fail") /\ UNCHANGED attempt
       ELSE Goto(r, "handler") /\ attempt' = 1
    /\ UNCHANGED <<configVars, cancelled, state, completed, step, stepOk,
                   compVars, rollbacks, histVars>>

Retries(ok) == ~ok /\ attempt < MaxAttempts

\* executeStep: the handler returns; a failure is retried after a back-off.
HandlerReturns(r, ok) ==
    /\ At(r, "handler")
    /\ stepOk' = ok
    /\ Goto(r, IF Retries(ok) THEN "backoff" ELSE "record")
    /\ UNCHANGED <<configVars, cancelled, state, completed, step, attempt,
                   compVars, rollbacks, histVars>>

BackoffElapses(r) ==
    /\ At(r, "backoff")
    /\ attempt' = attempt + 1
    /\ Goto(r, "handler")
    /\ UNCHANGED <<configVars, cancelled, state, completed, step, stepOk,
                   compVars, rollbacks, histVars>>

\* The step fails with the context's error and is not tried again.
BackoffCancelled(r) ==
    /\ At(r, "backoff") /\ cancelled
    /\ Goto(r, "record")
    /\ UNCHANGED <<configVars, cancelled, state, completed, runVars, compVars,
                   rollbacks, histVars>>

\* A failed step is recorded like any other.
RecordStep(r) ==
    /\ At(r, "record")
    /\ completed' = Append(completed, [step |-> step, ok |-> stepOk])
    /\ IF stepOk THEN step' = step + 1 /\ Goto(r, "loop")
                 ELSE UNCHANGED step /\ Goto(r, "fail")
    /\ UNCHANGED <<configVars, cancelled, state, attempt, stepOk, compVars,
                   rollbacks, histVars>>

Fail(r) ==
    /\ At(r, "fail")
    /\ state' = "failed"
    /\ Goto(r, IF mode = "on-failure" THEN "compensate" ELSE "returned")
    /\ UNCHANGED <<configVars, cancelled, completed, runVars, compVars,
                   rollbacks, histVars>>

Succeed(r) ==
    /\ At(r, "succeed")
    /\ state' = "completed"
    /\ Goto(r, "returned")
    /\ UNCHANGED <<configVars, cancelled, completed, runVars, compVars,
                   rollbacks, histVars>>
-----------------------------------------------------------------------------
(* compensate, by caller p: on a context that cannot be cancelled. *)

BeginCompensate(p) ==
    /\ At(p, "compensate")
    /\ state' = "compensating"
    /\ snapshot' = [snapshot EXCEPT ![p] = completed]
    /\ pos' = [pos EXCEPT ![p] = Len(completed)]
    /\ compOk' = [compOk EXCEPT ![p] = TRUE]
    /\ Goto(p, "undo")
    /\ UNCHANGED <<configVars, cancelled, completed, runVars, rollbacks,
                   histVars>>

\* The loop's index, which counts down, and the result it stands at.
FaultyMoreToUndo(p) == pos[p] > 1   \* never reaches the first step
MoreToUndo(p) == pos[p] > 0

\* Takes the steps in the order they ran.
FaultyToUndo(p) == snapshot[p][Len(snapshot[p]) + 1 - pos[p]]
ToUndo(p) == snapshot[p][pos[p]]

\* Compensates failed steps too.
FaultyUndoable(result) == result.step \in hasComp
Undoable(result) == result.ok /\ result.step \in hasComp

SkipStep(p) ==
    /\ At(p, "undo") /\ MoreToUndo(p)
    /\ ~Undoable(ToUndo(p))
    /\ pos' = [pos EXCEPT ![p] = @ - 1]
    /\ UNCHANGED <<configVars, cancelled, state, completed, pc, runVars,
                   snapshot, compOk, rollbacks, histVars>>

\* An error is remembered and the rollback goes on.
UndoStep(p, ok) ==
    /\ At(p, "undo") /\ MoreToUndo(p)
    /\ Undoable(ToUndo(p))
    /\ LET s == ToUndo(p).step IN
       /\ rollback' = Append(rollback, s)
       /\ tried' = tried \cup {s}
       /\ undone' = IF ok THEN undone \cup {s} ELSE undone
    /\ compOk' = [compOk EXCEPT ![p] = @ /\ ok]
    /\ pos' = [pos EXCEPT ![p] = @ - 1]
    /\ UNCHANGED <<configVars, cancelled, state, completed, pc, runVars,
                   snapshot, rollbacks>>

Verdict(p) == IF compOk[p] THEN "compensated" ELSE "failed"

EndCompensate(p) ==
    /\ At(p, "undo") /\ ~MoreToUndo(p)
    /\ state' = Verdict(p)
    /\ rollback' = <<>>
    /\ Goto(p, "returned")
    /\ UNCHANGED <<configVars, cancelled, completed, runVars, compVars,
                   rollbacks, tried, undone>>

\* CompensateAll: the state is tested under the lock, then the lock is
\* released; compensate takes it again to set the state.  The mode is not
\* consulted.  It is called once Run is over, and may be called again.
Busy(p) == pc[p] \notin {"idle", "returned"}

FaultyAlreadyUndone == state = "compensating"
AlreadyUndone == state \in {"compensating", "compensated"}

CallCompensateAll(q) ==
    /\ ~Busy(q) /\ rollbacks < MaxRollbacks
    /\ state # "pending" /\ ~\E r \in Runners : Busy(r)
    /\ Overlap \/ ~\E p \in Rollers : Busy(p)
    /\ rollbacks' = rollbacks + 1
    /\ Goto(q, IF AlreadyUndone THEN "returned" ELSE "compensate")
    /\ UNCHANGED <<configVars, cancelled, state, completed, runVars, compVars,
                   histVars>>
-----------------------------------------------------------------------------
Cancel ==
    /\ ~cancelled
    /\ cancelled' = TRUE
    /\ UNCHANGED <<configVars, state, completed, pc, runVars, compVars,
                   rollbacks, histVars>>

Run(r) ==
    \/ BeginStep(r) \/ (\E ok \in BOOLEAN : HandlerReturns(r, ok))
    \/ BackoffElapses(r) \/ BackoffCancelled(r) \/ RecordStep(r)
    \/ Fail(r) \/ Succeed(r)

Compensate(p) ==
    \/ BeginCompensate(p) \/ SkipStep(p) \/ EndCompensate(p)
    \/ \E ok \in BOOLEAN : UndoStep(p, ok)

Next ==
    \/ \E r \in Runners : CallRun(r) \/ Run(r)
    \/ \E p \in Callers : Compensate(p)
    \/ \E q \in Rollers : CallCompensateAll(q)
    \/ Cancel

Spec == Init /\ [][Next]_vars

\* Handlers and compensations return and back-offs end, so a goroutine in
\* Run or in compensate goes on; nothing obliges anyone to call or cancel.
Fairness ==
    /\ \A r \in Runners : WF_vars(Run(r))
    /\ \A p \in Callers : WF_vars(Compensate(p))

FairSpec == Spec /\ Fairness
-----------------------------------------------------------------------------
States == {"pending", "running", "completed", "failed", "compensating",
           "compensated"}
Result == [step : Steps, ok : BOOLEAN]
Place == {"idle", "loop", "handler", "backoff", "record", "fail", "succeed",
          "compensate", "undo", "returned"}

TypeOK ==
    /\ mode \in Mode /\ hasComp \subseteq Steps /\ cancelled \in BOOLEAN
    /\ state \in States
    /\ completed \in Seq(Result)
    /\ pc \in [Callers -> Place]
    /\ step \in 0..(NumSteps + 1) /\ attempt \in 0..MaxAttempts
    /\ stepOk \in BOOLEAN
    /\ snapshot \in [Callers -> Seq(Result)]
    /\ \A p \in Callers : pos[p] \in 0..Len(snapshot[p])
    /\ compOk \in [Callers -> BOOLEAN]
    /\ rollbacks \in 0..MaxRollbacks
    /\ rollback \in Seq(Steps)
    /\ tried \subseteq Steps /\ undone \subseteq tried

Succeeded == {completed[i].step : i \in {j \in DOMAIN completed : completed[j].ok}}

\* A rollback never goes forward: no step is compensated after one that came
\* before it ("Compensations run in reverse order when the workflow fails",
\* workflow.go).
NeverForward ==
    \A i, j \in DOMAIN rollback : i < j => rollback[i] >= rollback[j]

\* A rollback runs the compensations in the reverse order of the steps, each
\* of them once.
ReverseOrder == NeverForward /\ IsInjective(rollback)

\* A workflow reported as compensated has undone every step that succeeded
\* and has a compensation, and no workflow undoes a step that did not succeed.
RollbackExact ==
    /\ undone \subseteq Succeeded
    /\ state = "compensated" => Succeeded \cap hasComp \subseteq undone

\* Run alone moves the workflow forward, a rollback begins only once Run is
\* over, and a compensated workflow stays compensated.
Lifecycle ==
    [][state' # state =>
         \/ state = "pending" /\ state' = "running"
         \/ state = "running" /\ state' \in {"completed", "failed"}
         \/ state \in {"completed", "failed"} /\ state' = "compensating"
         \/ state = "compensating" /\ state' \in {"compensated", "failed"}]_vars

\* A workflow in the default mode that fails, cancelled or not, tries to undo
\* every step that succeeded.
FailureIsRolledBack ==
    \A s \in Steps :
      (mode = "on-failure" /\ state = "failed" /\ s \in Succeeded \cap hasComp)
        ~> s \in tried
=============================================================================

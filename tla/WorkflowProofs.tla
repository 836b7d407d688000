--------------------------- MODULE WorkflowProofs ---------------------------
(* Rollbacks are exact, for any steps, attempts and callers; and in reverse *)
(* order, the workflow's states in their order, as long as no two           *)
(* CompensateAll calls are under way together.                              *)
(*                                                                          *)
(* RollbackExact needs that the results a rollback copied stay the ones     *)
(* recorded: nobody runs the workflow forward while another takes it back   *)
(* (Control).  The other two need that one caller at most rolls back, and   *)
(* that the compensations begun are those of the results it has passed      *)
(* (Alone), each result standing at the place of its step (Records).        *)
EXTENDS Workflow, SequenceTheorems, TLAPS

Forward == {"loop", "handler", "backoff", "record", "fail", "succeed"}
Stepping == {"loop", "handler", "backoff", "record"}
Back == {"compensate", "undo"}

Entry == [step : Nat, ok : BOOLEAN]

Type ==
    /\ mode \in Mode /\ state \in States /\ step \in Nat /\ stepOk \in BOOLEAN
    /\ completed \in Seq(Entry)
    /\ pc \in [Callers -> Place]
    /\ snapshot \in [Callers -> Seq(Entry)]
    /\ pos \in [Callers -> Nat]
    /\ compOk \in [Callers -> BOOLEAN]

\* One goroutine at most runs the workflow forward, in state running, and
\* nobody takes it back meanwhile.
Control ==
    /\ \A r, s \in Runners : pc[r] \in Forward /\ pc[s] \in Forward => r = s
    /\ \A q \in Rollers : pc[q] \notin Forward
    /\ (\E r \in Runners : pc[r] \in Forward) <=> state = "running"
    /\ \A p \in Callers : pc[p] \in Back => state \notin {"pending", "running"}

\* The results stand at the places of their steps.
Records ==
    /\ state = "pending" => completed = <<>>
    /\ \A i \in 1..Len(completed) : completed[i].step = i
    /\ \A r \in Runners : pc[r] \in Stepping => step = Len(completed) + 1

Undone(i) == Undoable(completed[i]) => completed[i].step \in undone

\* A rollback works on what was recorded and, unless it has failed in part, has
\* undone what it has passed.
Rollbacks ==
    \A p \in Callers : pc[p] = "undo" =>
      /\ snapshot[p] = completed /\ pos[p] <= Len(completed)
      /\ compOk[p] => \A i \in (pos[p] + 1)..Len(completed) : Undone(i)

IInv == Type /\ Control /\ Records /\ Rollbacks /\ RollbackExact
-----------------------------------------------------------------------------
LEMMA InitIInv == ASSUME Init PROVE IInv
<1>1. completed = <<>> /\ Len(completed) = 0 /\ DOMAIN completed = {}
  BY DEF Init
<1>2. Type
  <2>1. completed \in Seq(Entry) /\ <<>> \in Seq(Entry)
    BY <1>1
  <2> QED BY <2>1 DEF Init, Type, States, Place
<1>3. \A p \in Callers : pc[p] = "idle"
  BY DEF Init
<1>4. Control /\ Rollbacks
  BY <1>3 DEF Init, Control, Rollbacks, Forward, Back, Callers
<1>5. Records
  BY <1>1, <1>3 DEF Init, Records, Stepping, Callers
<1>6. RollbackExact
  BY <1>1 DEF Init, RollbackExact, Succeeded
<1> QED BY <1>2, <1>4, <1>5, <1>6 DEF IInv

LEMMA TypeKeeps == ASSUME Type, Next PROVE Type'
<1> USE DEF Type, Goto, At
<1>1. ASSUME NEW r \in Runners, CallRun(r) PROVE Type'
  <2>1. CASE state = "pending"
    BY <1>1, <2>1 DEF CallRun, configVars, compVars, States, Place, Callers
  <2>2. CASE state # "pending"
    BY <1>1, <2>2 DEF CallRun, configVars, compVars, States, Place, Callers
  <2> QED BY <2>1, <2>2
<1>2. ASSUME NEW r \in Runners, BeginStep(r) PROVE Type'
  BY <1>2 DEF BeginStep, configVars, compVars, Place, Callers
<1>3. ASSUME NEW r \in Runners, NEW ok \in BOOLEAN, HandlerReturns(r, ok) PROVE Type'
  BY <1>3 DEF HandlerReturns, configVars, compVars, Place, Callers
<1>4. ASSUME NEW r \in Runners, BackoffElapses(r) \/ BackoffCancelled(r) PROVE Type'
  BY <1>4 DEF BackoffElapses, BackoffCancelled, configVars, compVars, runVars, Place, Callers
<1>5. ASSUME NEW r \in Runners, RecordStep(r) PROVE Type'
  <2>1. [step |-> step, ok |-> stepOk] \in Entry
    BY DEF Entry
  <2>2. completed' \in Seq(Entry)
    BY <1>5, <2>1, AppendProperties DEF RecordStep
  <2>3. CASE stepOk
    BY <1>5, <2>2, <2>3 DEF RecordStep, configVars, compVars, Place, Callers
  <2>4. CASE ~stepOk
    BY <1>5, <2>2, <2>4 DEF RecordStep, configVars, compVars, Place, Callers
  <2> QED BY <2>3, <2>4
<1>6. ASSUME NEW r \in Runners, Fail(r) \/ Succeed(r) PROVE Type'
  BY <1>6 DEF Fail, Succeed, configVars, compVars, runVars, Place, Callers, States
<1>7. ASSUME NEW p \in Callers, BeginCompensate(p) PROVE Type'
  BY <1>7, LenProperties DEF BeginCompensate, configVars, runVars, Place, States
<1>8. ASSUME NEW p \in Callers, SkipStep(p) PROVE Type'
  BY <1>8 DEF SkipStep, MoreToUndo, configVars, runVars
<1>9. ASSUME NEW p \in Callers, NEW ok \in BOOLEAN, UndoStep(p, ok) PROVE Type'
  <2> DEFINE both == compOk[p] /\ ok
  <2>1. compOk' = [compOk EXCEPT ![p] = both]
    BY <1>9, Zenon DEF UndoStep
  <2>2. both \in BOOLEAN
    BY Zenon
  <2>3. compOk' \in [Callers -> BOOLEAN]
    <3> HIDE DEF both
    <3> QED BY <2>1, <2>2
  <2>4. pos' \in [Callers -> Nat]
    BY <1>9 DEF UndoStep, MoreToUndo
  <2> QED BY <1>9, <2>3, <2>4 DEF UndoStep, configVars, runVars
<1>10. ASSUME NEW p \in Callers, EndCompensate(p) PROVE Type'
  BY <1>10 DEF EndCompensate, Verdict, configVars, runVars, compVars, Place, States
<1>11. ASSUME NEW q \in Rollers, CallCompensateAll(q) PROVE Type'
  BY <1>11 DEF CallCompensateAll, configVars, runVars, compVars, Place, Callers
<1>12. ASSUME Cancel PROVE Type'
  BY <1>12 DEF Cancel, configVars, runVars, compVars
<1> QED BY <1>1, <1>2, <1>3, <1>4, <1>5, <1>6, <1>7, <1>8, <1>9, <1>10, <1>11, <1>12
        DEF Next, Run, Compensate

(* Who runs and who rolls back. *)
LEMMA ControlKeeps == ASSUME Type, Control, Next PROVE Control'
<1> USE WorkflowAssumption DEF WorkflowAssumption, Type, Control, Goto, At, Callers
<1>1. ASSUME NEW r \in Runners, CallRun(r) PROVE Control'
  <2>1. CASE state = "pending"
    <3>1. \A s \in Callers : pc[s] \notin Forward /\ pc[s] \notin Back
      BY <2>1
    <3>2. state' = "running" /\ pc' = [pc EXCEPT ![r] = "loop"]
      BY <1>1, <2>1 DEF CallRun
    <3>3. \A s \in Callers \ {r} : pc'[s] = pc[s]
      BY <3>2
    <3>4. pc'[r] = "loop" /\ r \notin Rollers
      BY <3>2
    <3> QED BY <3>1, <3>2, <3>3, <3>4 DEF Forward, Back
  <2>2. CASE state # "pending"
    BY <1>1, <2>2 DEF CallRun, Forward, Back
  <2> QED BY <2>1, <2>2
<1>2. ASSUME NEW r \in Runners,
             BeginStep(r) \/ (\E ok \in BOOLEAN : HandlerReturns(r, ok))
             \/ BackoffElapses(r) \/ BackoffCancelled(r) \/ RecordStep(r)
      PROVE  Control'
  <2>1. pc[r] \in Forward /\ state' = state
    BY <1>2 DEF BeginStep, HandlerReturns, BackoffElapses, BackoffCancelled,
                RecordStep, Forward
  <2>2. PICK where \in Forward : pc' = [pc EXCEPT ![r] = where]
    BY <1>2 DEF BeginStep, HandlerReturns, BackoffElapses, BackoffCancelled,
                RecordStep, Forward
  <2>3. pc'[r] \in Forward /\ \A s \in Callers \ {r} : pc'[s] = pc[s]
    BY <2>2
  <2> QED BY <2>1, <2>3 DEF Forward, Back
<1>3. ASSUME NEW r \in Runners, Fail(r) \/ Succeed(r) PROVE Control'
  <2>1. pc[r] \in Forward /\ state' \in {"failed", "completed"}
    BY <1>3 DEF Fail, Succeed, Forward
  <2>2. PICK where \in {"compensate", "returned"} : pc' = [pc EXCEPT ![r] = where]
    BY <1>3 DEF Fail, Succeed
  <2>3. pc'[r] \notin Forward /\ \A s \in Callers \ {r} : pc'[s] = pc[s]
    BY <2>2 DEF Forward
  <2>4. \A s \in Callers : pc'[s] \notin Forward
    BY <2>1, <2>3
  <2> QED BY <2>1, <2>4
<1>4. ASSUME NEW p \in Callers, BeginCompensate(p) \/ EndCompensate(p) PROVE Control'
  <2>1. /\ pc[p] \in Back
        /\ state' \notin {"pending", "running"}
    BY <1>4 DEF BeginCompensate, EndCompensate, Verdict, Back
  <2>2. PICK where \in {"undo", "returned"} : pc' = [pc EXCEPT ![p] = where]
    BY <1>4 DEF BeginCompensate, EndCompensate
  <2>3. \A s \in Callers : pc[s] \notin Forward
    BY <2>1
  <2>4. pc'[p] \notin Forward /\ \A s \in Callers \ {p} : pc'[s] = pc[s]
    BY <2>2 DEF Forward
  <2> QED BY <2>1, <2>3, <2>4
<1>5. ASSUME NEW p \in Callers, SkipStep(p) \/ (\E ok \in BOOLEAN : UndoStep(p, ok))
      PROVE  Control'
  <2>1. pc' = pc /\ state' = state
    BY <1>5 DEF SkipStep, UndoStep
  <2> QED BY <2>1
<1>6. ASSUME NEW q \in Rollers, CallCompensateAll(q) PROVE Control'
  <2>1. state # "pending" /\ state' = state /\ \A r \in Runners : ~Busy(r)
    BY <1>6 DEF CallCompensateAll
  <2>2. \A r \in Runners : pc[r] \notin Forward
    BY <2>1 DEF Busy, Forward
  <2>3. PICK where \in {"returned", "compensate"} : pc' = [pc EXCEPT ![q] = where]
    BY <1>6 DEF CallCompensateAll
  <2>4. pc'[q] \notin Forward /\ \A s \in Callers \ {q} : pc'[s] = pc[s]
    BY <2>3 DEF Forward
  <2>5. state # "running"
    BY <2>2
  <2> QED BY <2>1, <2>2, <2>4, <2>5
<1>7. ASSUME Cancel PROVE Control'
  <2>1. pc' = pc /\ state' = state
    BY <1>7 DEF Cancel
  <2> QED BY <2>1
<1> QED BY <1>1, <1>2, <1>3, <1>4, <1>5, <1>6, <1>7 DEF Next, Run, Compensate

-----------------------------------------------------------------------------
(* What is recorded, and what a rollback has done. *)
LEMMA RecordsKeep == ASSUME Type, Control, Records, Next PROVE Records'
<1> USE DEF Type, Records, Goto, At, Callers
<1>0. Len(completed) \in Nat /\ (state # "pending" \/ Len(completed) = 0)
  BY LenProperties
<1>1. ASSUME NEW r \in Runners, CallRun(r) PROVE Records'
  <2>1. CASE state = "pending"
    <3>1. /\ completed' = completed /\ step' = 1 /\ state' = "running"
          /\ pc' = [pc EXCEPT ![r] = "loop"]
      BY <1>1, <2>1 DEF CallRun
    <3> QED BY <1>0, <2>1, <3>1
  <2>2. CASE state # "pending"
    BY <1>1, <2>2 DEF CallRun, Stepping
  <2> QED BY <2>1, <2>2
<1>2. ASSUME NEW r \in Runners,
             BeginStep(r) \/ (\E ok \in BOOLEAN : HandlerReturns(r, ok))
             \/ BackoffElapses(r) \/ BackoffCancelled(r) \/ Fail(r) \/ Succeed(r)
      PROVE  Records'
  <2>1. /\ completed' = completed /\ step' = step
        /\ state' = "pending" => state = "pending"
    BY <1>2 DEF BeginStep, HandlerReturns, BackoffElapses, BackoffCancelled,
                Fail, Succeed, runVars
  <2>2. PICK where \in Place : /\ pc' = [pc EXCEPT ![r] = where]
                               /\ where \in Stepping => pc[r] \in Stepping
    BY <1>2 DEF BeginStep, HandlerReturns, BackoffElapses, BackoffCancelled,
                Fail, Succeed, Place, Stepping
  <2>3. pc'[r] = where /\ \A s \in Runners \ {r} : pc'[s] = pc[s]
    BY <2>2
  <2>4. \A s \in Runners : pc'[s] \in Stepping => pc[s] \in Stepping
    BY <2>2, <2>3
  <2> QED BY <2>1, <2>4
<1>3. ASSUME NEW r \in Runners, RecordStep(r) PROVE Records'
  <2> DEFINE result == [step |-> step, ok |-> stepOk]
  <2>1. pc[r] = "record" /\ step = Len(completed) + 1 /\ state = "running"
    BY <1>3 DEF RecordStep, Stepping, Control, Forward
  <2>2. result \in Entry /\ result.step = step
    BY DEF Entry
  <2>3. completed' = Append(completed, result) /\ state' = state
    BY <1>3 DEF RecordStep
  <2>4. Len(completed') = Len(completed) + 1 /\ completed'[step] = result
        /\ \A i \in 1..Len(completed) : completed'[i] = completed[i]
    BY <2>1, <2>2, <2>3, AppendProperties
  <2>5. \A i \in 1..Len(completed') : completed'[i].step = i
    BY <1>0, <2>1, <2>2, <2>4
  <2>6. ASSUME NEW s \in Runners, pc'[s] \in Stepping
        PROVE  step' = Len(completed') + 1
    <3>1. s = r
      <4>1. CASE s # r
        <5>1. pc'[s] = pc[s]
          BY <1>3, <4>1 DEF RecordStep
        <5> QED BY <2>1, <2>6, <5>1 DEF Control, Stepping, Forward
      <4> QED BY <4>1
    <3>2. stepOk
      BY <1>3, <2>6, <3>1 DEF RecordStep, Stepping
    <3> QED BY <1>3, <2>1, <2>4, <3>2 DEF RecordStep
  <2> QED BY <2>1, <2>3, <2>5, <2>6
<1>4. ASSUME NEW p \in Callers, Compensate(p) PROVE Records'
  <2>1. /\ completed' = completed /\ step' = step
        /\ state' = "pending" => state = "pending"
    BY <1>4 DEF Compensate, BeginCompensate, EndCompensate, SkipStep, UndoStep,
                Verdict, runVars
  <2>2. \A s \in Runners : pc'[s] \in Stepping => pc[s] \in Stepping
    BY <1>4 DEF Compensate, BeginCompensate, EndCompensate, SkipStep, UndoStep, Stepping
  <2> QED BY <2>1, <2>2
<1>5. ASSUME NEW q \in Rollers, CallCompensateAll(q) PROVE Records'
  <2>1. completed' = completed /\ step' = step /\ state' = state
    BY <1>5 DEF CallCompensateAll, runVars
  <2>2. \A s \in Runners : pc'[s] \in Stepping => pc[s] \in Stepping
    BY <1>5 DEF CallCompensateAll, Stepping
  <2> QED BY <2>1, <2>2
<1>6. ASSUME Cancel PROVE Records'
  BY <1>6 DEF Cancel, runVars
<1> QED BY <1>1, <1>2, <1>3, <1>4, <1>5, <1>6 DEF Next, Run

\* Steps that touch neither the results nor a rollback.
LEMMA Aside ==
  ASSUME Type,
         completed' = completed, compVars' = compVars, undone' = undone,
         configVars' = configVars, state' = "compensated" => state = "compensated",
         \A p \in Callers : pc'[p] = "undo" => pc[p] = "undo",
         Rollbacks, RollbackExact
  PROVE  Rollbacks' /\ RollbackExact'
<1>1. Rollbacks'
  BY DEF Rollbacks, Undone, Undoable, compVars, configVars
<1>2. RollbackExact'
  BY DEF RollbackExact, Succeeded, configVars
<1> QED BY <1>1, <1>2

LEMMA RollbacksKeep ==
  ASSUME Type, Control, Rollbacks, RollbackExact, Next
  PROVE  Rollbacks' /\ RollbackExact'
<1> USE DEF Type, Goto, At, Callers
<1>1. ASSUME NEW r \in Runners,
             CallRun(r) \/ BeginStep(r) \/ (\E ok \in BOOLEAN : HandlerReturns(r, ok))
             \/ BackoffElapses(r) \/ BackoffCancelled(r) \/ Fail(r) \/ Succeed(r)
      PROVE  Rollbacks' /\ RollbackExact'
  <2>1. /\ completed' = completed /\ compVars' = compVars /\ undone' = undone
        /\ configVars' = configVars
        /\ state' = "compensated" => state = "compensated"
    BY <1>1 DEF CallRun, BeginStep, HandlerReturns, BackoffElapses, BackoffCancelled,
                Fail, Succeed, histVars
  <2>2. \A p \in Callers : pc'[p] = "undo" => pc[p] = "undo"
    BY <1>1 DEF CallRun, BeginStep, HandlerReturns, BackoffElapses, BackoffCancelled,
                Fail, Succeed
  <2> QED BY <2>1, <2>2, Aside
<1>2. ASSUME NEW q \in Rollers, CallCompensateAll(q) PROVE Rollbacks' /\ RollbackExact'
  <2>1. /\ completed' = completed /\ compVars' = compVars /\ undone' = undone
        /\ configVars' = configVars /\ state' = state
    BY <1>2 DEF CallCompensateAll, histVars
  <2>2. \A p \in Callers : pc'[p] = "undo" => pc[p] = "undo"
    BY <1>2 DEF CallCompensateAll
  <2> QED BY <2>1, <2>2, Aside
<1>3. ASSUME Cancel PROVE Rollbacks' /\ RollbackExact'
  BY <1>3, Aside DEF Cancel, histVars
<1>4. ASSUME NEW r \in Runners, RecordStep(r) PROVE Rollbacks' /\ RollbackExact'
  <2> DEFINE result == [step |-> step, ok |-> stepOk]
  <2>1. /\ state = "running" /\ state' = state /\ undone' = undone
        /\ completed' = Append(completed, result)
    BY <1>4 DEF RecordStep, Control, Forward, histVars
  <2>2. \A p \in Callers : pc[p] # "undo" /\ pc'[p] # "undo"
    BY <1>4, <2>1 DEF RecordStep, Control, Back
  <2>3. result \in Entry
    BY DEF Entry
  <2>4. /\ Len(completed') = Len(completed) + 1 /\ Len(completed) \in Nat
        /\ DOMAIN completed = 1..Len(completed) /\ DOMAIN completed' = 1..Len(completed')
        /\ \A i \in 1..Len(completed) : completed'[i] = completed[i]
    BY <2>1, <2>3, AppendProperties, LenProperties
  <2>5. Succeeded \subseteq Succeeded'
    BY <2>4 DEF Succeeded
  <2>6. RollbackExact'
    BY <2>1, <2>5 DEF RollbackExact
  <2> QED BY <2>2, <2>6 DEF Rollbacks
<1>5. ASSUME NEW p \in Callers, BeginCompensate(p) PROVE Rollbacks' /\ RollbackExact'
  <2>1. /\ completed' = completed /\ undone' = undone /\ hasComp' = hasComp
        /\ state' = "compensating" /\ pc' = [pc EXCEPT ![p] = "undo"]
        /\ snapshot' = [snapshot EXCEPT ![p] = completed]
        /\ pos' = [pos EXCEPT ![p] = Len(completed)]
        /\ compOk' = [compOk EXCEPT ![p] = TRUE]
    BY <1>5 DEF BeginCompensate, histVars, configVars
  <2>2. Len(completed) \in Nat
    BY LenProperties
  <2>3. \A i : Undone(i)' <=> Undone(i)
    BY <2>1 DEF Undone, Undoable
  <2>4. Rollbacks'
    BY <2>1, <2>2, <2>3 DEF Rollbacks
  <2>5. RollbackExact'
    BY <2>1 DEF RollbackExact, Succeeded
  <2> QED BY <2>4, <2>5
<1>6. ASSUME NEW p \in Callers, SkipStep(p) PROVE Rollbacks' /\ RollbackExact'
  <2>1. /\ completed' = completed /\ undone' = undone /\ hasComp' = hasComp
        /\ state' = state /\ pc' = pc /\ snapshot' = snapshot /\ compOk' = compOk
        /\ pos' = [pos EXCEPT ![p] = @ - 1]
        /\ pc[p] = "undo" /\ pos[p] > 0 /\ ~Undoable(snapshot[p][pos[p]])
    BY <1>6 DEF SkipStep, histVars, configVars, MoreToUndo, ToUndo
  <2>2. \A i : Undone(i)' <=> Undone(i)
    BY <2>1 DEF Undone, Undoable
  <2>3. Undone(pos[p]) /\ pos[p] \in Nat /\ pos'[p] = pos[p] - 1
    BY <2>1 DEF Undone, Rollbacks
  <2>4. Len(completed) \in Nat
    BY LenProperties
  <2>5. Rollbacks'
    BY <2>1, <2>2, <2>3, <2>4 DEF Rollbacks
  <2>6. RollbackExact'
    BY <2>1 DEF RollbackExact, Succeeded
  <2> QED BY <2>5, <2>6
<1>7. ASSUME NEW p \in Callers, NEW ok \in BOOLEAN, UndoStep(p, ok)
      PROVE  Rollbacks' /\ RollbackExact'
  <2> DEFINE both == compOk[p] /\ ok
             result == completed[pos[p]]
  <2>1. /\ completed' = completed /\ hasComp' = hasComp
        /\ state' = state /\ pc' = pc /\ snapshot' = snapshot
        /\ pos' = [pos EXCEPT ![p] = @ - 1]
        /\ pc[p] = "undo" /\ pos[p] > 0
    BY <1>7 DEF UndoStep, configVars, MoreToUndo
  <2>2. snapshot[p] = completed /\ pos[p] <= Len(completed) /\ pos[p] \in Nat
        /\ Len(completed) \in Nat /\ DOMAIN completed = 1..Len(completed)
    BY <2>1, LenProperties DEF Rollbacks
  <2>3. /\ Undoable(result) /\ undone' = (IF ok THEN undone \cup {result.step} ELSE undone)
    BY <1>7, <2>2 DEF UndoStep, ToUndo
  <2>4. compOk' = [compOk EXCEPT ![p] = both]
    BY <1>7, Zenon DEF UndoStep
  <2>5. compOk'[p] = both /\ \A s \in Callers \ {p} : compOk'[s] = compOk[s]
    <3> HIDE DEF both
    <3> QED BY <2>4
  <2>6. compOk'[p] => compOk[p] /\ ok
    BY <2>5, Zenon
  <2>7. \A i : Undone(i) => Undone(i)'
    BY <2>1, <2>3 DEF Undone, Undoable
  <2>8. \A i : ok /\ i = pos[p] => Undone(i)'
    BY <2>1, <2>3 DEF Undone, Undoable
  <2>9. Rollbacks'
    <3> SUFFICES ASSUME NEW s \in Callers, pc'[s] = "undo"
        PROVE  /\ snapshot'[s] = completed' /\ pos'[s] <= Len(completed')
               /\ compOk'[s] => \A i \in (pos'[s] + 1)..Len(completed') : Undone(i)'
      BY DEF Rollbacks
    <3>1. CASE s = p
      <4>1. pos'[p] = pos[p] - 1 /\ snapshot'[p] = completed'
        BY <2>1, <2>2
      <4>2. ASSUME compOk'[p], NEW i \in (pos'[p] + 1)..Len(completed') PROVE Undone(i)'
        <5>1. i = pos[p] \/ i \in (pos[p] + 1)..Len(completed)
          BY <2>1, <2>2, <4>1
        <5> QED BY <2>1, <2>6, <2>7, <2>8, <4>2, <5>1 DEF Rollbacks
      <4> QED BY <2>1, <2>2, <3>1, <4>1, <4>2
    <3>2. CASE s # p
      BY <2>1, <2>5, <2>7, <3>2 DEF Rollbacks
    <3> QED BY <3>1, <3>2
  <2>10. result.step \in Succeeded /\ Succeeded' = Succeeded
    BY <2>1, <2>2, <2>3 DEF Undoable, Succeeded
  <2>11. RollbackExact'
    BY <2>1, <2>3, <2>10 DEF RollbackExact
  <2> QED BY <2>9, <2>11
<1>8. ASSUME NEW p \in Callers, EndCompensate(p) PROVE Rollbacks' /\ RollbackExact'
  <2>1. /\ completed' = completed /\ undone' = undone /\ hasComp' = hasComp
        /\ pc' = [pc EXCEPT ![p] = "returned"] /\ compVars' = compVars
        /\ pc[p] = "undo" /\ ~(pos[p] > 0) /\ state' = Verdict(p)
    BY <1>8 DEF EndCompensate, configVars, MoreToUndo
  <2>2. \A i : Undone(i)' <=> Undone(i)
    BY <2>1 DEF Undone, Undoable
  <2>3. Rollbacks'
    BY <2>1, <2>2 DEF Rollbacks, compVars
  <2>4. ASSUME state' = "compensated" PROVE Succeeded \cap hasComp \subseteq undone
    <3>1. compOk[p] /\ pos[p] = 0
      BY <2>1, <2>4 DEF Verdict
    <3>2. \A i \in 1..Len(completed) : Undone(i)
      BY <2>1, <3>1 DEF Rollbacks
    <3>3. DOMAIN completed = 1..Len(completed)
      BY LenProperties
    <3> QED BY <3>2, <3>3 DEF Succeeded, Undone, Undoable
  <2>5. RollbackExact'
    BY <2>1, <2>4 DEF RollbackExact, Succeeded
  <2> QED BY <2>3, <2>5
<1> QED BY <1>1, <1>2, <1>3, <1>4, <1>5, <1>6, <1>7, <1>8 DEF Next, Run, Compensate
-----------------------------------------------------------------------------
LEMMA Induction == Spec => []IInv
<1>1. Init => IInv
  BY InitIInv
<1>2. IInv /\ [Next]_vars => IInv'
  <2> SUFFICES ASSUME IInv, [Next]_vars PROVE IInv'
    OBVIOUS
  <2>1. CASE Next
    BY <2>1, TypeKeeps, ControlKeeps, RecordsKeep, RollbacksKeep DEF IInv
  <2>2. CASE UNCHANGED vars
    <3> USE <2>2 DEF IInv, vars, configVars, runVars, compVars, histVars
    <3>1. Type' /\ Control'
      BY DEF Type, Control
    <3>2. Records' /\ Rollbacks'
      BY DEF Records, Rollbacks, Undone, Undoable
    <3>3. RollbackExact'
      BY DEF RollbackExact, Succeeded
    <3> QED BY <3>1, <3>2, <3>3
  <2> QED BY <2>1, <2>2
<1> QED BY <1>1, <1>2, PTL DEF Spec

\* A workflow reported as compensated has undone every step that succeeded and
\* has a compensation, and nothing else is undone, whoever rolls back together
\* (compensate and CompensateAll of workflow.go).
THEOREM Rollback == Spec => []RollbackExact
<1>1. IInv => RollbackExact
  BY DEF IInv
<1> QED BY <1>1, Induction, PTL
-----------------------------------------------------------------------------
(* One rollback at a time. *)

\* Nobody compensates beside another; the compensations begun are of steps
\* after the one the rollback stands at, the latest step first.
Alone ==
    /\ rollback \in Seq(Nat)
    /\ \A p, q \in Callers : pc[p] \in Back /\ pc[q] \in Back => p = q
    /\ \A p \in Callers : pc[p] = "compensate" => state \in {"completed", "failed"}
    /\ \A p \in Callers : pc[p] = "undo" => state = "compensating"
    /\ state # "compensating" => rollback = <<>>
    /\ \A p \in Callers : pc[p] = "undo" =>
         \A i \in 1..Len(rollback) : rollback[i] > pos[p]
    /\ \A i, j \in 1..Len(rollback) : i < j => rollback[i] > rollback[j]

LEMMA InitAlone == ASSUME Init PROVE Alone
<1>1. rollback = <<>> /\ rollback \in Seq(Nat) /\ Len(rollback) = 0
  BY DEF Init
<1> QED BY <1>1 DEF Init, Alone, Back

\* Who goes forward finds nobody rolling back.
LEMMA NobodyBack ==
  ASSUME IInv, Alone, state \in {"pending", "running"}
  PROVE  rollback = <<>> /\ \A p \in Callers : pc[p] \notin Back
BY DEF IInv, Control, Alone

LEMMA AloneKeeps == ASSUME ~Overlap, IInv, Alone, Next PROVE Alone'
<1> USE DEF Goto, At, Callers
<1>0. Type /\ Control /\ Records /\ Rollbacks
  BY DEF IInv
<1>1. ASSUME NEW r \in Runners, CallRun(r) \/ Run(r) PROVE Alone'
  <2>1. CASE state' = state /\ pc' = [pc EXCEPT ![r] = "returned"] /\ pc[r] = "idle"
    <3>1. rollback' = rollback /\ pos' = pos
      BY <1>1 DEF CallRun, Run, BeginStep, HandlerReturns, BackoffElapses,
                  BackoffCancelled, RecordStep, Fail, Succeed, histVars, compVars
    <3>2. \A p \in Callers : pc'[p] \in Back => pc'[p] = pc[p]
      BY <1>0, <2>1 DEF Type, Back
    <3> QED BY <2>1, <3>1, <3>2 DEF Alone, Back
  <2>2. CASE state \in {"pending", "running"}
    <3>1. rollback = <<>> /\ \A p \in Callers : pc[p] \notin Back
      BY <2>2, NobodyBack
    <3>2. rollback' = rollback /\ Len(rollback) = 0
      BY <1>1, <3>1 DEF CallRun, Run, BeginStep, HandlerReturns, BackoffElapses,
                  BackoffCancelled, RecordStep, Fail, Succeed, histVars
    <3>3. \A p \in Callers : pc'[p] # "undo" /\ (p # r => pc'[p] \notin Back)
      BY <1>0, <1>1, <3>1 DEF Type, Back, CallRun, Run, BeginStep, HandlerReturns,
                  BackoffElapses, BackoffCancelled, RecordStep, Fail, Succeed
    <3>4. pc'[r] = "compensate" => state' \in {"completed", "failed"}
      BY <1>0, <1>1, <3>1 DEF Type, Back, CallRun, Run, BeginStep, HandlerReturns,
                  BackoffElapses, BackoffCancelled, RecordStep, Fail, Succeed
    <3> QED BY <3>1, <3>2, <3>3, <3>4 DEF Alone, Back
  <2>3. state \in {"pending", "running"}
        \/ (state' = state /\ pc' = [pc EXCEPT ![r] = "returned"] /\ pc[r] = "idle")
    <3>1. CASE CallRun(r)
      BY <3>1 DEF CallRun
    <3>2. CASE Run(r)
      <4>1. pc[r] \in Forward
        BY <3>2 DEF Run, BeginStep, HandlerReturns, BackoffElapses,
                    BackoffCancelled, RecordStep, Fail, Succeed, Forward
      <4> QED BY <1>0, <4>1 DEF Control
    <3> QED BY <1>1, <3>1, <3>2
  <2> QED BY <2>1, <2>2, <2>3
<1>2. ASSUME NEW p \in Callers, BeginCompensate(p) PROVE Alone'
  <2>1. /\ pc[p] = "compensate" /\ pc' = [pc EXCEPT ![p] = "undo"]
        /\ state' = "compensating" /\ rollback' = rollback
    BY <1>2 DEF BeginCompensate, histVars
  <2>2. rollback = <<>> /\ Len(rollback) = 0
    BY <2>1 DEF Alone
  <2>3. \A q \in Callers : pc'[q] \in Back => q = p
    BY <1>0, <2>1 DEF Type, Alone, Back
  <2>4. pc'[p] = "undo"
    BY <1>0, <2>1 DEF Type
  <2> QED BY <2>1, <2>2, <2>3, <2>4 DEF Alone, Back
<1>3. ASSUME NEW p \in Callers, SkipStep(p) PROVE Alone'
  <2>1. /\ pc' = pc /\ state' = state /\ rollback' = rollback
        /\ pos' = [pos EXCEPT ![p] = @ - 1] /\ pos[p] \in Nat /\ pos \in [Callers -> Nat]
    BY <1>0, <1>3 DEF SkipStep, histVars, Type
  <2>2. \A q \in Callers : pos'[q] = pos[q] \/ pos'[q] = pos[q] - 1
    BY <2>1
  <2>3. \A i \in 1..Len(rollback) : rollback[i] \in Nat
    BY DEF Alone
  <2>4. \A q \in Callers : pc'[q] = "undo" =>
          \A i \in 1..Len(rollback') : rollback'[i] > pos'[q]
    BY <1>0, <2>1, <2>2, <2>3 DEF Alone, Type
  <2> QED BY <2>1, <2>4 DEF Alone
<1>4. ASSUME NEW p \in Callers, NEW ok \in BOOLEAN, UndoStep(p, ok) PROVE Alone'
  <2> DEFINE here == pos[p]
  <2>1. /\ pc' = pc /\ state' = state /\ pc[p] = "undo"
        /\ pos' = [pos EXCEPT ![p] = @ - 1] /\ here > 0
        /\ rollback' = Append(rollback, snapshot[p][here].step)
    BY <1>4 DEF UndoStep, MoreToUndo, ToUndo
  <2>2. here \in 1..Len(completed) /\ snapshot[p] = completed /\ here \in Nat
    BY <1>0, <2>1, LenProperties DEF Type, Rollbacks
  <2>3. rollback' = Append(rollback, here)
    BY <1>0, <2>1, <2>2 DEF Records
  <2>4. /\ rollback' \in Seq(Nat) /\ Len(rollback') = Len(rollback) + 1
        /\ Len(rollback) \in Nat /\ rollback'[Len(rollback) + 1] = here
        /\ \A i \in 1..Len(rollback) : rollback'[i] = rollback[i] /\ rollback[i] \in Nat
    BY <2>2, <2>3, AppendProperties, LenProperties DEF Alone
  <2>5. \A i \in 1..Len(rollback) : rollback[i] > here
    BY <2>1 DEF Alone
  <2>6. pos'[p] = here - 1
    BY <1>0, <2>1 DEF Type
  <2>7. \A i \in 1..Len(rollback') : rollback'[i] > here - 1
    BY <2>2, <2>4, <2>5
  <2>8. \A q \in Callers : pc'[q] = "undo" => q = p
    BY <2>1 DEF Alone, Back
  <2>9. \A i, j \in 1..Len(rollback') : i < j => rollback'[i] > rollback'[j]
    <3> SUFFICES ASSUME NEW i \in 1..Len(rollback'), NEW j \in 1..Len(rollback'), i < j
                 PROVE  rollback'[i] > rollback'[j]
      OBVIOUS
    <3>1. i \in 1..Len(rollback)
      BY <2>4
    <3>2. CASE j = Len(rollback) + 1
      BY <2>4, <2>5, <3>1, <3>2
    <3>3. CASE j # Len(rollback) + 1
      <4>1. j \in 1..Len(rollback)
        BY <2>4, <3>3
      <4>2. rollback[i] > rollback[j]
        BY <3>1, <4>1 DEF Alone
      <4> QED BY <2>4, <3>1, <4>1, <4>2
    <3> QED BY <3>2, <3>3
  <2>10. state = "compensating"
    BY <2>1 DEF Alone
  <2>11. \A q \in Callers : pc'[q] = "undo" =>
           \A i \in 1..Len(rollback') : rollback'[i] > pos'[q]
    BY <2>6, <2>7, <2>8
  <2> QED BY <2>1, <2>4, <2>9, <2>10, <2>11 DEF Alone
<1>5. ASSUME NEW p \in Callers, EndCompensate(p) PROVE Alone'
  <2>1. /\ pc[p] = "undo" /\ pc' = [pc EXCEPT ![p] = "returned"]
        /\ rollback' = <<>> /\ state' # "compensating"
    BY <1>5 DEF EndCompensate, Verdict
  <2>2. \A q \in Callers : pc'[q] \notin Back
    BY <1>0, <2>1 DEF Type, Alone, Back
  <2>3. rollback' \in Seq(Nat) /\ Len(rollback') = 0
    BY <2>1
  <2> QED BY <2>1, <2>2, <2>3 DEF Alone, Back
<1>6. ASSUME NEW q \in Rollers, CallCompensateAll(q) PROVE Alone'
  <2>1. /\ \A p \in Callers : ~Busy(p)
        /\ state # "pending" /\ state' = state /\ rollback' = rollback
        /\ pc' = [pc EXCEPT ![q] = IF AlreadyUndone THEN "returned" ELSE "compensate"]
    BY <1>6 DEF CallCompensateAll, histVars
  <2>2. \A p \in Callers : pc[p] \notin Back /\ pc[p] \notin Forward
    BY <2>1 DEF Busy, Back, Forward
  <2>3. \A p \in Callers : pc'[p] # "undo" /\ (p # q => pc'[p] \notin Back)
    BY <1>0, <2>1, <2>2 DEF Type, Back
  <2>4. state # "running"
    BY <1>0, <2>2 DEF Control
  <2>5. pc'[q] = "compensate" => state \in {"completed", "failed"}
    BY <1>0, <2>1, <2>4 DEF Type, States, AlreadyUndone
  <2> QED BY <2>1, <2>3, <2>5 DEF Alone, Back
<1>7. ASSUME Cancel PROVE Alone'
  BY <1>7 DEF Cancel, Alone, histVars, compVars
<1> QED BY <1>1, <1>2, <1>3, <1>4, <1>5, <1>6, <1>7 DEF Next, Compensate

LEMMA AloneAlways == ASSUME ~Overlap PROVE Spec => [](IInv /\ Alone)
<1>1. Init => Alone
  BY InitAlone
<1>2. IInv /\ Alone /\ [Next]_vars => Alone'
  <2>1. ASSUME IInv, Alone, UNCHANGED vars PROVE Alone'
    BY <2>1 DEF Alone, vars, compVars, histVars
  <2> QED BY <2>1, AloneKeeps
<1> QED BY <1>1, <1>2, Induction, PTL DEF Spec

\* A rollback runs the compensations in the reverse order of the steps, each of
\* them once, as long as CompensateAll calls do not overlap (compensate's loop).
THEOREM InReverse == ASSUME ~Overlap PROVE Spec => []ReverseOrder
<1>1. ASSUME Alone PROVE ReverseOrder
  <2>1. DOMAIN rollback = 1..Len(rollback) /\ Len(rollback) \in Nat
        /\ \A i \in 1..Len(rollback) : rollback[i] \in Nat
    BY <1>1, LenProperties DEF Alone
  <2>2. NeverForward
    BY <1>1, <2>1 DEF NeverForward, Alone
  <2>3. IsInjective(rollback)
    <3> SUFFICES ASSUME NEW i \in 1..Len(rollback), NEW j \in 1..Len(rollback),
                        rollback[i] = rollback[j]
                 PROVE  i = j
      BY <2>1 DEF IsInjective
    <3>1. ~(i < j) /\ ~(j < i)
      BY <1>1, <2>1 DEF Alone
    <3> QED BY <3>1
  <2> QED BY <2>2, <2>3 DEF ReverseOrder
<1> QED BY <1>1, AloneAlways, PTL

\* The states of a workflow follow each other as documented on State: Run alone
\* moves it forward, a rollback begins only once Run is over, a compensated
\* workflow stays compensated.
THEOREM StatesInOrder == ASSUME ~Overlap PROVE Spec => Lifecycle
<1> DEFINE InOrder ==
         \/ state = "pending" /\ state' = "running"
         \/ state = "running" /\ state' \in {"completed", "failed"}
         \/ state \in {"completed", "failed"} /\ state' = "compensating"
         \/ state = "compensating" /\ state' \in {"compensated", "failed"}
<1>1. ASSUME IInv, Alone, [Next]_vars PROVE state' # state => InOrder
  <2> SUFFICES ASSUME state' # state PROVE InOrder
    OBVIOUS
  <2> USE DEF At, Callers
  <2>1. Next
    BY <1>1 DEF vars
  <2>2. ASSUME NEW r \in Runners, CallRun(r) PROVE InOrder
    BY <2>2 DEF CallRun
  <2>3. ASSUME NEW r \in Runners, Run(r) PROVE InOrder
    <3>1. Fail(r) \/ Succeed(r)
      BY <2>3 DEF Run, BeginStep, HandlerReturns, BackoffElapses, BackoffCancelled,
                  RecordStep
    <3>2. pc[r] \in Forward /\ state' \in {"failed", "completed"}
      BY <3>1 DEF Fail, Succeed, Forward
    <3>3. state = "running"
      BY <1>1, <3>2 DEF IInv, Control
    <3> QED BY <3>2, <3>3
  <2>4. ASSUME NEW p \in Callers, Compensate(p) PROVE InOrder
    <3>1. BeginCompensate(p) \/ EndCompensate(p)
      BY <2>4 DEF Compensate, SkipStep, UndoStep
    <3>2. CASE BeginCompensate(p)
      BY <1>1, <3>2 DEF BeginCompensate, Alone
    <3>3. CASE EndCompensate(p)
      BY <1>1, <3>3 DEF EndCompensate, Verdict, Alone
    <3> QED BY <3>1, <3>2, <3>3
  <2> QED BY <2>1, <2>2, <2>3, <2>4 DEF Next, CallCompensateAll, Cancel
<1>2. IInv /\ Alone /\ [Next]_vars => [state' # state => InOrder]_vars
  BY <1>1
<1>3. Spec => [][state' # state => InOrder]_vars
  <2> HIDE DEF InOrder
  <2> QED BY <1>2, AloneAlways, PTL DEF Spec
<1> QED BY <1>3 DEF Lifecycle
=============================================================================

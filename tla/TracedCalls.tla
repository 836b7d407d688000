---------------------------- MODULE TracedCalls ----------------------------
(* Functions that run inside a span of their own, and nest: Trace,          *)
(* TraceNoError and TraceFunc (tracer.go, functional.go), database.Trace,   *)
(* database.WithTransaction and genai.Trace.  One goroutine makes the       *)
(* calls; the context they share may end at any moment, and database/sql    *)
(* then rolls open transactions back on a goroutine of its own.             *)
EXTENDS Integers, Sequences

CONSTANTS MaxCalls      \* bound: the calls made

ASSUME CallsAssumption == MaxCalls \in Nat

VARIABLES
    calls,          \* in the order they began
    leaving,        \* how the innermost function has just left, or "runs"
    ctxEnded        \* the context has been cancelled or is past its deadline

callVars == <<calls, leaving, ctxEnded>>

\* Definitions named Faulty... are variants that no action uses: each breaks a
\* property when it takes the place of the definition it stands beside.

Kinds == {"Trace", "TraceNoError", "TraceFunc", "database", "genai", "transaction"}

\* span: "open", "ended" or "failed", ended with an error status.  how: the way
\* its function left.  tx: of a transaction, "none" before it has begun, and
\* byFn whether its function settled it, which is handed the *sql.Tx.
Call(kind) == [kind |-> kind, span |-> "open", how |-> "runs", tx |-> "none",
               byFn |-> FALSE, outcome |-> "none"]

CallsInit == calls = <<>> /\ leaving = "runs" /\ ctxEnded = FALSE

\* The calls under way nest: the innermost is the last to have begun.
Open == {i \in DOMAIN calls : calls[i].span = "open"}
Innermost(i) == i \in Open /\ \A j \in Open : j <= i

\* A panic and runtime.Goexit go on to the caller; after a return it runs.
Unwinding(how) == how \in {"panic", "goexit"}
Onward(how) == IF Unwinding(how) THEN how ELSE "runs"
Marked(failed) == IF failed THEN "failed" ELSE "ended"

\* The wrapper ends the span of call i, and its caller goes on as after how.
End(i, failed, how) ==
    /\ calls' = [calls EXCEPT ![i].span = Marked(failed), ![i].how = leaving]
    /\ leaving' = Onward(how)
    /\ UNCHANGED ctxEnded
-----------------------------------------------------------------------------
(* The application *)

\* A call from the function that runs.  A transaction begins, or fails to; it
\* always fails on a context that has ended.
Enter(kind) ==
    /\ leaving = "runs" /\ Len(calls) < MaxCalls
    /\ IF kind = "transaction"
       THEN \/ /\ ~ctxEnded
               /\ calls' = Append(calls, [Call(kind) EXCEPT !.tx = "open"])
            \/ calls' = Append(calls, [Call(kind) EXCEPT !.span = "failed", !.how = "error"])
       ELSE calls' = Append(calls, Call(kind))
    /\ UNCHANGED <<leaving, ctxEnded>>

\* "fine" is a nil error; "value", of TraceFunc, a last result that has none.
Leaves(how) ==
    /\ leaving = "runs"
    /\ \E i \in Open : /\ Innermost(i)
                      /\ (how = "error" => calls[i].kind # "TraceNoError")
                      /\ (how = "value" => calls[i].kind = "TraceFunc")
    /\ leaving' = how
    /\ UNCHANGED <<calls, ctxEnded>>

\* A deferred recover of the function that runs, or of the goroutine's own
\* when none does; Goexit ends the goroutine, and another one makes the next call.
Recovers(how) ==
    /\ leaving = "panic"
    /\ \E i \in Open : /\ Innermost(i)
                      /\ (how = "error" => calls[i].kind # "TraceNoError")
    /\ leaving' = how
    /\ UNCHANGED <<calls, ctxEnded>>
StartsAgain ==
    /\ Unwinding(leaving) /\ Open = {}
    /\ leaving' = "runs"
    /\ UNCHANGED <<calls, ctxEnded>>

\* tx.Commit and tx.Rollback by the function that was handed tx, or by one it
\* calls.  They do nothing where the transaction is done, nor a Commit once the
\* context has ended; a driver that fails a Commit leaves open what it did.
SettlesItself(i) ==
    /\ leaving = "runs" /\ calls[i].span = "open" /\ calls[i].tx = "open"
    /\ \E tx \in {"rolled back"} \cup (IF ctxEnded THEN {} ELSE {"committed", "in doubt"}) :
          calls' = [calls EXCEPT ![i].tx = tx, ![i].byFn = TRUE]
    /\ UNCHANGED <<leaving, ctxEnded>>

EndContext == ~ctxEnded /\ ctxEnded' = TRUE /\ UNCHANGED <<calls, leaving>>
-----------------------------------------------------------------------------
(* tracer.go, functional.go: an error is recorded; whatever else ends the   *)
(* function ends the span as it is.                                         *)

TraceEnds(i) ==
    /\ calls[i].kind \in {"Trace", "TraceNoError"}
    /\ End(i, leaving = "error", leaving)

\* The last result is asked whether it is nil; one that cannot be panics.
TraceFuncEnds(i) ==
    /\ calls[i].kind = "TraceFunc"
    /\ End(i, leaving = "error", IF leaving = "value" THEN "panic" ELSE leaving)
-----------------------------------------------------------------------------
(* database.go, genai.go: a flag that is set once the function has returned *)
(* sees a panic and Goexit alike.                                           *)

FaultyAbandoned(how) == how = "panic"
Abandoned(how) == how \in {"panic", "goexit"}

ClientCallEnds(i) ==
    /\ calls[i].kind \in {"database", "genai"}
    /\ End(i, leaving = "error" \/ Abandoned(leaving), leaving)

\* WithTransaction, for all but a nil error.
RollsBack(i) ==
    /\ calls[i].kind = "transaction" /\ leaving # "fine"
    /\ LET c == calls[i]
           rollback == leaving = "error" \/ Abandoned(leaving)
       IN  calls' = [calls EXCEPT
             ![i] = [c EXCEPT !.span = Marked(rollback), !.how = leaving,
                              !.tx = IF rollback /\ c.tx = "open" THEN "rolled back" ELSE c.tx,
                              !.outcome = IF rollback THEN "rollback" ELSE c.outcome]]
    /\ leaving' = Onward(leaving)
    /\ UNCHANGED ctxEnded

\* tx.Commit looks at the context before it takes the transaction, from when on
\* database/sql leaves it alone.
CommitBegins(i) ==
    /\ calls[i].kind = "transaction" /\ leaving = "fine"
    /\ calls[i].tx = "open" /\ ~ctxEnded
    /\ calls' = [calls EXCEPT ![i].tx = "committing"]
    /\ UNCHANGED <<leaving, ctxEnded>>

\* What db.transaction.outcome says of a Commit: err is "nil", "ErrTxDone", the
\* context's error "ctx" or the driver's "driver".
FaultyCommitOutcome(err) ==     \* takes ErrTxDone for the driver's
    IF err = "nil" THEN "commit"
    ELSE IF ctxEnded THEN "rollback" ELSE "commit_failed"
CommitOutcome(err) ==
    IF err = "nil" THEN "commit"
    ELSE IF ctxEnded \/ err = "ErrTxDone" THEN "rollback" ELSE "commit_failed"

Settles(i, err, tx) ==
    /\ calls' = [calls EXCEPT
         ![i] = [@ EXCEPT !.span = Marked(err # "nil"), !.how = leaving, !.tx = tx,
                          !.outcome = CommitOutcome(err)]]
    /\ leaving' = "runs"
    /\ UNCHANGED ctxEnded

\* A driver that reports an error leaves it open what the server has done.  A
\* transaction that is done, by its function or by database/sql, is left as it is.
CommitReturns(i) ==
    /\ calls[i].kind = "transaction" /\ leaving = "fine"
    /\ LET tx == calls[i].tx
       IN  \/ tx = "committing" /\ (Settles(i, "nil", "committed") \/ Settles(i, "driver", "in doubt"))
           \/ ctxEnded /\ tx # "committing" /\ Settles(i, "ctx", tx)
           \/ tx \notin {"open", "committing"} /\ Settles(i, "ErrTxDone", tx)

\* database/sql, on its own goroutine, once the context has ended.
ContextRollsBack(i) ==
    /\ ctxEnded /\ calls[i].tx = "open"
    /\ calls' = [calls EXCEPT ![i].tx = "rolled back"]
    /\ UNCHANGED <<leaving, ctxEnded>>

Returns ==
    /\ leaving # "runs"
    /\ \E i \in Open :
         /\ Innermost(i)
         /\ \/ TraceEnds(i) \/ TraceFuncEnds(i) \/ ClientCallEnds(i)
            \/ RollsBack(i) \/ CommitBegins(i) \/ CommitReturns(i)

CallsNext ==
    \/ \E kind \in Kinds : Enter(kind)
    \/ \E how \in {"fine", "error", "value", "panic", "goexit"} : Leaves(how)
    \/ \E how \in {"fine", "error"} : Recovers(how)
    \/ StartsAgain \/ EndContext \/ Returns
    \/ \E i \in DOMAIN calls : SettlesItself(i) \/ ContextRollsBack(i)

CallsSpec == CallsInit /\ [][CallsNext]_callVars
-----------------------------------------------------------------------------
Over(c) == c.span # "open"

\* db.transaction.outcome says what WithTransaction made of the transaction:
\* "commit" of one it committed and of no other, "commit_failed" where the driver
\* left it open, nothing of one that never began, and "rollback" of all others.
\* So "rollback" is never said of one it has committed, but is said of one its
\* function had settled already, even by a Commit (OutcomeIsTheResult).  None
\* stays open once its call is over, unless database/sql is about to roll it back.
OutcomesTold ==
    \A i \in DOMAIN calls : Over(calls[i]) /\ calls[i].kind = "transaction" =>
        LET c == calls[i]
        IN  /\ c.outcome = "commit" <=> c.tx = "committed" /\ ~c.byFn
            /\ c.outcome = "commit_failed" => c.tx = "in doubt" /\ ~c.byFn
            /\ c.outcome = "none" <=> c.tx = "none"
            /\ c.tx = "open" => ctxEnded

\* A span is marked failed when its function returned an error or its commit
\* did - which one of a transaction settled before does - and no other is, but
\* that the calls of database and genai also mark the spans of functions that
\* never returned.
FailuresMarked ==
    \A i \in DOMAIN calls : Over(calls[i]) =>
        LET c == calls[i]
        IN  c.span = "failed" <=>
              \/ c.how = "error"
              \/ Unwinding(c.how) /\ c.kind \in {"database", "genai", "transaction"}
              \/ c.how = "fine" /\ c.kind = "transaction" /\ (c.tx # "committed" \/ c.byFn)

\* However its function leaves - by returning, by a panic that some caller
\* recovers or by Goexit - and whenever its context ends, a call's span says how
\* it went and its transaction is settled.  database.go, WithTransaction: "A
\* panic or runtime.Goexit in fn rolls back too, and carries on."
CallsAreTold == OutcomesTold /\ FailuresMarked

\* database.go, WithTransaction: "It commits when fn returns nil and rolls back
\* otherwise, recording the result in db.transaction.outcome".  It does not of a
\* function that commits itself: that one is told as rolled back.
OutcomeIsTheResult ==
    \A i \in DOMAIN calls :
        (Over(calls[i]) /\ calls[i].how = "fine" /\ calls[i].outcome = "rollback")
            => calls[i].tx # "committed"

\* The state keeps its shape.
CallsTypeOK ==
    /\ \A i \in DOMAIN calls :
         /\ calls[i].kind \in Kinds /\ calls[i].span \in {"open", "ended", "failed"}
         /\ calls[i].tx \in {"none", "open", "committing", "committed", "in doubt", "rolled back"}
         /\ calls[i].outcome \in {"none", "commit", "commit_failed", "rollback"}
         /\ calls[i].byFn \in BOOLEAN
    /\ leaving \in {"runs", "fine", "error", "value", "panic", "goexit"}
    /\ ctxEnded \in BOOLEAN
=============================================================================

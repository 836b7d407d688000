--------------------------- MODULE MCTailSampling ---------------------------
(* A small instance of the sampling pipeline for TLC: a trace of a root    *)
(* and a child, and two traces of one span that compete for the Keeper's   *)
(* memory.                                                                 *)
EXTENDS TailSampling, TLC

CONSTANTS t1, t2, t3, root, child, other, third

MCSpans == {root, child, other, third}
MCTraceOf == [s \in MCSpans |-> CASE s = other -> t2
                                  [] s = third -> t3
                                  [] OTHER -> t1]
MCParentOf == [s \in MCSpans |-> IF s = child THEN root ELSE NoSpan]

\* The two single spans are interchangeable, with their traces.
Symmetric == {other :> third @@ third :> other @@ t2 :> t3 @@ t3 :> t2}

\* Half the routine traces and every failure.
Errors == [debug |-> FALSE, handMarks |-> FALSE, capture |-> FALSE,
           filter |-> FALSE, exporters |-> 2,
           baseline |-> 1, error |-> 2, slow |-> 2, slowThreshold |-> FALSE,
           linksBased |-> FALSE, links |-> 2]
\* No failure, every slow span.
Slow == [Errors EXCEPT !.slowThreshold = TRUE, !.error = 0, !.exporters = 1]
ByHand == [Errors EXCEPT !.handMarks = TRUE, !.exporters = 1]
\* Nothing for the tail to decide.
HeadOnly == [Errors EXCEPT !.error = 1, !.filter = TRUE, !.handMarks = TRUE,
                           !.exporters = 1]
Captured == [Errors EXCEPT !.capture = TRUE, !.exporters = 1]
Debugged == [Slow EXCEPT !.debug = TRUE]
Linked == [Errors EXCEPT !.linksBased = TRUE, !.exporters = 1]

MCConfigs == {Errors, Slow, ByHand, HeadOnly, Captured, Debugged, Linked}
LinkConfigs == {Linked}
=============================================================================

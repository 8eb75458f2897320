------------------------------- MODULE MCPace -------------------------------
(* Small instances of Pace: the collector, the processor and the deliver    *)
(* service, each with the kind of request it sends.                         *)
EXTENDS Pace

CONSTANTS collect, process, deliver

AllKinds == [s \in {collect, process, deliver} |->
               IF s = collect THEN "search"
               ELSE IF s = process THEN "description" ELSE "packaging"]
MCKindOf == [s \in Services |-> AllKinds[s]]

\* The collector waits for ever, the others have a turn budget.
MCGiveUpAfter == [s \in Services |-> IF s = collect THEN NoBound ELSE 2]
MCStoppable == Services \cap {collect}

OneSpacing == {2}
TwoSpacings == {1, 2}
OneFirstWait == {1}
OneRetryAfter == {1}
LongRetryAfter == {3}
=============================================================================

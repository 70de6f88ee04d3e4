------------------------- MODULE MCRefreshPipeline -------------------------
(* RefreshPipeline with one or two labels; the second label's station is   *)
(* served only by the second schedule.                                     *)
EXTENDS RefreshPipeline

CONSTANTS l1, l2

OneLabel == {l1}
TwoLabels == {l1, l2}
Everywhere == [s \in 0 .. MaxSchedule |-> {l1}]
NewStation == [s \in 0 .. MaxSchedule |-> IF s = 0 THEN {l1} ELSE {l1, l2}]

(* The wake-up alone, without the daily poll, and what it makes up for.    *)
Awake == [daily |-> FALSE, faults |-> {"persist", "poll"}, changes |-> 2]
(* The daily poll, and any one fault.                                      *)
Polled == [daily |-> TRUE, faults |-> FaultKinds, changes |-> 1]
AwakeOrPolled == {Awake, Polled}

BeforeCommit == {[Polled EXCEPT !.faults = FaultKinds \ {"late"}]}
CrashOnly == {[Awake EXCEPT !.faults = {"crash"}, !.changes = 1]}
=============================================================================

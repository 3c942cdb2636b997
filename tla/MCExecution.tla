---------------------------- MODULE MCExecution ----------------------------
(* Two invocations with stations of their own: the user of the first has   *)
(* the grant to start and stop RAPID, the user of the second has not.      *)
EXTENDS Execution

CONSTANTS i1, i2, st1, st2

OwnStationOf == [i \in {i1, i2} |-> IF i = i1 THEN st1 ELSE st2]
=============================================================================

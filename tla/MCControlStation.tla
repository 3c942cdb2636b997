------------------------- MODULE MCControlStation -------------------------
(* Two invocations with identities of their own, or sharing the one that   *)
(* cli.py derives from host name, controller and user.                     *)
EXTENDS ControlStation

CONSTANTS s1, s2, st1, st2

DistinctStationOf == [s \in {s1, s2} |-> IF s = s1 THEN st1 ELSE st2]
SharedStationOf   == [s \in {s1, s2} |-> st1]
=============================================================================

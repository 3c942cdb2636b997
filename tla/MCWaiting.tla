----------------------------- MODULE MCWaiting -----------------------------
(* Two invocations of a command that waits: backup create, rapid program   *)
(* load, and motors-on against motors-off.                                 *)
EXTENDS Waiting

CONSTANTS c1, c2

Job(kind, target) == [kind |-> kind, target |-> target]

Backup  == Job("backup", "none")
Program == Job("program", "none")
On      == Job("motors", "motoron")
Off     == Job("motors", "motoroff")

Pair(a, b) == [c \in {c1, c2} |-> IF c = c1 THEN a ELSE b]

Pairs == {Pair(Backup, Backup), Pair(Program, Program), Pair(On, Off)}

OneLoad == {[c \in {c1} |-> Program]}
=============================================================================

------------------------------ MODULE MCFiles ------------------------------
(* Two invocations of the file commands, with and without --force.         *)
EXTENDS Files, TLC

CONSTANTS c1, c2, short, long

Symmetry == Permutations({c1, c2})

Blocked == [v \in {short, long} |-> IF v = short THEN 1 ELSE 2]

Job(kind, force) == [kind |-> kind, force |-> force]

SomeJobs == { Job("download", FALSE), Job("download", TRUE), Job("upload", FALSE),
              Job("upload", TRUE), Job("delete", FALSE) }
=============================================================================

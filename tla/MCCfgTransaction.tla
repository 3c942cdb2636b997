------------------------- MODULE MCCfgTransaction -------------------------
(* One CFG instance, two invocations of every kind and the pendant.        *)
EXTENDS CfgTransaction, TLC

CONSTANTS a, b,    \* invocations
          v0,      \* the default
          v1,      \* another valid value
          bad,     \* one that does not validate
          odd      \* what the controller makes of a value it rounds

\* The invocations are interchangeable.
Symmetry == Permutations({a, b})

Job(o, v) == [op |-> o, value |-> v]

AllJobs == { Job("set", v1), Job("set", bad),
             Job("create", v0), Job("create", v1), Job("create", bad),
             Job("delete", v0) }

CreateJobs == {Job("create", v1)}
=============================================================================

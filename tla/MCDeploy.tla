------------------------------ MODULE MCDeploy ------------------------------
(* Two deployments of one module, with the options in turn.                *)
EXTENDS Deploy, TLC

CONSTANTS d1, d2,   \* invocations
          t0, t1,   \* sources that link
          bad,      \* one that does not; also a damaged copy
          mangled   \* a damaged copy that links

Symmetry == Permutations({d1, d2})

Job(t, replace, build, rollback, cleanup) ==
    [source |-> t, replace |-> replace, build |-> build, rollback |-> rollback,
     cleanup |-> cleanup]

SomeJobs == { Job(t1,  TRUE,  TRUE,  TRUE,  TRUE),
              Job(bad, TRUE,  TRUE,  TRUE,  FALSE),
              Job(bad, TRUE,  TRUE,  FALSE, TRUE),
              Job(bad, FALSE, TRUE,  TRUE,  TRUE),
              Job(t1,  FALSE, FALSE, TRUE,  TRUE) }
=============================================================================

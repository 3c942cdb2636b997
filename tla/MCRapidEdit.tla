---------------------------- MODULE MCRapidEdit ----------------------------
(* One module of one task, two invocations of every kind.                 *)
EXTENDS RapidEdit, TLC

CONSTANTS w1, w2,   \* invocations
          t0, t1,   \* sources of the module that link
          bad,      \* one that does not
          ren,      \* one that renames the module
          cut,      \* what is left when ENDMODULE is lost; also a damaged copy
          mangled   \* a damaged copy that links

\* The invocations are interchangeable.
Symmetry == Permutations({w1, w2})

AllTexts == {t0, t1, bad, ren, cut, mangled}

Names == [t \in AllTexts |-> IF t = ren THEN "renamed" ELSE "module"]

To(t) == [u \in AllTexts |-> t]

Write(t, b, r, n) == [patch |-> FALSE, change |-> To(t), build |-> b,
                      rollback |-> r, rename |-> n]

Patch(f, b) == [patch |-> TRUE, change |-> f, build |-> b,
                rollback |-> TRUE, rename |-> FALSE]

\* Patches that depend on the source they meet.
Toggle == [u \in AllTexts |-> IF u = t0 THEN t1 ELSE IF u = t1 THEN bad ELSE u]
Chop   == [u \in AllTexts |-> IF u = t0 THEN cut ELSE u]

AllJobs == { Write(t1, FALSE, TRUE, FALSE), Write(t0, TRUE, TRUE, FALSE),
             Write(bad, TRUE, TRUE, FALSE), Write(bad, TRUE, FALSE, FALSE),
             Write(ren, TRUE, TRUE, TRUE),
             Patch(Toggle, TRUE), Patch(Chop, TRUE) }

OnePatch == {Patch(Toggle, TRUE)}
=============================================================================

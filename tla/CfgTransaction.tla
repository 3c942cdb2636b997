-------------------------- MODULE CfgTransaction --------------------------
(***************************************************************************)
(* The transactions of services/cfg.py: set_attribute, create_instance and *)
(* delete_instance, as cfg set, cfg create and cfg delete run them under   *)
(* the write access of module ControlStation.                              *)
(*                                                                         *)
(* One CFG instance, reduced to the value of the attributes a command      *)
(* sends.  Several invocations (Sessions) work on it, and the pendant.     *)
(* Nothing keeps them apart here: two invocations may share a station, and *)
(* the operator may take the access in the middle of a transaction, whose  *)
(* later requests are then refused.  The history variable `disturbed` says *)
(* which transactions met a change that was not theirs.                    *)
(***************************************************************************)
EXTENDS Naturals, RwsRequest

CONSTANTS Sessions,
          Values,      \* of the attributes
          Absent,      \* there is no such instance
          Default,     \* what create-default gives a new instance
          Altered,     \* what the controller may store instead of a value
          Invalid,     \* the values that validate-instances rejects
          Jobs,        \* what an invocation may be asked to do
          MaxForeign   \* bound: changes from outside the CLI

ASSUME ValuesAssumption ==
    /\ Absent \notin Values
    /\ Default \in Values /\ Altered \in Values
    /\ Invalid \subseteq Values
ASSUME JobsAssumption ==
    Jobs \subseteq [op : {"set", "create", "delete"}, value : Values]
ASSUME ForeignAssumption == MaxForeign \in Nat

\* A create with the value Default has no --attribute.

PCs == {"read", "post", "validate", "readback",
        "undoPost", "undoValidate", "undoReadback",
        "check", "create", "inspect", "configure",
        "drop", "dropCheck", "delete", "deleteCheck", "end"}

Results == {"none", "ok", "unchanged", "error", "config", "interrupt"}
Claims  == {"none", "restored", "removed", "rollbackFailed"}

VARIABLES
    instance,    \* controller: the value of the instance, or Absent
    foreign,     \* how many changes came from outside
    job,         \* what each invocation was asked to do
    pc,          \* its next request
    before,      \* `before`: what it found
    made,        \* history: its create request made the instance
    posted,      \* `created`: its first mutating request returned
    disturbed,   \* history: the invocations that met a change of others
    result,      \* how the command ends
    claim        \* what its error message says of the rollback

vars == <<instance, foreign, job, pc, before, made, posted, disturbed, result, claim>>
local == <<before, made, posted>>

TypeOK ==
    /\ instance \in Values \cup {Absent}
    /\ foreign \in 0..MaxForeign
    /\ job \in [Sessions -> Jobs]
    /\ pc \in [Sessions -> PCs]
    /\ before \in [Sessions -> Values \cup {Absent}]
    /\ made \subseteq Sessions
    /\ posted \subseteq Sessions
    /\ disturbed \subseteq Sessions
    /\ result \in [Sessions -> Results]
    /\ claim \in [Sessions -> Claims]

Init ==
    /\ instance \in Values \cup {Absent}
    /\ foreign = 0
    /\ job \in [Sessions -> Jobs]
    /\ pc = [s \in Sessions |-> IF job[s].op = "create" THEN "check" ELSE "read"]
    /\ before = [s \in Sessions |-> Absent]
    /\ made = {}
    /\ posted = {}
    /\ disturbed = {}
    /\ result = [s \in Sessions |-> "none"]
    /\ claim = [s \in Sessions |-> "none"]

-----------------------------------------------------------------------------
(* Control flow of one invocation.                                         *)

At(s, op, p) == job[s].op = op /\ pc[s] = p

Goto(s, p) ==
    /\ pc' = [pc EXCEPT ![s] = p]
    /\ UNCHANGED <<result, claim>>

Finish(s, r, c) ==
    /\ pc' = [pc EXCEPT ![s] = "end"]
    /\ result' = [result EXCEPT ![s] = r]
    /\ claim' = [claim EXCEPT ![s] = c]

\* Outside a try: go on, or end with what was raised.
Continue(s, e, p) == IF e = "none" THEN Goto(s, p) ELSE Finish(s, e, "none")

\* `except Exception`: an error starts the rollback, an interrupt leaves.
Attempt(s, e, p, rollback) ==
    CASE e = "none"      -> Goto(s, p)
      [] e = "interrupt" -> Finish(s, e, "none")
      [] OTHER           -> /\ pc' = [pc EXCEPT ![s] = rollback]
                            /\ result' = [result EXCEPT ![s] = e]
                            /\ UNCHANGED claim

\* `except Exception as rollback_error`: the error says that both failed.
Recover(s, e, p) ==
    CASE e = "none"      -> Goto(s, p)
      [] e = "interrupt" -> Finish(s, e, "none")
      [] OTHER           -> Finish(s, "error", "rollbackFailed")

\* A request of s leaves the instance with value v, or does nothing.
Change(s, o, v) ==
    /\ instance' = IF Applied(o) THEN v ELSE instance
    /\ disturbed' = IF Applied(o) THEN disturbed \cup (Sessions \ {s}) ELSE disturbed
    /\ UNCHANGED foreign

Read == UNCHANGED <<instance, foreign, disturbed>>

\* The controller has the instance, or answers 404.
Found(o) == o = "done" => instance # Absent

Stored(v) == {v, Altered}

-----------------------------------------------------------------------------
(* set_attribute.                                                          *)

\* A read-only instance or an unknown attribute is not acceptable.
SetRead(s) ==
    /\ At(s, "set", "read")
    /\ \E o \in ReadOutcomes, acceptable \in BOOLEAN :
          /\ Found(o)
          /\ before' = [before EXCEPT ![s] = IF o = "done" THEN instance ELSE @]
          /\ IF o = "done" /\ acceptable /\ instance = job[s].value
             THEN Finish(s, "unchanged", "none")
             ELSE Continue(s, Required(o, acceptable), "post")
    /\ disturbed' = disturbed \ {s}
    /\ UNCHANGED <<instance, foreign, job, made, posted>>

\* _post_attribute stands before the try.
SetPost(s) ==
    /\ At(s, "set", "post")
    /\ \E o \in Outcomes, v \in Stored(job[s].value) :
          /\ Applied(o) => instance # Absent
          /\ Change(s, o, v)
          /\ posted' = IF o = "done" THEN posted \cup {s} ELSE posted
          /\ Continue(s, Raised(o), "validate")
    /\ UNCHANGED <<job, before, made>>

SetValidate(s) ==
    /\ At(s, "set", "validate")
    /\ \E o \in ReadOutcomes :
          Attempt(s, Required(o, instance \notin Invalid), "readback", "undoPost")
    /\ Read /\ UNCHANGED <<job, local>>

\* A faulty variant of SetReadBack: what was stored is not compared.
SetReadBackUncompared(s) ==
    /\ At(s, "set", "readback")
    /\ \E o \in ReadOutcomes :
          /\ Found(o)
          /\ IF o = "done" THEN Finish(s, "ok", "none")
             ELSE Attempt(s, Raised(o), "end", "undoPost")
    /\ Read /\ UNCHANGED <<job, local>>

SetReadBack(s) ==
    /\ At(s, "set", "readback")
    /\ \E o \in ReadOutcomes :
          /\ Found(o)
          /\ IF o = "done" /\ instance = job[s].value
             THEN Finish(s, "ok", "none")
             ELSE Attempt(s, Required(o, FALSE), "end", "undoPost")
    /\ Read /\ UNCHANGED <<job, local>>

UndoPost(s) ==
    /\ At(s, "set", "undoPost")
    /\ \E o \in Outcomes, v \in Stored(before[s]) :
          /\ Applied(o) => instance # Absent
          /\ Change(s, o, v)
          /\ Recover(s, Raised(o), "undoValidate")
    /\ UNCHANGED <<job, local>>

UndoValidate(s) ==
    /\ At(s, "set", "undoValidate")
    /\ \E o \in ReadOutcomes :
          Recover(s, Required(o, instance \notin Invalid), "undoReadback")
    /\ Read /\ UNCHANGED <<job, local>>

\* A faulty variant of UndoReadBack: the restored value is not compared.
UndoReadBackUncompared(s) ==
    /\ At(s, "set", "undoReadback")
    /\ \E o \in ReadOutcomes :
          /\ Found(o)
          /\ IF o = "done" THEN Finish(s, result[s], "restored")
             ELSE Recover(s, Raised(o), "end")
    /\ Read /\ UNCHANGED <<job, local>>

UndoReadBack(s) ==
    /\ At(s, "set", "undoReadback")
    /\ \E o \in ReadOutcomes :
          /\ Found(o)
          /\ IF o = "done" /\ instance = before[s]
             THEN Finish(s, result[s], "restored")
             ELSE Recover(s, Required(o, FALSE), "end")
    /\ Read /\ UNCHANGED <<job, local>>

-----------------------------------------------------------------------------
(* create_instance.                                                        *)

\* _instance_exists, and a Name attribute that contradicts the name.
CreateCheck(s) ==
    /\ At(s, "create", "check")
    /\ \E o \in ReadOutcomes, named \in BOOLEAN :
          Continue(s, Required(o, instance = Absent /\ named), "create")
    /\ disturbed' = disturbed \ {s}
    /\ UNCHANGED <<instance, foreign, job, local>>

\* A faulty variant of CreatePost: `created` is set before the request.
CreatedEarly(s) ==
    /\ At(s, "create", "create")
    /\ \E o \in Outcomes :
          /\ Applied(o) => instance = Absent
          /\ Change(s, o, Default)
          /\ made' = IF Applied(o) THEN made \cup {s} ELSE made
          /\ posted' = posted \cup {s}
          /\ Attempt(s, Raised(o), "inspect", "drop")
    /\ UNCHANGED <<job, before>>

\* The controller refuses to create what exists.  The request is inside the
\* try, but `created` is set only when it returns: without it nothing is
\* deleted, and the error still says that the instance was removed.
CreatePost(s) ==
    /\ At(s, "create", "create")
    /\ \E o \in Outcomes :
          /\ Applied(o) => instance = Absent
          /\ Change(s, o, Default)
          /\ made' = IF Applied(o) THEN made \cup {s} ELSE made
          /\ posted' = IF o = "done" THEN posted \cup {s} ELSE posted
          /\ IF Raised(o) = "error"
             THEN Finish(s, "error", "removed")
             ELSE Continue(s, Raised(o), "inspect")
    /\ UNCHANGED <<job, before>>

\* The default instance shows whether the requested attributes exist; a
\* ConfigurationError keeps its own message after the rollback.
CreateInspect(s) ==
    /\ At(s, "create", "inspect")
    /\ \E o \in ReadOutcomes, unknown \in BOOLEAN :
          /\ Found(o)
          /\ unknown => job[s].value # Default
          /\ Attempt(s, IF o = "done" /\ unknown THEN "config" ELSE Raised(o),
                     IF job[s].value = Default THEN "validate" ELSE "configure",
                     "drop")
    /\ Read /\ UNCHANGED <<job, local>>

CreateConfigure(s) ==
    /\ At(s, "create", "configure")
    /\ \E o \in Outcomes, v \in Stored(job[s].value) :
          /\ Applied(o) => instance # Absent
          /\ Change(s, o, v)
          /\ Attempt(s, Raised(o), "validate", "drop")
    /\ UNCHANGED <<job, local>>

CreateValidate(s) ==
    /\ At(s, "create", "validate")
    /\ \E o \in ReadOutcomes :
          Attempt(s, Required(o, instance \notin Invalid), "readback", "drop")
    /\ Read /\ UNCHANGED <<job, local>>

\* Only the requested attributes are compared.
CreateReadBack(s) ==
    /\ At(s, "create", "readback")
    /\ \E o \in ReadOutcomes :
          /\ Found(o)
          /\ IF o = "done" /\ job[s].value \in {instance, Default}
             THEN Finish(s, "ok", "none")
             ELSE Attempt(s, Required(o, FALSE), "end", "drop")
    /\ Read /\ UNCHANGED <<job, local>>

DropInstance(s) ==
    /\ At(s, "create", "drop")
    /\ \E o \in Outcomes :
          /\ Applied(o) => instance # Absent
          /\ Change(s, o, Absent)
          /\ Recover(s, Raised(o), "dropCheck")
    /\ UNCHANGED <<job, local>>

DropCheck(s) ==
    /\ At(s, "create", "dropCheck")
    /\ \E o \in ReadOutcomes :
          IF o = "done" /\ instance = Absent
          THEN Finish(s, result[s],
                      IF result[s] = "config" THEN "none" ELSE "removed")
          ELSE Recover(s, Required(o, FALSE), "end")
    /\ Read /\ UNCHANGED <<job, local>>

-----------------------------------------------------------------------------
(* delete_instance.                                                        *)

DeleteRead(s) ==
    /\ At(s, "delete", "read")
    /\ \E o \in ReadOutcomes, readOnly \in BOOLEAN :
          /\ Found(o)
          /\ before' = [before EXCEPT ![s] = IF o = "done" THEN instance ELSE @]
          /\ Continue(s, Required(o, ~readOnly), "validate")
    /\ disturbed' = disturbed \ {s}
    /\ UNCHANGED <<instance, foreign, job, made, posted>>

\* Validation of the removal: others may refer to the instance.
DeleteValidate(s) ==
    /\ At(s, "delete", "validate")
    /\ \E o \in ReadOutcomes, unused \in BOOLEAN :
          Continue(s, Required(o, unused), "delete")
    /\ Read /\ UNCHANGED <<job, local>>

DeleteInstance(s) ==
    /\ At(s, "delete", "delete")
    /\ \E o \in Outcomes :
          /\ Applied(o) => instance # Absent
          /\ Change(s, o, Absent)
          /\ posted' = IF o = "done" THEN posted \cup {s} ELSE posted
          /\ Continue(s, Raised(o), "deleteCheck")
    /\ UNCHANGED <<job, before, made>>

DeleteCheck(s) ==
    /\ At(s, "delete", "deleteCheck")
    /\ \E o \in ReadOutcomes :
          IF o = "done" /\ instance = Absent
          THEN Finish(s, "ok", "none")
          ELSE Finish(s, Required(o, FALSE), "none")
    /\ Read /\ UNCHANGED <<job, local>>

-----------------------------------------------------------------------------
(* Everybody else.                                                         *)

\* The pendant, or a tool other than the CLI.
ForeignChange ==
    /\ foreign < MaxForeign
    /\ foreign' = foreign + 1
    /\ instance' \in (Values \cup {Absent}) \ {instance}
    /\ disturbed' = Sessions
    /\ UNCHANGED <<job, pc, local, result, claim>>

Step(s) ==
    \/ SetRead(s)        \/ SetPost(s)        \/ SetValidate(s)
    \/ SetReadBack(s)    \/ UndoPost(s)       \/ UndoValidate(s)
    \/ UndoReadBack(s)   \/ CreateCheck(s)    \/ CreatePost(s)
    \/ CreateInspect(s)  \/ CreateConfigure(s) \/ CreateValidate(s)
    \/ CreateReadBack(s) \/ DropInstance(s)   \/ DropCheck(s)
    \/ DeleteRead(s)     \/ DeleteValidate(s) \/ DeleteInstance(s)
    \/ DeleteCheck(s)

Next == (\E s \in Sessions : Step(s)) \/ ForeignChange

Spec == Init /\ [][Next]_vars

-----------------------------------------------------------------------------
(* Properties.                                                             *)

Ended(s, r) == pc[s] = "end" /\ result[s] = r /\ s \notin disturbed

\* A command that reports a change has made it: what it asked for is stored
\* and valid, or the instance is gone.
SuccessIsVerified ==
    \A s \in Sessions :
        Ended(s, "ok") =>
            /\ job[s].op = "delete" => instance = Absent
            /\ job[s].op = "set"    => instance = job[s].value /\ instance \notin Invalid
            /\ job[s].op = "create" => /\ instance \notin Invalid \cup {Absent}
                                       /\ job[s].value \in {instance, Default}

\* After the first mutating request of a set or a create has returned, an
\* error means that everything is as it was found, unless the error says that
\* the rollback failed too.
FailureIsUndoneOrTold ==
    \A s \in posted :
        job[s].op # "delete" /\ (Ended(s, "error") \/ Ended(s, "config")) =>
            instance = before[s] \/ claim[s] = "rollbackFailed"

\* The rollback of a create removes an instance only if the create request of
\* the same invocation made one: losing the race between _instance_exists and
\* create-default never costs the other invocation its instance.
RemovesOnlyOwnCreation ==
    [][\A s \in Sessions :
          DropInstance(s) /\ instance' # instance => s \in made]_vars

\* cfg.py:301: the error of a create that says "the new instance was removed"
\* is the error of a create that left no instance.
RemovedIsGone ==
    \A s \in Sessions :
        Ended(s, "error") /\ claim[s] = "removed" => instance = Absent
=============================================================================

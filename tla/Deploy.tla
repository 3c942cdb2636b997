------------------------------- MODULE Deploy -------------------------------
(***************************************************************************)
(* deploy_module and _rollback_deploy of services/rapid_editing.py, with   *)
(* the requests of services/rapid.py and services/files.py they are made   *)
(* of, as rapid deploy runs them (rapid_cli.py).                           *)
(*                                                                         *)
(* Several invocations (Deployers) deploy a local file as the same module  *)
(* of one task, through a staging file whose path they may share; an       *)
(* editor outside the CLI changes the module, and other tools the staging  *)
(* file: nothing in the code relies on the write access for files.         *)
(***************************************************************************)
EXTENDS Naturals, RwsRequest

CONSTANTS Deployers,
          Texts,       \* sources of the module, Edited among them
          Absent,      \* no such module, no such file
          Found,       \* what the task may have had and linked at the start
          Mangled,     \* the damaged copies a store may leave
          Edited,      \* the local file, if it changes before it is uploaded
          Broken,      \* the sources that do not link
          Jobs,        \* what an invocation may be asked to do
          Outside,     \* whoever else writes the staging file
          Exclusive,   \* the invocations have stations of their own
          MaxForeign   \* bound: changes from outside the CLI

ASSUME TextsAssumption ==
    /\ Absent \notin Texts /\ Broken \subseteq Texts
    /\ Found \subseteq (Texts \cup {Absent}) \ Broken
    /\ Mangled \subseteq Texts /\ Edited \in Texts
ASSUME OutsideAssumption == Outside \notin Deployers
ASSUME ExclusiveAssumption == Exclusive \in BOOLEAN
ASSUME ForeignAssumption == MaxForeign \in Nat
ASSUME JobsAssumption ==
    Jobs \subseteq [source : Texts, replace : BOOLEAN, build : BOOLEAN,
                    rollback : BOOLEAN, cleanup : BOOLEAN]

Sources == Texts \cup {Absent}

Files == [text : Texts, by : Deployers \cup {Outside}] \cup {Absent}

PCs == {"enter", "list", "original", "upload", "load", "readback", "build",
        "errors", "undoCount", "undoPost", "undoNewCount", "unload", "undoBuild",
        "undoErrors", "cleanList", "cleanDelete", "leave", "exited"}

VARIABLES
    text,      \* controller: the source of the module
    count,     \* controller: its change count
    linked,    \* controller: the source the last build linked
    staged,    \* controller: the staging file, and who wrote it
    foreign,   \* how many changes came from outside
    job,       \* what each invocation was asked to do
    pc,        \* its next request
    orig,      \* `original_source`
    loaded,    \* `loaded`: the invocations whose load returned
    known,     \* `current_change_count`, or 0 as long as it is None
    mine,      \* history: the change count of the invocation's own load
    damaged,   \* history: the invocations whose rollback was stored damaged
    result,    \* how the command ends
    claim      \* what its error message says of the rollback

vars == <<text, count, linked, staged, foreign, job, pc, orig, loaded, known, mine,
          damaged, result, claim>>
module == <<text, count, linked>>
local  == <<orig, loaded, known, mine, damaged>>

Results == {"none", "ok", "error", "build", "interrupt"}
Claims  == {"none", "restored", "notRestored"}

TypeOK ==
    /\ text \in Sources /\ linked \in Sources
    /\ count \in Nat \ {0}
    /\ staged \in Files
    /\ foreign \in 0..MaxForeign
    /\ job \in [Deployers -> Jobs]
    /\ pc \in [Deployers -> PCs]
    /\ orig \in [Deployers -> Sources]
    /\ loaded \subseteq Deployers
    /\ known \in [Deployers -> Nat] /\ mine \in [Deployers -> Nat]
    /\ damaged \subseteq Deployers
    /\ result \in [Deployers -> Results]
    /\ claim \in [Deployers -> Claims]

Init ==
    /\ text \in Found
    /\ count = 1
    /\ linked = text
    /\ staged = Absent
    /\ foreign = 0
    /\ job \in [Deployers -> Jobs]
    /\ pc = [d \in Deployers |-> "enter"]
    /\ orig = [d \in Deployers |-> Absent]
    /\ loaded = {}
    /\ known = [d \in Deployers |-> 0]
    /\ mine = [d \in Deployers |-> 0]
    /\ damaged = {}
    /\ result = [d \in Deployers |-> "none"]
    /\ claim = [d \in Deployers |-> "none"]

-----------------------------------------------------------------------------
(* Control flow of one invocation.                                         *)

At(d, p) == pc[d] = p

Inside(d) == pc[d] \notin {"enter", "exited"}

Goto(d, p) ==
    /\ pc' = [pc EXCEPT ![d] = p]
    /\ UNCHANGED <<result, claim>>

Finish(d, r, p) ==
    /\ pc' = [pc EXCEPT ![d] = p]
    /\ result' = [result EXCEPT ![d] = r]
    /\ UNCHANGED claim

\* Before the try: nothing is cleaned up.
Continue(d, o, p) == IF o = "done" THEN Goto(d, p) ELSE Finish(d, Raised(o), "leave")

\* The outer try ends in its finally block.
Cleanup(d) == IF job[d].cleanup THEN "cleanList" ELSE "leave"

\* What is raised in the outer try, or returned from it.
Leave(d, r) == Finish(d, r, Cleanup(d))

\* The inner try failed: undo the load, unless asked not to.  What was loaded
\* over nothing is unloaded, what replaced a module is replaced by it.
Undo(d, r) ==
    /\ result' = [result EXCEPT ![d] = r]
    /\ IF job[d].rollback
       THEN /\ pc' = [pc EXCEPT ![d] = IF orig[d] = Absent THEN "unload"
                                       ELSE "undoCount"]
            /\ UNCHANGED claim
       ELSE /\ pc' = [pc EXCEPT ![d] = Cleanup(d)]
            /\ claim' = [claim EXCEPT ![d] = "notRestored"]

\* A request of the inner try raises; an interrupt is caught by neither.
Verify(d, o) == IF Raised(o) = "error" THEN Undo(d, "error") ELSE Leave(d, Raised(o))

\* The end of the rollback.
Restored(d, ok) ==
    /\ pc' = [pc EXCEPT ![d] = Cleanup(d)]
    /\ claim' = [claim EXCEPT ![d] = IF ok THEN "restored" ELSE "notRestored"]
    /\ UNCHANGED result

\* A request of the rollback raises.
UndoFails(d, o) == IF Raised(o) = "error" THEN Restored(d, FALSE) ELSE Leave(d, Raised(o))

Undone(d, o, p) == IF o = "done" THEN Goto(d, p) ELSE UndoFails(d, o)

\* A GET of the module: 404 without it.
Answers(o) == o = "done" => text # Absent

\* The text the controller stores for a request to store t.
Stored(t) == {t} \cup Mangled

-----------------------------------------------------------------------------
(* deploy_module.                                                          *)

\* _ensure_stopped and write_access: another invocation inside means that the
\* access is not granted.
EnterScope(d) ==
    /\ At(d, "enter")
    /\ \/ /\ Exclusive => \A e \in Deployers : ~Inside(e)
          /\ Goto(d, "list")
       \/ \E r \in {"error", "interrupt"} : Finish(d, r, "exited")
    /\ UNCHANGED <<module, staged, foreign, job, local>>

\* A local file that cannot be read fails before the request, and as it does.
ListModules(d) ==
    /\ At(d, "list")
    /\ \E o \in ReadOutcomes :
          IF o = "done" /\ text # Absent /\ ~job[d].replace
          THEN Finish(d, "error", "leave")
          ELSE Continue(d, o, IF text = Absent THEN "upload" ELSE "original")
    /\ UNCHANGED <<module, staged, foreign, job, local>>

ReadOriginal(d) ==
    /\ At(d, "original")
    /\ \E o \in ReadOutcomes :
          /\ Answers(o)
          /\ orig' = [orig EXCEPT ![d] = IF o = "done" THEN text ELSE @]
          /\ Continue(d, o, "upload")
    /\ UNCHANGED <<module, staged, foreign, job, loaded, known, mine, damaged>>

\* The local file is read again for the upload.
UploadFile(d) ==
    /\ At(d, "upload")
    /\ \E o \in Outcomes, t \in {job[d].source, Edited} :
          /\ staged' = IF Applied(o) THEN [text |-> t, by |-> d] ELSE staged
          /\ Continue(d, o, "load")
    /\ UNCHANGED <<module, foreign, job, local>>

\* loadmod: refused without the file, or for a module that exists.
Load(d, o) ==
    /\ Applied(o) => staged # Absent /\ (job[d].replace \/ text = Absent)
    /\ IF Applied(o)
       THEN text' \in Stored(staged.text) /\ count' = count + 1
       ELSE UNCHANGED <<text, count>>
    /\ mine' = [mine EXCEPT ![d] = IF Applied(o) THEN count' ELSE @]
    /\ loaded' = IF o = "done" THEN loaded \cup {d} ELSE loaded

\* A faulty variant of LoadModule: the load stands in the inner try.
LoadUndone(d) ==
    /\ At(d, "load")
    /\ \E o \in Outcomes :
          Load(d, o) /\ IF o = "done" THEN Goto(d, "readback") ELSE Verify(d, o)
    /\ UNCHANGED <<linked, staged, foreign, job, orig, known, damaged>>

LoadModule(d) ==
    /\ At(d, "load")
    /\ \E o \in Outcomes :
          Load(d, o) /\ IF o = "done" THEN Goto(d, "readback") ELSE Leave(d, Raised(o))
    /\ UNCHANGED <<linked, staged, foreign, job, orig, known, damaged>>

\* A faulty variant of ReadBack: what was loaded is not compared.
ReadBackUncompared(d) ==
    /\ At(d, "readback")
    /\ \E o \in ReadOutcomes :
          /\ Answers(o)
          /\ known' = [known EXCEPT ![d] = IF o = "done" THEN count ELSE @]
          /\ CASE o # "done"   -> Verify(d, o)
               [] job[d].build -> Goto(d, "build")
               [] OTHER        -> Leave(d, "ok")
    /\ UNCHANGED <<module, staged, foreign, job, orig, loaded, mine, damaged>>

ReadBack(d) ==
    /\ At(d, "readback")
    /\ \E o \in ReadOutcomes :
          /\ Answers(o)
          /\ known' = [known EXCEPT ![d] = IF o = "done" THEN count ELSE @]
          /\ IF o # "done" THEN Verify(d, o)
             ELSE IF text # job[d].source THEN Undo(d, "error")
             ELSE IF job[d].build THEN Goto(d, "build")
             ELSE Leave(d, "ok")
    /\ UNCHANGED <<module, staged, foreign, job, orig, loaded, mine, damaged>>

\* build_task links what the task has.
Link(o) == linked' = IF Applied(o) THEN text ELSE linked

BuildTask(d) ==
    /\ At(d, "build")
    /\ \E o \in Outcomes :
          Link(o) /\ IF o = "done" THEN Goto(d, "errors") ELSE Verify(d, o)
    /\ UNCHANGED <<text, count, staged, foreign, job, local>>

ReadBuildErrors(d) ==
    /\ At(d, "errors")
    /\ \E o \in ReadOutcomes :
          IF o # "done" THEN Verify(d, o)
          ELSE IF linked \in Broken THEN Undo(d, "build") ELSE Leave(d, "ok")
    /\ UNCHANGED <<module, staged, foreign, job, local>>

-----------------------------------------------------------------------------
(* _rollback_deploy.                                                       *)

\* Without a change count from the read-back one is read first; the write
\* that follows reads it again and compares.
UndoCount(d) ==
    /\ At(d, "undoCount")
    /\ \E o \in ReadOutcomes :
          /\ Answers(o)
          /\ known' = [known EXCEPT ![d] = IF o = "done" /\ @ = 0 THEN count ELSE @]
          /\ IF o # "done" THEN UndoFails(d, o)
             ELSE IF known[d] = 0 THEN Goto(d, "undoCount")
             ELSE IF count = known[d] THEN Goto(d, "undoPost")
             ELSE Restored(d, FALSE)
    /\ UNCHANGED <<module, staged, foreign, job, orig, loaded, mine, damaged>>

\* An answer without a change count is completed by another GET; what was
\* stored is read back by nobody.
UndoPost(d) ==
    /\ At(d, "undoPost")
    /\ \E o \in Outcomes, counted \in BOOLEAN :
          /\ Applied(o) => text # Absent
          /\ IF Applied(o)
             THEN text' \in Stored(orig[d]) /\ count' = count + 1
             ELSE UNCHANGED <<text, count>>
          /\ damaged' = IF Applied(o) /\ text' # orig[d]
                        THEN damaged \cup {d} ELSE damaged
          /\ Undone(d, o, IF counted THEN "undoBuild" ELSE "undoNewCount")
    /\ UNCHANGED <<linked, staged, foreign, job, orig, loaded, known, mine>>

UndoNewCount(d) ==
    /\ At(d, "undoNewCount")
    /\ \E o \in ReadOutcomes : Answers(o) /\ Undone(d, o, "undoBuild")
    /\ UNCHANGED <<module, staged, foreign, job, local>>

UnloadModule(d) ==
    /\ At(d, "unload")
    /\ \E o \in Outcomes :
          /\ Applied(o) => text # Absent
          /\ text' = IF Applied(o) THEN Absent ELSE text
          /\ Undone(d, o, "undoBuild")
    /\ UNCHANGED <<count, linked, staged, foreign, job, local>>

UndoBuild(d) ==
    /\ At(d, "undoBuild")
    /\ \E o \in Outcomes : Link(o) /\ Undone(d, o, "undoErrors")
    /\ UNCHANGED <<text, count, staged, foreign, job, local>>

\* A faulty variant of UndoErrors: whatever the build says.
UndoErrorsIgnored(d) ==
    /\ At(d, "undoErrors")
    /\ \E o \in ReadOutcomes :
          IF o = "done" THEN Restored(d, TRUE) ELSE UndoFails(d, o)
    /\ UNCHANGED <<module, staged, foreign, job, local>>

UndoErrors(d) ==
    /\ At(d, "undoErrors")
    /\ \E o \in ReadOutcomes :
          IF o = "done" THEN Restored(d, linked \notin Broken) ELSE UndoFails(d, o)
    /\ UNCHANGED <<module, staged, foreign, job, local>>

-----------------------------------------------------------------------------
(* The finally block: delete_file.                                         *)

\* A faulty variant of CleanFails: its own error replaces the earlier one.
CleanupHides(d, e) == Finish(d, e, "leave")

\* An error of the clean-up is raised only after a success.
CleanFails(d, e) ==
    IF e = "error" /\ result[d] # "ok" THEN Goto(d, "leave") ELSE Finish(d, e, "leave")

\* A file that is not listed is an error, too.
ListStaging(d) ==
    /\ At(d, "cleanList")
    /\ \E o \in ReadOutcomes :
          IF o = "done" /\ staged # Absent
          THEN Goto(d, "cleanDelete")
          ELSE CleanFails(d, Required(o, FALSE))
    /\ UNCHANGED <<module, staged, foreign, job, local>>

DeleteStaging(d) ==
    /\ At(d, "cleanDelete")
    /\ \E o \in Outcomes :
          /\ Applied(o) => staged # Absent
          /\ staged' = IF Applied(o) THEN Absent ELSE staged
          /\ IF o = "done" THEN Goto(d, "leave") ELSE CleanFails(d, Raised(o))
    /\ UNCHANGED <<module, foreign, job, local>>

\* The finally block of write_access.
LeaveScope(d) ==
    /\ At(d, "leave")
    /\ Goto(d, "exited")
    /\ UNCHANGED <<module, staged, foreign, job, local>>

-----------------------------------------------------------------------------
(* Everybody else.                                                         *)

\* Somebody edits, loads or unloads the module; under Exclusive nobody can
\* while an invocation holds the access.
ForeignEdit ==
    /\ foreign < MaxForeign
    /\ Exclusive => \A d \in Deployers : ~Inside(d)
    /\ foreign' = foreign + 1
    /\ text' \in Sources \ {text}
    /\ count' = count + 1
    /\ UNCHANGED <<linked, staged, job, pc, local, result, claim>>

\* Files are written and deleted by other tools at any time.
ForeignFile ==
    /\ foreign < MaxForeign
    /\ foreign' = foreign + 1
    /\ staged' \in ([text : Texts, by : {Outside}] \cup {Absent}) \ {staged}
    /\ UNCHANGED <<module, job, pc, local, result, claim>>

Step(d) ==
    \/ EnterScope(d)      \/ ListModules(d)  \/ ReadOriginal(d)
    \/ UploadFile(d)      \/ LoadModule(d)   \/ ReadBack(d)
    \/ BuildTask(d)       \/ ReadBuildErrors(d)
    \/ UndoCount(d)       \/ UndoPost(d)     \/ UndoNewCount(d)
    \/ UnloadModule(d)    \/ UndoBuild(d)    \/ UndoErrors(d)
    \/ ListStaging(d)     \/ DeleteStaging(d) \/ LeaveScope(d)

Next == (\E d \in Deployers : Step(d)) \/ ForeignEdit \/ ForeignFile

Spec == Init /\ [][Next]_vars

-----------------------------------------------------------------------------
(* Properties.                                                             *)

\* The task runs the local source.
Deployed(d) ==
    /\ text = job[d].source
    /\ job[d].build => linked = text /\ text \notin Broken

\* A deployment that reports success has put the local source, as it was
\* validated, into the task, whatever happened to the local file or to the
\* staging file on the way, and has left no staging file of its own behind
\* unless --keep-upload.
SuccessIsVerified ==
    \A d \in Deployers :
        At(d, "leave") /\ result[d] = "ok" =>
            /\ Deployed(d)
            /\ job[d].cleanup => staged = Absent \/ staged.by # d

\* docs/rapid.md: after a module has been loaded, a failure triggers the
\* rollback.  The error says that it did not succeed, or the task is what it
\* was, or the deployment is complete and only its clean-up failed.  The one
\* exception: the rollback does not read back what it stored, so that a copy
\* the controller damaged counts as restored as long as it links.
FailureIsUndoneOrTold ==
    \A d \in loaded :
        At(d, "leave") /\ result[d] \in {"error", "build"} =>
            \/ claim[d] = "notRestored"
            \/ /\ claim[d] = "restored"
               /\ linked = text
               /\ text \notin Broken
               /\ d \notin damaged => text = orig[d]
            \/ claim[d] = "none" /\ Deployed(d)

\* Neither the rollback nor the clean-up hides the error of a deployment: it
\* is reported as what it was, a build failure as a build failure, unless the
\* user interrupts the command.
FailureIsKept ==
    [][\A d \in Deployers :
          result[d] \in {"error", "build"} =>
              result'[d] \in {result[d], "interrupt"}]_vars

\* The rollback overwrites or unloads only what its own deployment loaded.
RollbackUndoesOwnLoad ==
    [][\A d \in Deployers :
          (UndoPost(d) \/ UnloadModule(d)) /\ text' # text => count = mine[d]]_vars
=============================================================================

----------------------------- MODULE RapidEdit -----------------------------
(***************************************************************************)
(* The source-editing transactions of services/rapid_editing.py:           *)
(* write_module and patch_module, with the set_module_text and             *)
(* set_text_range of services/rapid.py they are made of, as rapid write,   *)
(* rapid edit and rapid patch run them (rapid_cli.py).                     *)
(*                                                                         *)
(* Several invocations (Writers) and an editor outside the CLI change one  *)
(* module of one task.  The controller keeps its text, its change count    *)
(* and what the last build linked.  Every request is a step with the       *)
(* outcomes of RwsRequest; the write access is abstracted to who may be    *)
(* inside at the same time (module ControlStation).                        *)
(***************************************************************************)
EXTENDS Naturals, RwsRequest

CONSTANTS Writers,
          Texts,       \* module sources
          Initial,     \* the source at the start
          Mangled,     \* the damaged copies a store may leave
          Broken,      \* the sources that do not link
          Invalid,     \* the sources validate_module_source rejects
          ModuleOf,    \* the name in the MODULE declaration of a source
          Jobs,        \* what an invocation may be asked to do
          Exclusive,   \* the invocations have stations of their own
          MaxForeign   \* bound: edits from outside the CLI

Changes == [Texts -> Texts]

ASSUME TextsAssumption ==
    /\ Initial \in Texts \ Invalid
    /\ Mangled \subseteq Texts /\ Broken \subseteq Texts /\ Invalid \subseteq Texts
ASSUME ExclusiveAssumption == Exclusive \in BOOLEAN
ASSUME ForeignAssumption == MaxForeign \in Nat
ASSUME JobsAssumption ==
    Jobs \subseteq [patch : BOOLEAN, change : Changes,
                    build : BOOLEAN, rollback : BOOLEAN, rename : BOOLEAN]

\* A job's change gives the new source from the one it is applied to: for
\* rapid write a constant, for rapid edit what the editor makes of the text
\* it was shown, for rapid patch what the controller makes of its own text.

Version == [text : Texts, count : Nat]

PCs == {"read", "reread", "enter", "original", "count", "post", "postCount",
        "readback", "build", "errors", "undoCount", "undoPost",
        "undoPostCount", "undoBuild", "undoErrors", "leave", "exited"}

ScopePCs == PCs \ {"read", "reread", "enter", "exited"}

VARIABLES
    text,      \* controller: the source of the module
    count,     \* controller: its change count
    linked,    \* controller: the source the last build linked
    foreign,   \* how many edits came from outside
    job,       \* what each invocation was asked to do
    pc,        \* its next request
    seen,      \* the version the diff was shown for
    orig,      \* `original`: the version read under the access
    known,     \* the change count a rollback may overwrite
    mine,      \* history: the change count the invocation's own write got
    damaged,   \* history: the invocations whose rollback was stored damaged
    current,   \* `current_module`: the name later requests use
    result,    \* how the command ends
    claim      \* what its error message says of the rollback

vars == <<text, count, linked, foreign, job, pc, seen, orig, known, mine, damaged,
          current, result, claim>>
module == <<text, count, linked, foreign>>
local  == <<seen, orig, known, mine, damaged, current>>

Results == {"none", "ok", "unchanged", "error", "build", "interrupt"}
Claims  == {"none", "restored", "notRestored"}

TypeOK ==
    /\ text \in Texts
    /\ count \in Nat
    /\ linked \in Texts
    /\ foreign \in 0..MaxForeign
    /\ job \in [Writers -> Jobs]
    /\ pc \in [Writers -> PCs]
    /\ seen \in [Writers -> Version]
    /\ orig \in [Writers -> Version]
    /\ known \in [Writers -> Nat]
    /\ mine \in [Writers -> Nat]
    /\ damaged \subseteq Writers
    /\ current \in [Writers -> {ModuleOf[t] : t \in Texts}]
    /\ result \in [Writers -> Results]
    /\ claim \in [Writers -> Claims]

Now == [text |-> text, count |-> count]

Init ==
    /\ text = Initial
    /\ count = 0
    /\ linked = Initial
    /\ foreign = 0
    /\ job \in [Writers -> Jobs]
    /\ pc = [w \in Writers |-> IF job[w].patch THEN "enter" ELSE "read"]
    /\ seen = [w \in Writers |-> Now]
    /\ orig = [w \in Writers |-> Now]
    /\ known = [w \in Writers |-> 0]
    /\ mine = [w \in Writers |-> 0]
    /\ damaged = {}
    /\ current = [w \in Writers |-> ModuleOf[Initial]]
    /\ result = [w \in Writers |-> "none"]
    /\ claim = [w \in Writers |-> "none"]

-----------------------------------------------------------------------------
(* Control flow of one invocation.                                         *)

At(w, p) == pc[w] = p

Inside(w) == pc[w] \in ScopePCs

Goto(w, p) ==
    /\ pc' = [pc EXCEPT ![w] = p]
    /\ UNCHANGED <<result, claim>>

\* The command is over, with result r; p is where the access is given back.
Finish(w, r, p) ==
    /\ pc' = [pc EXCEPT ![w] = p]
    /\ result' = [result EXCEPT ![w] = r]
    /\ UNCHANGED claim

\* A request under the access that raises, outside the try of the transaction.
Abort(w, o) == Finish(w, Raised(o), "leave")

\* A verification or build failure: restore the source, unless asked not to.
Undo(w, r) ==
    /\ result' = [result EXCEPT ![w] = r]
    /\ IF job[w].rollback
       THEN pc' = [pc EXCEPT ![w] = "undoCount"] /\ UNCHANGED claim
       ELSE /\ pc' = [pc EXCEPT ![w] = "leave"]
            /\ claim' = [claim EXCEPT ![w] = "notRestored"]

\* A faulty variant of Verify: the failed request leaves the transaction.
VerifyUncaught(w, o) == Abort(w, o)

\* A request inside the try that raises: an OmnicoreError is a verification
\* failure, an interrupt is not caught.
Verify(w, o) == IF Raised(o) = "error" THEN Undo(w, "error") ELSE Abort(w, o)

\* The end of the rollback.
Restored(w, ok) ==
    /\ pc' = [pc EXCEPT ![w] = "leave"]
    /\ claim' = [claim EXCEPT ![w] = IF ok THEN "restored" ELSE "notRestored"]
    /\ UNCHANGED result

\* A request of the rollback that raises.
UndoFails(w, o) == IF Raised(o) = "error" THEN Restored(w, FALSE) ELSE Abort(w, o)

\* A GET of the module by the name the invocation knows: the controller has
\* no module of another name.
Answers(w, o) == o = "done" => current[w] = ModuleOf[text]

Wanted(w) == job[w].change[seen[w].text]

-----------------------------------------------------------------------------
(* rapid write and rapid edit, before the access.                          *)

\* Show the diff for the version read; refuse a new source that is no module
\* or, without --allow-rename, another one.
ReadSource(w) ==
    /\ At(w, "read")
    /\ \E o \in ReadOutcomes :
          /\ Answers(w, o)
          /\ IF o = "done"
             THEN LET new == job[w].change[text] IN
                  /\ seen' = [seen EXCEPT ![w] = Now]
                  /\ IF new \in Invalid \/ (ModuleOf[new] # current[w] /\ ~job[w].rename)
                     THEN Finish(w, "error", "exited")
                     ELSE Goto(w, IF new = text THEN "reread" ELSE "enter")
             ELSE UNCHANGED seen /\ Finish(w, Raised(o), "exited")
    /\ UNCHANGED <<module, job, orig, known, mine, damaged, current>>

\* Without a difference write_module runs outside the access: it reads again
\* and, with the expected change count, finds nothing to write.
RereadSource(w) ==
    /\ At(w, "reread")
    /\ \E o \in ReadOutcomes :
          /\ Answers(w, o)
          /\ Finish(w, IF o # "done" THEN Raised(o)
                       ELSE IF count = seen[w].count THEN "unchanged" ELSE "error",
                    "exited")
    /\ UNCHANGED <<module, job, local>>

\* write_access: another invocation inside means that it is not granted.
EnterScope(w) ==
    /\ At(w, "enter")
    /\ \/ /\ Exclusive => \A v \in Writers : ~Inside(v)
          /\ Goto(w, "original")
       \/ Finish(w, "error", "exited")
       \/ Finish(w, "interrupt", "exited")
    /\ UNCHANGED <<module, job, local>>

-----------------------------------------------------------------------------
(* write_module and patch_module.                                          *)

\* A faulty variant of ReadOriginal: the expected change count is not compared.
ReadOriginalUnchecked(w) ==
    /\ At(w, "original")
    /\ \E o \in ReadOutcomes :
          /\ Answers(w, o)
          /\ IF o = "done"
             THEN /\ orig' = [orig EXCEPT ![w] = Now]
                  /\ CASE ~job[w].patch /\ text = Wanted(w)
                            -> Finish(w, "unchanged", "leave")
                       [] OTHER -> Goto(w, "count")
             ELSE UNCHANGED orig /\ Abort(w, o)
    /\ UNCHANGED <<module, job, seen, known, mine, damaged, current>>

\* The original is read again under the access; rapid write and rapid edit
\* expect the change count their diff was shown for.
ReadOriginal(w) ==
    /\ At(w, "original")
    /\ \E o \in ReadOutcomes :
          /\ Answers(w, o)
          /\ IF o = "done"
             THEN /\ orig' = [orig EXCEPT ![w] = Now]
                  /\ CASE ~job[w].patch /\ count # seen[w].count
                            -> Finish(w, "error", "leave")
                       [] ~job[w].patch /\ count = seen[w].count /\ text = Wanted(w)
                            -> Finish(w, "unchanged", "leave")
                       [] job[w].patch /\ text \in Invalid
                            -> Finish(w, "error", "leave")
                       [] OTHER -> Goto(w, "count")
             ELSE UNCHANGED orig /\ Abort(w, o)
    /\ UNCHANGED <<module, job, seen, known, mine, damaged, current>>

\* set_module_text and set_text_range: check the change count, then write.
CheckCount(w) ==
    /\ At(w, "count")
    /\ \E o \in ReadOutcomes :
          /\ Answers(w, o)
          /\ IF o = "done"
             THEN IF count = orig[w].count
                  THEN Goto(w, "post")
                  ELSE Finish(w, "error", "leave")
             ELSE Abort(w, o)
    /\ UNCHANGED <<module, job, local>>

\* The text the controller stores for a request to store t.
Stored(t) == {t} \cup Mangled

\* The source a write of w asks for: a patch works on the controller's text.
Requested(w) == IF job[w].patch THEN job[w].change[text] ELSE Wanted(w)

\* The controller stores a source and counts the change, or does nothing.
Store(w, o, t) ==
    /\ Applied(o) => current[w] = ModuleOf[text]
    /\ IF Applied(o)
       THEN text' \in Stored(t) /\ count' = count + 1
       ELSE UNCHANGED <<text, count>>
    /\ UNCHANGED <<linked, foreign>>

\* The answer may name the module, in case the source renamed it, and may give
\* the new change count; an empty answer gives neither.
Learn(w, named, counted) ==
    /\ current' = [current EXCEPT ![w] = IF named THEN ModuleOf[text'] ELSE @]
    /\ known' = [known EXCEPT ![w] = IF counted THEN count' ELSE @]

PostText(w) ==
    /\ At(w, "post")
    /\ \E o \in Outcomes, named, counted \in BOOLEAN :
          /\ Store(w, o, Requested(w))
          /\ IF o = "done"
             THEN /\ Learn(w, named, counted)
                  /\ Goto(w, IF counted THEN "readback" ELSE "postCount")
             ELSE UNCHANGED <<current, known>> /\ Abort(w, o)
          /\ mine' = [mine EXCEPT ![w] = IF Applied(o) THEN count' ELSE @]
    /\ UNCHANGED <<job, seen, orig, damaged>>

\* Without a count in the answer it is read, still outside the try.
ReadNewCount(w) ==
    /\ At(w, "postCount")
    /\ \E o \in ReadOutcomes :
          /\ Answers(w, o)
          /\ IF o = "done"
             THEN known' = [known EXCEPT ![w] = count] /\ Goto(w, "readback")
             ELSE UNCHANGED known /\ Abort(w, o)
    /\ UNCHANGED <<module, job, seen, orig, mine, damaged, current>>

\* A faulty variant of ReadBack: what was stored is not compared.
ReadBackUncompared(w) ==
    /\ At(w, "readback")
    /\ \E o \in ReadOutcomes :
          /\ Answers(w, o)
          /\ IF o = "done"
             THEN /\ known' = [known EXCEPT ![w] = count]
                  /\ IF job[w].build THEN Goto(w, "build") ELSE Finish(w, "ok", "leave")
             ELSE UNCHANGED known /\ Verify(w, o)
    /\ UNCHANGED <<module, job, seen, orig, mine, damaged, current>>

\* write_module compares the source, patch_module the change count of its
\* answer; from here on the rollback relies on the count just read.
ReadBack(w) ==
    /\ At(w, "readback")
    /\ \E o \in ReadOutcomes :
          /\ Answers(w, o)
          /\ IF o = "done"
             THEN /\ known' = [known EXCEPT ![w] = count]
                  /\ CASE \/ ~job[w].patch /\ text # Wanted(w)
                          \/ job[w].patch /\ text \in Invalid
                          \/ job[w].patch /\ count # known[w]
                            -> Undo(w, "error")
                       [] OTHER -> IF job[w].build
                                   THEN Goto(w, "build")
                                   ELSE Finish(w, "ok", "leave")
             ELSE UNCHANGED known /\ Verify(w, o)
    /\ UNCHANGED <<module, job, seen, orig, mine, damaged, current>>

\* build_task: the controller links what it has stored.
Link(o) ==
    /\ linked' = IF Applied(o) THEN text ELSE linked
    /\ UNCHANGED <<text, count, foreign>>

BuildTask(w) ==
    /\ At(w, "build")
    /\ \E o \in Outcomes :
          /\ Link(o)
          /\ IF o = "done" THEN Goto(w, "errors") ELSE Verify(w, o)
    /\ UNCHANGED <<job, local>>

\* get_build_errors: the errors of the last build of the task.
ReadBuildErrors(w) ==
    /\ At(w, "errors")
    /\ \E o \in ReadOutcomes :
          IF o = "done"
          THEN IF linked \in Broken THEN Undo(w, "build") ELSE Finish(w, "ok", "leave")
          ELSE Verify(w, o)
    /\ UNCHANGED <<module, job, local>>

-----------------------------------------------------------------------------
(* _restore_source: set_module_text again, guarded by `known`.             *)

UndoCount(w) ==
    /\ At(w, "undoCount")
    /\ \E o \in ReadOutcomes :
          /\ Answers(w, o)
          /\ IF o = "done"
             THEN IF count = known[w] THEN Goto(w, "undoPost") ELSE Restored(w, FALSE)
             ELSE UndoFails(w, o)
    /\ UNCHANGED <<module, job, local>>

\* What this write stores is read back by nobody.
UndoPost(w) ==
    /\ At(w, "undoPost")
    /\ \E o \in Outcomes, named, counted \in BOOLEAN :
          /\ Store(w, o, orig[w].text)
          /\ damaged' = IF Applied(o) /\ text' # orig[w].text
                        THEN damaged \cup {w} ELSE damaged
          /\ IF o = "done"
             THEN /\ Learn(w, named, counted)
                  /\ Goto(w, IF counted THEN "undoBuild" ELSE "undoPostCount")
             ELSE UNCHANGED <<current, known>> /\ UndoFails(w, o)
    /\ UNCHANGED <<job, seen, orig, mine>>

UndoNewCount(w) ==
    /\ At(w, "undoPostCount")
    /\ \E o \in ReadOutcomes :
          /\ Answers(w, o)
          /\ IF o = "done" THEN Goto(w, "undoBuild") ELSE UndoFails(w, o)
    /\ UNCHANGED <<module, job, local>>

UndoBuild(w) ==
    /\ At(w, "undoBuild")
    /\ \E o \in Outcomes :
          /\ Link(o)
          /\ IF o = "done" THEN Goto(w, "undoErrors") ELSE UndoFails(w, o)
    /\ UNCHANGED <<job, local>>

\* The rollback counts as done when the original links again.
UndoErrors(w) ==
    /\ At(w, "undoErrors")
    /\ \E o \in ReadOutcomes :
          IF o = "done" THEN Restored(w, linked \notin Broken) ELSE UndoFails(w, o)
    /\ UNCHANGED <<module, job, local>>

\* The finally block of write_access.
LeaveScope(w) ==
    /\ At(w, "leave")
    /\ Goto(w, "exited")
    /\ UNCHANGED <<module, job, local>>

-----------------------------------------------------------------------------
(* Everybody else.                                                         *)

\* Somebody else edits the module; under Exclusive nobody can while an
\* invocation holds the access.
ForeignEdit ==
    /\ foreign < MaxForeign
    /\ Exclusive => \A w \in Writers : ~Inside(w)
    /\ foreign' = foreign + 1
    /\ text' \in Texts \ {text}
    /\ count' = count + 1
    /\ UNCHANGED <<linked, job, pc, local, result, claim>>

Step(w) ==
    \/ ReadSource(w)   \/ RereadSource(w)    \/ EnterScope(w)
    \/ ReadOriginal(w) \/ CheckCount(w)      \/ PostText(w)
    \/ ReadNewCount(w) \/ ReadBack(w)        \/ BuildTask(w)
    \/ ReadBuildErrors(w) \/ UndoCount(w)    \/ UndoPost(w)
    \/ UndoNewCount(w) \/ UndoBuild(w)       \/ UndoErrors(w)
    \/ LeaveScope(w)

Next == (\E w \in Writers : Step(w)) \/ ForeignEdit

Spec == Init /\ [][Next]_vars

-----------------------------------------------------------------------------
(* Properties.                                                             *)

\* rapid write and rapid edit replace exactly the source whose diff was shown:
\* an edit made since, from anywhere, is not discarded unseen.
OverwritesOnlySeen ==
    [][\A w \in Writers :
          PostText(w) /\ count' # count /\ ~job[w].patch => Now = seen[w]]_vars

\* A command that reports success has stored the requested source, or the
\* patched original, and, unless --no-build, linked it without errors.
SuccessIsVerified ==
    \A w \in Writers :
        At(w, "leave") /\ result[w] = "ok" =>
            /\ ~job[w].patch => text = Wanted(w)
            /\ job[w].patch => text \in Stored(job[w].change[orig[w].text])
            /\ job[w].build => linked = text /\ text \notin Broken

\* A verification or build failure ends in one of two ways: the error says that
\* the module was not restored, or what the task now has links without errors
\* and is the source the transaction began with.  The one exception: the
\* rollback does not read back what it stored, so that a copy the controller
\* damaged counts as restored as long as it links.
FailureIsUndoneOrTold ==
    \A w \in Writers :
        At(w, "leave") /\ result[w] \in {"error", "build"} /\ known[w] # 0 =>
            \/ claim[w] = "notRestored"
            \/ /\ claim[w] = "restored"
               /\ linked = text
               /\ text \notin Broken
               /\ w \notin damaged => text = orig[w].text

\* The change-count guard of a rollback lets through only the change of its
\* own invocation.
RollbackUndoesOwnWrite ==
    [][\A w \in Writers :
          UndoCount(w) /\ pc'[w] = "undoPost" => count = mine[w]]_vars
=============================================================================

---------------------------- MODULE DeployProofs ----------------------------
(***************************************************************************)
(* Proofs about Deploy, for any number of deployments, any jobs and        *)
(* sources and any number of changes from outside: given that the write    *)
(* access keeps the deployments apart (ControlStation), a success is what  *)
(* was validated, a failure after the load is undone or told, and the      *)
(* rollback touches nothing but its own load.  No error is hidden, with or *)
(* without the access.                                                     *)
(***************************************************************************)
EXTENDS Deploy, TLAPS

Early   == {"enter", "list", "original", "upload", "load"}
Loading == {"readback", "build", "errors"}
Undoing == {"undoCount", "undoPost", "undoNewCount", "unload", "undoBuild",
            "undoErrors"}
Ending  == {"cleanList", "cleanDelete", "leave"}

-----------------------------------------------------------------------------
(* The invariant.                                                          *)

\* What an invocation has reported at each point of its way.
Placed(d) ==
    /\ pc[d] \in Early => d \notin loaded
    /\ pc[d] \in Early \cup Loading => result[d] = "none"
    /\ pc[d] \in Undoing => result[d] \in {"error", "build"}
    /\ pc[d] \in Early \cup Loading \cup Undoing => claim[d] = "none"
    /\ result[d] = "ok" => claim[d] = "none"

\* The write access is never held by two invocations.
Alone == \A d, e \in Deployers : Inside(d) /\ Inside(e) => d = e

\* Until it is undone, the last change of the module is the own load.
Own(d) == pc[d] \in Loading \cup {"undoCount", "undoPost", "unload"} => count = mine[d]

\* What is known of the module on the way to a success.
Right(d) ==
    /\ pc[d] \in {"build", "errors"} => text = job[d].source
    /\ At(d, "errors") => linked = text
    /\ pc[d] \in Ending /\ result[d] = "ok" => Deployed(d)
    /\ At(d, "leave") /\ result[d] = "ok" /\ job[d].cleanup =>
          staged = Absent \/ staged.by # d

\* The task has what it had, unless the controller stored the copy of the
\* rollback damaged.
Original(d) == d \notin damaged => text = orig[d]

\* What is known of the module on the way through a rollback.
Back(d) ==
    /\ At(d, "unload") => orig[d] = Absent
    /\ pc[d] \in {"undoNewCount", "undoBuild", "undoErrors"} => Original(d)
    /\ At(d, "undoErrors") => linked = text
    /\ d \in loaded /\ pc[d] \in Ending /\ result[d] \in {"error", "build"} =>
          \/ claim[d] = "notRestored"
          \/ /\ claim[d] = "restored"
             /\ linked = text
             /\ text \notin Broken
             /\ Original(d)
          \/ claim[d] = "none" /\ Deployed(d)

Sound == Alone /\ \A d \in Deployers : Own(d) /\ Right(d) /\ Back(d)

Reported == \A d \in Deployers : Placed(d)

-----------------------------------------------------------------------------
(* Control flow.                                                           *)

\* What a request that was not answered raises.
LEMMA RaisedType ==
  \A o \in Outcomes : Raised(o) = IF o = "done" THEN "none"
                                  ELSE IF o \in {"lost", "failed"} THEN "error"
                                  ELSE "interrupt"
  BY DEF Raised, Outcomes

\* Where each move takes an invocation.
LEMMA Moves ==
  ASSUME TypeOK, NEW d \in Deployers
  PROVE  /\ \A p : Goto(d, p) =>
               pc'[d] = p /\ result'[d] = result[d] /\ claim'[d] = claim[d]
         /\ \A r, p : Finish(d, r, p) =>
               pc'[d] = p /\ result'[d] = r /\ claim'[d] = claim[d]
         /\ \A r : Undo(d, r) =>
               /\ result'[d] = r
               /\ \/ /\ claim'[d] = claim[d]
                     /\ pc'[d] = IF orig[d] = Absent THEN "unload" ELSE "undoCount"
                  \/ pc'[d] = Cleanup(d) /\ claim'[d] = "notRestored"
         /\ \A b : Restored(d, b) =>
               /\ pc'[d] = Cleanup(d) /\ result'[d] = result[d]
               /\ claim'[d] = IF b THEN "restored" ELSE "notRestored"
  BY DEF Goto, Finish, Undo, Restored, TypeOK

\* What the compound moves are made of.
LEMMA Compounds ==
  ASSUME NEW d \in Deployers, NEW o \in Outcomes
  PROVE  /\ \A p : Continue(d, o, p) =>
               \/ o = "done" /\ Goto(d, p)
               \/ \E r \in {"error", "interrupt"} : Finish(d, r, "leave")
         /\ o # "done" => \E r \in {"error", "interrupt"} : Raised(o) = r
         /\ o # "done" /\ Verify(d, o) =>
               Undo(d, "error") \/ Finish(d, "interrupt", Cleanup(d))
         /\ o # "done" /\ UndoFails(d, o) =>
               Restored(d, FALSE) \/ Finish(d, "interrupt", Cleanup(d))
         /\ \A p : Undone(d, o, p) =>
               \/ o = "done" /\ Goto(d, p)
               \/ Restored(d, FALSE) \/ Finish(d, "interrupt", Cleanup(d))
  BY RaisedType DEF Continue, Verify, UndoFails, Undone, Leave

\* Everything a step can do to where its invocation stands.
Flows(d) == \E p \in PCs, r \in Results, b \in BOOLEAN :
    Goto(d, p) \/ Finish(d, r, p) \/ Undo(d, r) \/ Restored(d, b)

\* Every step of an invocation is one of these moves.
LEMMA StepFlows ==
  ASSUME NEW d \in Deployers, Step(d)
  PROVE  Flows(d)
<1>1. /\ {"none", "ok", "error", "build", "interrupt"} \subseteq Results
      /\ \A o \in Outcomes : Raised(o) \in Results
      /\ ReadOutcomes \subseteq Outcomes
      /\ Cleanup(d) \in PCs /\ PCs # {}
  BY RaisedType DEF Results, ReadOutcomes, Outcomes, Cleanup, PCs
<1>2. CASE EnterScope(d) \/ ListModules(d) \/ ReadOriginal(d) \/ UploadFile(d)
  <2>1. \A o \in Outcomes, p \in PCs : Continue(d, o, p) => Flows(d)
    BY <1>1 DEF Flows, Continue, PCs
  <2>2. CASE EnterScope(d)
    BY <1>1, <2>2 DEF EnterScope, Flows, PCs
  <2>3. CASE ListModules(d)
    BY <1>1, <2>1, <2>3 DEF ListModules, Flows, PCs
  <2>4. CASE ReadOriginal(d) \/ UploadFile(d)
    BY <1>1, <2>1, <2>4 DEF ReadOriginal, UploadFile, PCs
  <2> QED BY <1>2, <2>2, <2>3, <2>4
<1>3. CASE LoadModule(d)
  BY <1>1, <1>3 DEF LoadModule, Leave, Flows, PCs
<1>4. CASE ReadBack(d) \/ BuildTask(d) \/ ReadBuildErrors(d)
  <2>1. \A o \in Outcomes : Verify(d, o) => Flows(d)
    BY <1>1 DEF Flows, Verify, Leave
  <2>2. CASE ReadBack(d)
    BY <1>1, <2>1, <2>2 DEF ReadBack, Leave, Flows, PCs
  <2>3. CASE BuildTask(d)
    BY <1>1, <2>1, <2>3 DEF BuildTask, Flows, PCs
  <2>4. CASE ReadBuildErrors(d)
    BY <1>1, <2>1, <2>4 DEF ReadBuildErrors, Leave, Flows, PCs
  <2> QED BY <1>4, <2>2, <2>3, <2>4
<1>5. CASE \/ UndoCount(d) \/ UndoPost(d) \/ UndoNewCount(d) \/ UnloadModule(d)
           \/ UndoBuild(d) \/ UndoErrors(d)
  <2>1. \A o \in Outcomes : UndoFails(d, o) => Flows(d)
    BY <1>1 DEF Flows, UndoFails, Leave
  <2>2. \A o \in Outcomes, p \in PCs : Undone(d, o, p) => Flows(d)
    BY <1>1, <2>1 DEF Flows, Undone
  <2>3. CASE UndoCount(d)
    <3>1. PICK o \in ReadOutcomes :
            \/ UndoFails(d, o) \/ Restored(d, FALSE)
            \/ Goto(d, "undoCount") \/ Goto(d, "undoPost")
      BY <2>3 DEF UndoCount
    <3>2. Restored(d, FALSE) => Flows(d)
      BY <1>1 DEF Flows
    <3>3. Goto(d, "undoCount") \/ Goto(d, "undoPost") => Flows(d)
      BY <1>1 DEF Flows, PCs
    <3> QED BY <1>1, <2>1, <3>1, <3>2, <3>3
  <2>4. CASE UndoPost(d) \/ UndoNewCount(d) \/ UnloadModule(d) \/ UndoBuild(d)
    BY <1>1, <2>2, <2>4 DEF UndoPost, UndoNewCount, UnloadModule, UndoBuild, PCs
  <2>5. CASE UndoErrors(d)
    <3>1. Restored(d, linked \notin Broken) => Restored(d, TRUE) \/ Restored(d, FALSE)
      BY DEF Restored
    <3>2. Restored(d, TRUE) \/ Restored(d, FALSE) => Flows(d)
      BY <1>1 DEF Flows
    <3>3. PICK o \in ReadOutcomes :
            Restored(d, linked \notin Broken) \/ UndoFails(d, o)
      BY <2>5 DEF UndoErrors
    <3> QED BY <1>1, <2>1, <3>1, <3>2, <3>3
  <2> QED BY <1>5, <2>3, <2>4, <2>5
<1>6. CASE ListStaging(d) \/ DeleteStaging(d) \/ LeaveScope(d)
  <2>1. \A e \in Results : CleanFails(d, e) => Flows(d)
    BY DEF CleanFails, Flows, PCs
  <2>2. \A o \in Outcomes : Required(o, FALSE) \in Results
    BY <1>1 DEF Required
  <2> QED BY <1>1, <1>6, <2>1, <2>2
          DEF ListStaging, DeleteStaging, LeaveScope, Flows, PCs
<1> QED BY <1>2, <1>3, <1>4, <1>5, <1>6 DEF Step

-----------------------------------------------------------------------------
(* Types.                                                                  *)

\* The control flow stays within its types.
LEMMA FlowType ==
  ASSUME TypeOK, NEW d \in Deployers, Flows(d)
  PROVE  /\ pc' \in [Deployers -> PCs]
         /\ result' \in [Deployers -> Results]
         /\ claim' \in [Deployers -> Claims]
<1> USE DEF TypeOK
<1>1. PICK p \in PCs, r \in Results, b \in BOOLEAN :
        Goto(d, p) \/ Finish(d, r, p) \/ Undo(d, r) \/ Restored(d, b)
  BY DEF Flows
<1>2. Cleanup(d) \in PCs /\ {"unload", "undoCount"} \subseteq PCs
  BY DEF Cleanup, PCs
<1>3. {"none", "restored", "notRestored"} \subseteq Claims
  BY DEF Claims
<1>4. CASE Goto(d, p)
  BY <1>4 DEF Goto
<1>5. CASE Finish(d, r, p)
  BY <1>5 DEF Finish
<1>6. CASE Undo(d, r)
  BY <1>2, <1>3, <1>6 DEF Undo
<1>7. CASE Restored(d, b)
  BY <1>2, <1>3, <1>7 DEF Restored
<1> QED BY <1>1, <1>4, <1>5, <1>6, <1>7

\* What the controller stores, links and stages has its type.
LEMMA ModuleType ==
  ASSUME TypeOK, NEW d \in Deployers, Step(d)
  PROVE  /\ text' \in Sources /\ linked' \in Sources /\ count' \in Nat \ {0}
         /\ staged' \in Files /\ foreign' = foreign /\ job' = job
<1>1. UNCHANGED <<foreign, job>>
  BY DEF Step, EnterScope, ListModules, ReadOriginal, UploadFile, LoadModule,
     ReadBack, BuildTask, ReadBuildErrors, UndoCount, UndoPost, UndoNewCount,
     UnloadModule, UndoBuild, UndoErrors, ListStaging, DeleteStaging, LeaveScope
<1>2. CASE UploadFile(d)
  <2>1. job[d].source \in Texts /\ Edited \in Texts
    BY JobsAssumption, TextsAssumption DEF TypeOK
  <2>2. staged' \in Files /\ UNCHANGED module
    BY <1>2, <2>1 DEF UploadFile, Files, TypeOK
  <2> QED BY <1>1, <2>2 DEF TypeOK, module
<1>3. CASE LoadModule(d)
  <2>1. staged # Absent => staged.text \in Texts
    BY DEF TypeOK, Files
  <2>2. PICK o \in Outcomes : Load(d, o)
    BY <1>3 DEF LoadModule
  <2>3. text' \in Sources /\ count' \in Nat \ {0}
    BY <2>1, <2>2, TextsAssumption DEF Load, Stored, Sources, TypeOK
  <2> QED BY <1>1, <1>3, <2>3 DEF LoadModule, TypeOK
<1>4. CASE UndoPost(d)
  <2>1. orig[d] \in Sources /\ Mangled \subseteq Sources
    BY TextsAssumption DEF TypeOK, Sources
  <2>2. text' \in Sources /\ count' \in Nat \ {0}
    BY <1>4, <2>1 DEF UndoPost, Stored, TypeOK
  <2> QED BY <1>1, <1>4, <2>2 DEF UndoPost, TypeOK
<1>5. CASE UnloadModule(d) \/ BuildTask(d) \/ UndoBuild(d)
  BY <1>1, <1>5 DEF UnloadModule, BuildTask, UndoBuild, Link, TypeOK, Sources
<1>6. CASE DeleteStaging(d)
  BY <1>1, <1>6 DEF DeleteStaging, module, TypeOK, Files
<1>7. CASE \/ EnterScope(d) \/ ListModules(d) \/ ReadOriginal(d) \/ ReadBack(d)
           \/ ReadBuildErrors(d) \/ UndoCount(d) \/ UndoNewCount(d)
           \/ UndoErrors(d) \/ ListStaging(d) \/ LeaveScope(d)
  <2>1. UNCHANGED <<module, staged>>
    BY <1>7 DEF EnterScope, ListModules, ReadOriginal, ReadBack, ReadBuildErrors,
       UndoCount, UndoNewCount, UndoErrors, ListStaging, LeaveScope
  <2> QED BY <1>1, <2>1 DEF module, TypeOK
<1> QED BY <1>2, <1>3, <1>4, <1>5, <1>6, <1>7 DEF Step

\* What an invocation remembers has its type, and is its own.
LEMMA LocalType ==
  ASSUME TypeOK, NEW d \in Deployers, Step(d)
  PROVE  /\ orig' \in [Deployers -> Sources] /\ loaded' \in {loaded, loaded \cup {d}}
         /\ known' \in [Deployers -> Nat] /\ mine' \in [Deployers -> Nat]
         /\ damaged' \in {damaged, damaged \cup {d}}
         /\ \A e \in Deployers : e # d => orig'[e] = orig[e] /\ mine'[e] = mine[e]
<1>1. CASE ReadOriginal(d)
  BY <1>1 DEF ReadOriginal, TypeOK
<1>2. CASE LoadModule(d)
  <2>1. PICK o \in Outcomes : Load(d, o)
    BY <1>2 DEF LoadModule
  <2>2. count' \in Nat
    BY ModuleType
  <2> QED BY <1>2, <2>1, <2>2 DEF LoadModule, Load, TypeOK
<1>3. CASE ReadBack(d) \/ UndoCount(d)
  <2>1. /\ UNCHANGED <<orig, loaded, mine, damaged>>
        /\ \E b \in BOOLEAN : known' = [known EXCEPT ![d] = IF b THEN count ELSE @]
    BY <1>3 DEF ReadBack, UndoCount
  <2> QED BY <2>1 DEF TypeOK
<1>4. CASE UndoPost(d)
  BY <1>4 DEF UndoPost, TypeOK
<1>5. CASE ~(\/ ReadOriginal(d) \/ LoadModule(d) \/ ReadBack(d) \/ UndoCount(d)
             \/ UndoPost(d))
  <2>1. UNCHANGED local
    BY <1>5 DEF Step, EnterScope, ListModules, UploadFile, BuildTask,
       ReadBuildErrors, UndoNewCount, UnloadModule, UndoBuild,
       UndoErrors, ListStaging, DeleteStaging, LeaveScope
  <2> QED BY <2>1 DEF local, TypeOK
<1> QED BY <1>1, <1>2, <1>3, <1>4, <1>5

\* The module, the staging file, the jobs, what the invocations know and where
\* they stand have their types.
THEOREM TypeCorrect == Spec => []TypeOK
<1>1. Init => TypeOK
  BY TextsAssumption, ForeignAssumption
  DEF Init, TypeOK, Sources, Files, PCs, Results, Claims
<1>2. TypeOK /\ [Next]_vars => TypeOK'
  <2> SUFFICES ASSUME TypeOK, [Next]_vars PROVE TypeOK'
    OBVIOUS
  <2>1. ASSUME NEW d \in Deployers, Step(d) PROVE TypeOK'
    BY <2>1, StepFlows, FlowType, ModuleType, LocalType DEF TypeOK
  <2>2. CASE ForeignEdit
    BY <2>2, ForeignAssumption DEF ForeignEdit, local, TypeOK
  <2>3. CASE ForeignFile
    <3>1. staged' \in Files
      BY <2>3 DEF ForeignFile, Files
    <3> QED BY <2>3, <3>1, ForeignAssumption DEF ForeignFile, module, local, TypeOK
  <2>4. CASE UNCHANGED vars
    BY <2>4 DEF vars, TypeOK
  <2> QED BY <2>1, <2>2, <2>3, <2>4 DEF Next
<1> QED BY <1>1, <1>2, PTL DEF Spec

-----------------------------------------------------------------------------
(* What the steps of each stage do.                                        *)

\* Up to the load an invocation goes on, or gives up before it has loaded.
LEMMA EarlyEffect ==
  ASSUME TypeOK, NEW d \in Deployers,
         \/ EnterScope(d) \/ ListModules(d) \/ ReadOriginal(d) \/ UploadFile(d)
         \/ LoadModule(d)
  PROVE  /\ pc[d] \in Early /\ claim'[d] = claim[d]
         /\ \/ /\ pc'[d] \in Early /\ result'[d] = result[d] /\ loaded' = loaded
               /\ UNCHANGED <<text, count, mine>>
            \/ /\ pc'[d] = "readback" /\ result'[d] = result[d]
               /\ count' = mine'[d]
            \/ /\ pc'[d] \in Ending \cup {"exited"}
               /\ result'[d] \in {"error", "interrupt"} /\ loaded' = loaded
<1> USE DEF Early, Ending
<1>1. ReadOutcomes \subseteq Outcomes /\ Cleanup(d) \in Ending
  BY DEF ReadOutcomes, Outcomes, Cleanup
<1>2. CASE EnterScope(d) \/ ListModules(d) \/ ReadOriginal(d) \/ UploadFile(d)
  <2>1. UNCHANGED <<text, count, mine, loaded>> /\ pc[d] \in Early
    BY <1>2 DEF EnterScope, ListModules, ReadOriginal, UploadFile, module, local, At
  <2>2. \/ \E p \in Early : Goto(d, p)
        \/ \E r \in {"error", "interrupt"}, p \in {"leave", "exited"} : Finish(d, r, p)
    <3>1. CASE EnterScope(d)
      BY <3>1 DEF EnterScope
    <3>2. CASE ListModules(d)
      BY <1>1, <3>2, Compounds DEF ListModules
    <3>3. CASE ReadOriginal(d) \/ UploadFile(d)
      BY <1>1, <3>3, Compounds DEF ReadOriginal, UploadFile
    <3> QED BY <1>2, <3>1, <3>2, <3>3
  <2> QED BY <2>1, <2>2, Moves
<1>3. CASE LoadModule(d)
  <2>1. PICK o \in Outcomes :
          /\ Load(d, o)
          /\ IF o = "done" THEN Goto(d, "readback") ELSE Leave(d, Raised(o))
    BY <1>3 DEF LoadModule
  <2>2. pc[d] \in Early
    BY <1>3 DEF LoadModule, At
  <2>3. CASE o = "done"
    BY <2>1, <2>2, <2>3, Moves DEF Load, Applied, TypeOK
  <2>4. CASE o # "done"
    <3>1. loaded' = loaded
      BY <2>1, <2>4 DEF Load
    <3>2. \E r \in {"error", "interrupt"} : Finish(d, r, Cleanup(d))
      BY <2>1, <2>4, Compounds DEF Leave
    <3> QED BY <1>1, <2>2, <3>1, <3>2, Moves
  <2> QED BY <2>3, <2>4
<1> QED BY <1>2, <1>3

\* The verification and the build go on, succeed, are interrupted, or start the
\* rollback or renounce it.
LEMMA LoadingEffect ==
  ASSUME TypeOK, NEW d \in Deployers, ReadBack(d) \/ BuildTask(d) \/ ReadBuildErrors(d)
  PROVE  /\ pc[d] \in Loading
         /\ UNCHANGED <<text, count, staged, job, orig, loaded, mine>>
         /\ \/ /\ pc[d] = "readback" /\ pc'[d] = "build"
               /\ text = job[d].source /\ UNCHANGED linked
               /\ result'[d] = result[d] /\ claim'[d] = claim[d]
            \/ /\ pc[d] = "build" /\ pc'[d] = "errors" /\ linked' = text
               /\ result'[d] = result[d] /\ claim'[d] = claim[d]
            \/ /\ pc'[d] = Cleanup(d) /\ UNCHANGED linked
               /\ result'[d] = "ok" /\ claim'[d] = claim[d]
               /\ \/ pc[d] = "readback" /\ text = job[d].source /\ ~job[d].build
                  \/ pc[d] = "errors" /\ linked \notin Broken
            \/ /\ pc'[d] = IF orig[d] = Absent THEN "unload" ELSE "undoCount"
               /\ result'[d] \in {"error", "build"} /\ claim'[d] = claim[d]
            \/ /\ pc'[d] = Cleanup(d)
               /\ result'[d] \in {"error", "build"} /\ claim'[d] = "notRestored"
            \/ /\ pc'[d] = Cleanup(d)
               /\ result'[d] = "interrupt" /\ claim'[d] = claim[d]
<1> USE DEF Loading
<1>1. ReadOutcomes \subseteq Outcomes
  BY DEF ReadOutcomes, Outcomes
<1>2. UNCHANGED <<text, count, staged, job, orig, loaded, mine>>
  BY DEF ReadBack, BuildTask, ReadBuildErrors, module, local
<1>3. CASE ReadBack(d)
  <2>1. pc[d] = "readback" /\ UNCHANGED linked
    BY <1>3 DEF ReadBack, At, module
  <2>2. PICK o \in ReadOutcomes :
          \/ o # "done" /\ Verify(d, o)
          \/ Undo(d, "error")
          \/ text = job[d].source /\ Goto(d, "build")
          \/ text = job[d].source /\ ~job[d].build /\ Finish(d, "ok", Cleanup(d))
    BY <1>3 DEF ReadBack, Leave
  <2> QED BY <1>1, <1>2, <2>1, <2>2, Compounds, Moves
<1>4. CASE BuildTask(d)
  <2>1. pc[d] = "build"
    BY <1>4 DEF BuildTask, At
  <2>2. PICK o \in Outcomes :
          \/ linked' = text /\ Goto(d, "errors")
          \/ o # "done" /\ Verify(d, o)
    BY <1>4 DEF BuildTask, Link, Applied
  <2> QED BY <1>2, <2>1, <2>2, Compounds, Moves
<1>5. CASE ReadBuildErrors(d)
  <2>1. pc[d] = "errors" /\ UNCHANGED linked
    BY <1>5 DEF ReadBuildErrors, At, module
  <2>2. PICK o \in ReadOutcomes :
          \/ o # "done" /\ Verify(d, o)
          \/ Undo(d, "build")
          \/ linked \notin Broken /\ Finish(d, "ok", Cleanup(d))
    BY <1>5 DEF ReadBuildErrors, Leave
  <2> QED BY <1>1, <1>2, <2>1, <2>2, Compounds, Moves
<1> QED BY <1>3, <1>4, <1>5

\* The rollback goes on, is done, fails, or is interrupted.
LEMMA UndoEffect ==
  ASSUME TypeOK, NEW d \in Deployers,
         \/ UndoCount(d) \/ UndoPost(d) \/ UndoNewCount(d) \/ UnloadModule(d)
         \/ UndoBuild(d) \/ UndoErrors(d)
  PROVE  /\ pc[d] \in Undoing
         /\ UNCHANGED <<staged, job, orig, loaded, mine>>
         /\ pc[d] # "undoPost" => damaged' = damaged
         /\ \/ /\ result'[d] = result[d] /\ claim'[d] = claim[d]
               /\ \/ /\ pc[d] = "undoCount" /\ pc'[d] \in {"undoCount", "undoPost"}
                     /\ UNCHANGED module
                  \/ /\ pc[d] \in {"undoPost", "unload"}
                     /\ pc'[d] \in {"undoNewCount", "undoBuild"}
                     /\ IF pc[d] = "unload" THEN text' = Absent
                                            ELSE Original(d)'
                  \/ /\ pc[d] = "undoNewCount" /\ pc'[d] = "undoBuild"
                     /\ UNCHANGED module
                  \/ /\ pc[d] = "undoBuild" /\ pc'[d] = "undoErrors"
                     /\ text' = text /\ linked' = text
            \/ /\ pc'[d] = Cleanup(d) /\ result'[d] = result[d]
               /\ \/ claim'[d] = "notRestored"
                  \/ /\ pc[d] = "undoErrors" /\ claim'[d] = "restored"
                     /\ linked \notin Broken /\ UNCHANGED module
            \/ /\ pc'[d] = Cleanup(d)
               /\ result'[d] = "interrupt" /\ claim'[d] = claim[d]
<1> USE DEF Undoing
<1>1. ReadOutcomes \subseteq Outcomes
  BY DEF ReadOutcomes, Outcomes
<1>2. /\ UNCHANGED <<staged, job, orig, loaded, mine>>
      /\ pc[d] # "undoPost" => damaged' = damaged
  BY DEF UndoCount, At, UndoPost, UndoNewCount, UnloadModule, UndoBuild, UndoErrors, local
<1>3. CASE UndoCount(d)
  <2>1. pc[d] = "undoCount" /\ UNCHANGED module
    BY <1>3 DEF UndoCount, At
  <2>2. PICK o \in ReadOutcomes :
          \/ o # "done" /\ UndoFails(d, o)
          \/ Goto(d, "undoCount") \/ Goto(d, "undoPost") \/ Restored(d, FALSE)
    BY <1>3 DEF UndoCount
  <2> QED BY <1>1, <1>2, <2>1, <2>2, Compounds, Moves
<1>4. CASE UndoPost(d)
  <2>1. pc[d] = "undoPost"
    BY <1>4 DEF UndoPost, At
  <2>2. PICK o \in Outcomes, counted \in BOOLEAN :
          /\ damaged' = IF Applied(o) /\ text' # orig[d]
                        THEN damaged \cup {d} ELSE damaged
          /\ Undone(d, o, IF counted THEN "undoBuild" ELSE "undoNewCount")
    BY <1>4 DEF UndoPost
  <2>3. o = "done" => Original(d)'
    BY <1>2, <2>2 DEF Applied, Original
  <2> QED BY <1>2, <2>1, <2>2, <2>3, Compounds, Moves
<1>5. CASE UndoNewCount(d)
  <2>1. pc[d] = "undoNewCount" /\ UNCHANGED module
    BY <1>5 DEF UndoNewCount, At
  <2>2. PICK o \in ReadOutcomes : Undone(d, o, "undoBuild")
    BY <1>5 DEF UndoNewCount
  <2> QED BY <1>1, <1>2, <2>1, <2>2, Compounds, Moves
<1>6. CASE UnloadModule(d)
  <2>1. pc[d] = "unload"
    BY <1>6 DEF UnloadModule, At
  <2>2. PICK o \in Outcomes :
          text' = (IF Applied(o) THEN Absent ELSE text) /\ Undone(d, o, "undoBuild")
    BY <1>6 DEF UnloadModule
  <2>3. o = "done" => text' = Absent
    BY <2>2 DEF Applied
  <2> QED BY <1>2, <2>1, <2>2, <2>3, Compounds, Moves
<1>7. CASE UndoBuild(d)
  <2>1. pc[d] = "undoBuild" /\ text' = text
    BY <1>7 DEF UndoBuild, At
  <2>2. PICK o \in Outcomes : Link(o) /\ Undone(d, o, "undoErrors")
    BY <1>7 DEF UndoBuild
  <2>3. o = "done" => linked' = text
    BY <2>2 DEF Link, Applied
  <2> QED BY <1>2, <2>1, <2>2, <2>3, Compounds, Moves
<1>8. CASE UndoErrors(d)
  <2>1. pc[d] = "undoErrors" /\ UNCHANGED module
    BY <1>8 DEF UndoErrors, At
  <2>2. PICK o \in ReadOutcomes :
          \/ o # "done" /\ UndoFails(d, o)
          \/ Restored(d, linked \notin Broken)
    BY <1>8 DEF UndoErrors
  <2>3. CASE Restored(d, linked \notin Broken)
    <3>1. \/ linked \notin Broken /\ Restored(d, TRUE)
          \/ Restored(d, FALSE)
      BY <2>3 DEF Restored
    <3> QED BY <1>2, <2>1, <3>1, Moves
  <2>4. CASE o # "done" /\ UndoFails(d, o)
    BY <1>1, <1>2, <2>1, <2>4, Compounds, Moves
  <2> QED BY <2>2, <2>3, <2>4
<1> QED BY <1>3, <1>4, <1>5, <1>6, <1>7, <1>8

\* The clean-up replaces a success by its own error, and nothing else but by an
\* interrupt; it ends without an error only when the staging file is gone.
LEMMA EndingEffect ==
  ASSUME TypeOK, NEW d \in Deployers,
         ListStaging(d) \/ DeleteStaging(d) \/ LeaveScope(d)
  PROVE  /\ pc[d] \in Ending /\ claim'[d] = claim[d]
         /\ UNCHANGED <<module, job, orig, loaded, mine, damaged>>
         /\ \/ pc'[d] \in {"cleanDelete", "exited"} /\ result'[d] = result[d]
            \/ /\ pc'[d] = "leave" /\ result'[d] = result[d]
               /\ result[d] # "ok" \/ staged' = Absent
            \/ pc'[d] = "leave" /\ result[d] = "ok" /\ result'[d] = "error"
            \/ pc'[d] = "leave" /\ result'[d] = "interrupt"
<1> USE DEF Ending
<1>1. UNCHANGED <<module, job, orig, loaded, mine, damaged>>
  BY DEF ListStaging, DeleteStaging, LeaveScope, local
<1>2. ASSUME NEW e \in {"error", "interrupt"}, CleanFails(d, e)
      PROVE  /\ pc'[d] = "leave" /\ claim'[d] = claim[d]
             /\ \/ result'[d] = result[d] /\ result[d] # "ok"
                \/ result[d] = "ok" /\ result'[d] = "error"
                \/ result'[d] = "interrupt"
  BY <1>2, Moves DEF CleanFails
<1>3. CASE ListStaging(d)
  <2>1. pc[d] \in Ending
    BY <1>3 DEF ListStaging, At
  <2>2. PICK o \in ReadOutcomes :
          Goto(d, "cleanDelete") \/ CleanFails(d, Required(o, FALSE))
    BY <1>3 DEF ListStaging
  <2>3. Required(o, FALSE) \in {"error", "interrupt"}
    BY DEF Required, Raised, ReadOutcomes
  <2> QED BY <1>1, <1>2, <2>1, <2>2, <2>3, Moves
<1>4. CASE DeleteStaging(d)
  <2>1. pc[d] \in Ending
    BY <1>4 DEF DeleteStaging, At
  <2>2. PICK o \in Outcomes :
          \/ staged' = Absent /\ Goto(d, "leave")
          \/ o # "done" /\ CleanFails(d, Raised(o))
    BY <1>4 DEF DeleteStaging, Applied
  <2>3. o # "done" => Raised(o) \in {"error", "interrupt"}
    BY RaisedType
  <2> QED BY <1>1, <1>2, <2>1, <2>2, <2>3, Moves
<1>5. CASE LeaveScope(d)
  <2>1. pc[d] \in Ending /\ Goto(d, "exited")
    BY <1>5 DEF LeaveScope, At
  <2> QED BY <1>1, <2>1, Moves
<1> QED BY <1>3, <1>4, <1>5

-----------------------------------------------------------------------------
(* No error is hidden.                                                     *)

\* A step of one invocation is no step of another one.
LEMMA StepLeavesOthers ==
  ASSUME TypeOK, NEW d \in Deployers, Step(d), NEW e \in Deployers, e # d
  PROVE  /\ pc'[e] = pc[e] /\ result'[e] = result[e] /\ claim'[e] = claim[e]
         /\ orig'[e] = orig[e] /\ mine'[e] = mine[e] /\ job' = job
         /\ e \in loaded' <=> e \in loaded
         /\ e \in damaged' <=> e \in damaged
<1>1. PICK p \in PCs, r \in Results, b \in BOOLEAN :
        Goto(d, p) \/ Finish(d, r, p) \/ Undo(d, r) \/ Restored(d, b)
  BY StepFlows DEF Flows
<1>2. pc'[e] = pc[e] /\ result'[e] = result[e] /\ claim'[e] = claim[e]
  BY <1>1 DEF Goto, Finish, Undo, Restored, TypeOK
<1> QED BY <1>2, LocalType, ModuleType

\* What an invocation reports fits where it stands, after every step.
LEMMA ReportedStep ==
  ASSUME TypeOK, Reported, NEW d \in Deployers, Step(d)
  PROVE  Reported'
<1> USE DEF Early, Loading, Undoing, Ending
<1>1. Placed(d)
  BY DEF Reported
<1>2. \A e \in Deployers : e # d => Placed(e)'
  BY StepLeavesOthers DEF Reported, Placed
<1>3. Cleanup(d) \in {"cleanList", "leave"}
  BY DEF Cleanup
<1>4. CASE \/ EnterScope(d) \/ ListModules(d) \/ ReadOriginal(d) \/ UploadFile(d)
           \/ LoadModule(d)
  <2>1. Placed(d)'
    BY <1>1, <1>4, EarlyEffect DEF Placed
  <2> QED BY <1>2, <2>1 DEF Reported
<1>5. CASE ReadBack(d) \/ BuildTask(d) \/ ReadBuildErrors(d)
  <2>1. Placed(d)'
    BY <1>1, <1>3, <1>5, LoadingEffect DEF Placed
  <2> QED BY <1>2, <2>1 DEF Reported
<1>6. CASE \/ UndoCount(d) \/ UndoPost(d) \/ UndoNewCount(d) \/ UnloadModule(d)
           \/ UndoBuild(d) \/ UndoErrors(d)
  <2>1. Placed(d)'
    BY <1>1, <1>3, <1>6, UndoEffect DEF Placed
  <2> QED BY <1>2, <2>1 DEF Reported
<1>7. CASE ListStaging(d) \/ DeleteStaging(d) \/ LeaveScope(d)
  <2>1. Placed(d)'
    BY <1>1, <1>7, EndingEffect DEF Placed
  <2> QED BY <1>2, <2>1 DEF Reported
<1> QED BY <1>4, <1>5, <1>6, <1>7 DEF Step

\* Invocations report at the points where the code raises or returns.
LEMMA ReportedAlways == Spec => []Reported
<1>1. Init => Reported
  BY DEF Init, Reported, Placed, Early, Loading, Undoing
<1>2. TypeOK /\ Reported /\ [Next]_vars => Reported'
  <2> SUFFICES ASSUME TypeOK, Reported, [Next]_vars PROVE Reported'
    OBVIOUS
  <2>1. CASE ForeignEdit \/ ForeignFile \/ UNCHANGED vars
    BY <2>1 DEF ForeignEdit, ForeignFile, local, vars, Reported, Placed
  <2> QED BY <2>1, ReportedStep DEF Next
<1> QED BY <1>1, <1>2, TypeCorrect, PTL DEF Spec

\* The error of a deployment is reported as what it was, whatever the rollback
\* and the clean-up meet, unless the user interrupts the command.
THEOREM FailureIsKeptHolds == Spec => FailureIsKept
<1>1. ASSUME TypeOK, Reported, [Next]_vars, NEW d \in Deployers,
             result[d] \in {"error", "build"}
      PROVE  result'[d] \in {result[d], "interrupt"}
  <2>1. ASSUME NEW e \in Deployers, Step(e), e # d
        PROVE  result'[d] = result[d]
    BY <1>1, <2>1, StepLeavesOthers
  <2>2. CASE Step(d)
    <3>1. pc[d] \notin Early \cup Loading
      BY <1>1 DEF Reported, Placed
    <3>2. CASE ~(ListStaging(d) \/ DeleteStaging(d) \/ LeaveScope(d))
      <4>1. \/ UndoCount(d) \/ UndoPost(d) \/ UndoNewCount(d) \/ UnloadModule(d)
            \/ UndoBuild(d) \/ UndoErrors(d)
        BY <1>1, <2>2, <3>1, <3>2, EarlyEffect, LoadingEffect DEF Step
      <4> QED BY <1>1, <4>1, UndoEffect
    <3> QED BY <1>1, <3>2, EndingEffect
  <2>3. CASE ForeignEdit \/ ForeignFile \/ UNCHANGED vars
    BY <2>3 DEF ForeignEdit, ForeignFile, vars
  <2> QED BY <1>1, <2>1, <2>2, <2>3 DEF Next
<1>2. TypeOK /\ Reported /\ [Next]_vars =>
        [\A d \in Deployers : result[d] \in {"error", "build"} =>
            result'[d] \in {result[d], "interrupt"}]_vars
  BY <1>1
<1> QED BY <1>2, TypeCorrect, ReportedAlways, PTL DEF Spec, FailureIsKept

-----------------------------------------------------------------------------
(* Under the access.                                                       *)

\* The module and the staging file change only by a step under the access.
LEMMA StepModule ==
  ASSUME TypeOK, NEW d \in Deployers, Step(d), ~Inside(d)
  PROVE  UNCHANGED <<text, count, linked, staged>>
<1>1. pc[d] \in {"enter", "exited"}
  BY DEF Inside
<1>2. EnterScope(d)
  BY <1>1 DEF Step, ListModules, ReadOriginal, UploadFile, LoadModule, ReadBack,
     BuildTask, ReadBuildErrors, UndoCount, UndoPost, UndoNewCount, UnloadModule,
     UndoBuild, UndoErrors, ListStaging, DeleteStaging, LeaveScope, At
<1> QED BY <1>2 DEF EnterScope, module

\* The access is entered only while nobody holds it.
LEMMA StepAlone ==
  ASSUME Exclusive, TypeOK, Alone, NEW d \in Deployers, Step(d)
  PROVE  Alone'
<1>1. Inside(d)' => Inside(d) \/ \A e \in Deployers : ~Inside(e)
  <2>1. CASE EnterScope(d)
    <3>1. (\A e \in Deployers : ~Inside(e)) \/ pc'[d] = "exited"
      BY <2>1, Moves DEF EnterScope
    <3> QED BY <3>1 DEF Inside
  <2>2. CASE ~EnterScope(d)
    <3>1. pc[d] \notin {"enter", "exited"}
      BY <2>2 DEF Step, ListModules, ReadOriginal, UploadFile, LoadModule, ReadBack,
         BuildTask, ReadBuildErrors, UndoCount, UndoPost, UndoNewCount,
         UnloadModule, UndoBuild, UndoErrors, ListStaging, DeleteStaging,
         LeaveScope, At
    <3> QED BY <3>1 DEF Inside
  <2> QED BY <2>1, <2>2
<1>2. \A e \in Deployers : e # d => (Inside(e)' <=> Inside(e))
  BY StepLeavesOthers DEF Inside
<1> QED BY <1>1, <1>2 DEF Alone

\* What an invocation knows survives the steps of others.
LEMMA StepKeepsOthers ==
  ASSUME TypeOK, Alone, NEW d \in Deployers, Step(d), NEW e \in Deployers, e # d,
         Own(e), Right(e), Back(e)
  PROVE  Own(e)' /\ Right(e)' /\ Back(e)'
<1>1. /\ pc'[e] = pc[e] /\ result'[e] = result[e] /\ claim'[e] = claim[e]
      /\ orig'[e] = orig[e] /\ mine'[e] = mine[e] /\ job' = job
      /\ e \in loaded' <=> e \in loaded
      /\ e \in damaged' <=> e \in damaged
  BY StepLeavesOthers
<1>2. CASE Inside(e)
  <2>1. UNCHANGED <<text, count, linked, staged>>
    BY <1>2, StepModule DEF Alone
  <2> QED BY <1>1, <2>1 DEF Own, Right, Back, Original, Deployed, At
<1>3. CASE ~Inside(e)
  <2>1. pc[e] \in {"enter", "exited"}
    BY <1>3 DEF Inside
  <2> QED BY <1>1, <2>1 DEF Own, Right, Back, Loading, Ending, At
<1> QED BY <1>2, <1>3

\* What an invocation knows after a step of its own.
LEMMA StepKeepsOwn ==
  ASSUME TypeOK, NEW d \in Deployers, Step(d), Placed(d), Own(d), Right(d), Back(d)
  PROVE  Own(d)' /\ Right(d)' /\ Back(d)'
<1> USE DEF Early, Loading, Undoing, Ending
<1>1. Cleanup(d) = IF job[d].cleanup THEN "cleanList" ELSE "leave"
  BY DEF Cleanup
<1>2. CASE \/ EnterScope(d) \/ ListModules(d) \/ ReadOriginal(d) \/ UploadFile(d)
           \/ LoadModule(d)
  <2>1. \/ pc'[d] \in Early
        \/ pc'[d] = "readback" /\ count' = mine'[d]
        \/ /\ pc'[d] \in Ending \cup {"exited"} /\ d \notin loaded'
           /\ result'[d] # "ok"
    BY <1>2, EarlyEffect DEF Placed
  <2> QED BY <2>1 DEF Own, Right, Back, At
<1>3. CASE ReadBack(d) \/ BuildTask(d) \/ ReadBuildErrors(d)
  <2>1. UNCHANGED <<text, count, staged, job, orig, loaded, mine>>
    BY <1>3, LoadingEffect
  <2>2. Own(d)'
    <3>1. count' = mine'[d]
      BY <1>3, <2>1, LoadingEffect DEF Own
    <3> QED BY <3>1 DEF Own
  <2>3. Right(d)'
    <3>1. \/ pc'[d] = "build" /\ text' = job'[d].source
          \/ /\ pc'[d] = "errors" /\ linked' = text'
             /\ text' = job'[d].source
          \/ /\ pc'[d] = Cleanup(d) /\ result'[d] = "ok"
             /\ text' = job'[d].source
             /\ job'[d].build => linked' = text' /\ text' \notin Broken
          \/ pc'[d] \in {"unload", "undoCount"}
          \/ pc'[d] \in Ending /\ result'[d] # "ok"
      BY <1>1, <1>3, <2>1, LoadingEffect DEF Right, At
    <3> QED BY <1>1, <2>1, <3>1 DEF Right, Deployed, At
  <2>4. Back(d)'
    <3>1. \/ pc'[d] \in {"build", "errors", "undoCount"}
          \/ pc'[d] = "unload" /\ orig'[d] = Absent
          \/ /\ pc'[d] \in Ending
             /\ result'[d] \in {"ok", "interrupt"} \/ claim'[d] = "notRestored"
      BY <1>1, <1>3, <2>1, LoadingEffect
    <3> QED BY <3>1 DEF Back, At
  <2> QED BY <2>2, <2>3, <2>4
<1>4. CASE \/ UndoCount(d) \/ UndoPost(d) \/ UndoNewCount(d) \/ UnloadModule(d)
           \/ UndoBuild(d) \/ UndoErrors(d)
  <2>1. UNCHANGED <<staged, job, orig, loaded, mine>> /\ result[d] # "ok"
    BY <1>4, UndoEffect DEF Placed
  <2>2. Own(d)'
    <3>1. \/ pc[d] = "undoCount" /\ UNCHANGED module
          \/ pc'[d] \notin Loading \cup {"undoCount", "undoPost", "unload"}
      BY <1>1, <1>4, UndoEffect
    <3> QED BY <2>1, <3>1 DEF Own, module
  <2>3. Right(d)'
    <3>1. pc'[d] \in Undoing \cup Ending /\ result'[d] # "ok"
      BY <1>1, <1>4, <2>1, UndoEffect
    <3> QED BY <3>1 DEF Right, At
  <2>4. Back(d)'
    <3>1. \/ pc'[d] \in {"undoCount", "undoPost"}
          \/ pc'[d] \in {"undoNewCount", "undoBuild"} /\ Original(d)'
          \/ /\ pc'[d] = "undoErrors" /\ linked' = text'
             /\ Original(d)'
          \/ /\ pc'[d] \in Ending
             /\ \/ claim'[d] = "notRestored" \/ result'[d] = "interrupt"
                \/ /\ claim'[d] = "restored" /\ linked' = text'
                   /\ text' \notin Broken /\ Original(d)'
      BY <1>1, <1>4, <2>1, UndoEffect DEF Back, Original, module, At
    <3> QED BY <2>1, <3>1 DEF Back, At
  <2> QED BY <2>2, <2>3, <2>4
<1>5. CASE ListStaging(d) \/ DeleteStaging(d) \/ LeaveScope(d)
  <2>1. /\ UNCHANGED <<text, count, linked, job, orig, loaded, mine, damaged>>
        /\ pc[d] \in Ending /\ claim'[d] = claim[d]
    BY <1>5, EndingEffect DEF module
  <2>2. result[d] = "ok" => Deployed(d) /\ claim[d] = "none"
    BY <2>1 DEF Right, Placed
  <2>3. Deployed(d)' <=> Deployed(d)
    BY <2>1 DEF Deployed
  <2>4. pc'[d] \in {"cleanDelete", "exited", "leave"}
    BY <1>5, EndingEffect
  <2>5. Right(d)'
    <3>1. result'[d] = "ok" => result[d] = "ok"
      BY <1>5, EndingEffect
    <3>2. pc'[d] = "leave" /\ result'[d] = "ok" => staged' = Absent
      BY <1>5, EndingEffect
    <3> QED BY <2>2, <2>3, <2>4, <3>1, <3>2 DEF Right, At
  <2>6. Back(d)'
    <3>1. \/ result'[d] = result[d]
          \/ result[d] = "ok" /\ result'[d] = "error"
          \/ result'[d] = "interrupt"
      BY <1>5, EndingEffect
    <3> QED BY <2>1, <2>2, <2>3, <2>4, <3>1 DEF Back, Original, At
  <2>7. Own(d)'
    BY <2>4 DEF Own
  <2> QED BY <2>5, <2>6, <2>7
<1> QED BY <1>2, <1>3, <1>4, <1>5 DEF Step

\* While the deployments exclude each other, each of them knows what it needs.
LEMMA SoundAlways == Exclusive => (Spec => []Sound)
<1> SUFFICES ASSUME Exclusive PROVE Spec => []Sound
  OBVIOUS
<1>1. Init => Sound
  BY DEF Init, Sound, Alone, Inside, Own, Right, Back, Loading, Ending, At
<1>2. TypeOK /\ Reported /\ Sound /\ [Next]_vars => Sound'
  <2> SUFFICES ASSUME TypeOK, Reported, Sound, [Next]_vars PROVE Sound'
    OBVIOUS
  <2>1. ASSUME NEW d \in Deployers, Step(d) PROVE Sound'
    BY <2>1, StepAlone, StepKeepsOwn, StepKeepsOthers DEF Sound, Reported
  <2>2. CASE ForeignEdit
    <3>1. /\ UNCHANGED <<pc, result, claim>>
          /\ \A d \in Deployers : pc[d] \in {"enter", "exited"}
      BY <2>2 DEF ForeignEdit, Inside
    <3> QED BY <3>1 DEF Sound, Alone, Inside, Own, Right, Back, Loading, Ending, At
  <2>3. CASE ForeignFile
    <3>1. /\ UNCHANGED <<text, count, linked, job, pc, orig, loaded, mine, damaged>>
          /\ UNCHANGED <<result, claim>>
      BY <2>3 DEF ForeignFile, module, local
    <3>2. staged' = Absent \/ staged'.by = Outside
      BY <2>3 DEF ForeignFile
    <3>3. \A d \in Deployers : Own(d)' /\ Right(d)' /\ Back(d)'
      BY <3>1, <3>2, OutsideAssumption DEF Sound, Own, Right, Back, Original, Deployed, At
    <3> QED BY <3>1, <3>3 DEF Sound, Alone, Inside
  <2>4. CASE UNCHANGED vars
    BY <2>4 DEF vars, Sound, Alone, Inside, Own, Right, Back, Original, Deployed, At
  <2> QED BY <2>1, <2>2, <2>3, <2>4 DEF Next
<1> QED BY <1>1, <1>2, TypeCorrect, ReportedAlways, PTL DEF Spec

\* A success is the source that was validated, linked if it was built, and no
\* staging file of its own stays behind a clean-up.
THEOREM SuccessIsVerifiedHolds == Exclusive => (Spec => []SuccessIsVerified)
<1> SUFFICES ASSUME Exclusive PROVE Spec => []SuccessIsVerified
  OBVIOUS
<1>1. Sound => SuccessIsVerified
  BY DEF Sound, Right, Ending, SuccessIsVerified, At
<1> QED BY <1>1, SoundAlways, PTL

\* A failure after the load is undone or told; only a copy that the controller
\* itself damaged while it was put back can pass for the original.
THEOREM FailureIsUndoneOrToldHolds == Exclusive => (Spec => []FailureIsUndoneOrTold)
<1> SUFFICES ASSUME Exclusive PROVE Spec => []FailureIsUndoneOrTold
  OBVIOUS
<1>1. TypeOK /\ Sound => FailureIsUndoneOrTold
  BY DEF TypeOK, Sound, Back, Original, Ending, FailureIsUndoneOrTold, At
<1> QED BY <1>1, SoundAlways, TypeCorrect, PTL

\* The rollback overwrites or unloads what its own deployment loaded.
THEOREM RollbackUndoesOwnLoadHolds == Exclusive => (Spec => RollbackUndoesOwnLoad)
<1> SUFFICES ASSUME Exclusive PROVE Spec => RollbackUndoesOwnLoad
  OBVIOUS
<1>1. Sound => [\A d \in Deployers :
                  (UndoPost(d) \/ UnloadModule(d)) /\ text' # text =>
                      count = mine[d]]_vars
  BY DEF Sound, Own, UndoPost, UnloadModule, At
<1> QED BY <1>1, SoundAlways, PTL DEF RollbackUndoesOwnLoad
=============================================================================

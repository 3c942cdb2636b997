-------------------------- MODULE RapidEditProofs --------------------------
(***************************************************************************)
(* Proofs about RapidEdit, for any number of invocations, any jobs and     *)
(* sources and any number of edits from outside: given that the write      *)
(* access keeps the invocations apart (ControlStation), only the source    *)
(* that was shown is replaced, a success is what was asked for, and a      *)
(* failure after the write is undone or told.                              *)
(***************************************************************************)
EXTENDS RapidEdit, TLAPS

USE DEF Now

\* What a request raises is a result of its command.
LEMMA RaisedType == \A o : Raised(o) \in Results \ {"ok", "build", "unchanged"}
  BY DEF Raised, Results

\* What a job consists of.
LEMMA JobType ==
  ASSUME TypeOK, NEW w \in Writers
  PROVE  /\ job[w].patch \in BOOLEAN /\ job[w].build \in BOOLEAN
         /\ job[w].rollback \in BOOLEAN
         /\ \A t \in Texts : job[w].change[t] \in Texts
  BY JobsAssumption DEF TypeOK, Changes

-----------------------------------------------------------------------------
(* Types.                                                                  *)

\* The control flow of an invocation stays within its types.
LEMMA FlowType ==
  ASSUME TypeOK, NEW w \in Writers, NEW p \in PCs, NEW r \in Results, NEW o,
         \/ Goto(w, p) \/ Finish(w, r, p) \/ Abort(w, o) \/ Undo(w, r)
         \/ Verify(w, o) \/ Restored(w, TRUE) \/ Restored(w, FALSE) \/ UndoFails(w, o)
  PROVE  /\ pc' \in [Writers -> PCs]
         /\ result' \in [Writers -> Results]
         /\ claim' \in [Writers -> Claims]
<1> USE DEF TypeOK, PCs
<1>1. CASE Goto(w, p) \/ Finish(w, r, p) \/ Abort(w, o)
  BY <1>1, RaisedType DEF Goto, Finish, Abort
<1>2. ASSUME NEW s \in Results, Undo(w, s)
      PROVE  /\ pc' \in [Writers -> PCs]
             /\ result' \in [Writers -> Results]
             /\ claim' \in [Writers -> Claims]
  BY <1>2 DEF Undo, Claims
<1>3. ASSUME NEW b \in BOOLEAN, Restored(w, b)
      PROVE  /\ pc' \in [Writers -> PCs]
             /\ result' \in [Writers -> Results]
             /\ claim' \in [Writers -> Claims]
  BY <1>3 DEF Restored, Claims
<1>4. "error" \in Results
  BY DEF Results
<1>5. CASE Undo(w, r)
  BY <1>5, <1>2
<1>6. CASE Restored(w, TRUE) \/ Restored(w, FALSE)
  BY <1>6, <1>3
<1>7. CASE Verify(w, o)
  BY <1>7, <1>2, <1>4, RaisedType DEF Verify, Abort, Finish
<1>8. CASE UndoFails(w, o)
  BY <1>8, <1>3, RaisedType DEF UndoFails, Abort, Finish
<1> QED BY <1>1, <1>5, <1>6, <1>7, <1>8

\* Every step of an invocation is one of the moves of FlowType.
LEMMA StepFlows ==
  ASSUME NEW w \in Writers, Step(w)
  PROVE  \E p \in PCs, r \in Results, o \in Outcomes :
           \/ Goto(w, p) \/ Finish(w, r, p) \/ Abort(w, o) \/ Undo(w, r)
           \/ Verify(w, o) \/ Restored(w, TRUE) \/ Restored(w, FALSE) \/ UndoFails(w, o)
<1> DEFINE Flows == \E p \in PCs, r \in Results, o \in Outcomes :
             \/ Goto(w, p) \/ Finish(w, r, p) \/ Abort(w, o) \/ Undo(w, r)
             \/ Verify(w, o) \/ Restored(w, TRUE) \/ Restored(w, FALSE) \/ UndoFails(w, o)
<1>1. /\ {"ok", "unchanged", "error", "build", "interrupt"} \subseteq Results
      /\ \A o : Raised(o) \in Results
      /\ ReadOutcomes \subseteq Outcomes /\ Outcomes # {}
      /\ PCs # {} /\ "leave" \in PCs
  BY RaisedType DEF Results, ReadOutcomes, Outcomes, PCs
<1>2. CASE ReadSource(w)
  BY <1>1, <1>2 DEF ReadSource, PCs
<1>3. CASE RereadSource(w)
  BY <1>1, <1>3 DEF RereadSource, PCs
<1>4. CASE EnterScope(w)
  BY <1>1, <1>4 DEF EnterScope, PCs
<1>5. CASE ReadOriginal(w)
  BY <1>1, <1>5 DEF ReadOriginal, PCs
<1>6. CASE CheckCount(w)
  BY <1>1, <1>6 DEF CheckCount, PCs
<1>7. CASE PostText(w)
  BY <1>1, <1>7 DEF PostText, PCs
<1>8. CASE ReadNewCount(w)
  BY <1>1, <1>8 DEF ReadNewCount, PCs
<1>9. CASE ReadBack(w)
  BY <1>1, <1>9 DEF ReadBack, PCs
<1>10. CASE BuildTask(w)
  BY <1>1, <1>10 DEF BuildTask, PCs
<1>11. CASE ReadBuildErrors(w)
  BY <1>1, <1>11 DEF ReadBuildErrors, PCs
<1>12. CASE UndoCount(w)
  BY <1>1, <1>12 DEF UndoCount, PCs
<1>13. CASE UndoPost(w)
  BY <1>1, <1>13 DEF UndoPost, PCs
<1>14. CASE UndoNewCount(w)
  BY <1>1, <1>14 DEF UndoNewCount, PCs
<1>15. CASE UndoBuild(w)
  BY <1>1, <1>15 DEF UndoBuild, PCs
<1>16. CASE UndoErrors(w)
  <2>1. PICK o \in ReadOutcomes :
          Restored(w, linked \notin Broken) \/ UndoFails(w, o)
    BY <1>16 DEF UndoErrors
  <2>2. Restored(w, linked \notin Broken) => Restored(w, TRUE) \/ Restored(w, FALSE)
    BY DEF Restored
  <2> QED BY <1>1, <2>1, <2>2
<1>17. CASE LeaveScope(w)
  BY <1>1, <1>17 DEF LeaveScope, PCs
<1> QED
  BY <1>2, <1>3, <1>4, <1>5, <1>6, <1>7, <1>8, <1>9, <1>10, <1>11, <1>12, <1>13,
     <1>14, <1>15, <1>16, <1>17 DEF Step

\* A job asks for a source, whatever the module is.
LEMMA RequestedType ==
  ASSUME TypeOK, NEW w \in Writers
  PROVE  Wanted(w) \in Texts /\ Requested(w) \in Texts /\ orig[w].text \in Texts
<1>1. seen[w].text \in Texts /\ orig[w].text \in Texts /\ text \in Texts
  BY DEF TypeOK, Version
<1> QED BY <1>1, JobType DEF Wanted, Requested

\* A write changes source and count together, and nothing else of the module.
LEMMA StoreSteps ==
  ASSUME TypeOK, NEW w \in Writers, NEW o, NEW t \in Texts, Store(w, o, t)
  PROVE  /\ linked' = linked /\ foreign' = foreign
         /\ text' \in Texts /\ count' \in Nat
         /\ \/ Applied(o) /\ text' \in Stored(t) /\ count' = count + 1
            \/ ~Applied(o) /\ text' = text /\ count' = count
  BY TextsAssumption DEF Store, Stored, TypeOK

\* What a write reports are names and counts.
LEMMA LearnType ==
  ASSUME TypeOK, NEW w \in Writers, NEW named, NEW counted,
         text' \in Texts, count' \in Nat, Learn(w, named, counted)
  PROVE  /\ current' \in [Writers -> {ModuleOf[t] : t \in Texts}]
         /\ known' \in [Writers -> Nat]
  BY DEF Learn, TypeOK

\* The actions that write neither source nor count.
Reads(w) ==
    \/ ReadSource(w)   \/ RereadSource(w)    \/ EnterScope(w)
    \/ ReadOriginal(w) \/ CheckCount(w)      \/ ReadNewCount(w)
    \/ ReadBack(w)     \/ BuildTask(w)       \/ ReadBuildErrors(w)
    \/ UndoCount(w)    \/ UndoNewCount(w)    \/ UndoBuild(w)
    \/ UndoErrors(w)   \/ LeaveScope(w)

\* A step changes the module only by a write or a build.
LEMMA ReadsLeave ==
  ASSUME NEW w \in Writers, Reads(w)
  PROVE  /\ UNCHANGED <<text, count, foreign, job, mine, damaged, current>>
         /\ linked' \in {linked, text}
  BY DEF Reads, ReadSource, RereadSource, EnterScope, ReadOriginal, CheckCount,
         ReadNewCount, ReadBack, BuildTask, ReadBuildErrors, UndoCount,
         UndoNewCount, UndoBuild, UndoErrors, LeaveScope, Link, module, local

\* What an invocation remembers of the module has the type of the module.
LEMMA ReadsRemember ==
  ASSUME TypeOK, NEW w \in Writers, Reads(w)
  PROVE  /\ seen' \in [Writers -> Version] /\ orig' \in [Writers -> Version]
         /\ known' \in [Writers -> Nat]
<1>1. Now \in Version /\ count \in Nat
  BY DEF TypeOK, Version
<1>2. CASE ReadSource(w)
  BY <1>1, <1>2 DEF ReadSource, TypeOK
<1>3. CASE ReadOriginal(w)
  BY <1>1, <1>3 DEF ReadOriginal, TypeOK
<1>4. CASE ReadNewCount(w) \/ ReadBack(w)
  BY <1>1, <1>4 DEF ReadNewCount, ReadBack, TypeOK
<1>5. CASE ~(ReadSource(w) \/ ReadOriginal(w) \/ ReadNewCount(w) \/ ReadBack(w))
  BY <1>5 DEF Reads, RereadSource, EnterScope, CheckCount, BuildTask,
     ReadBuildErrors, UndoCount, UndoNewCount, UndoBuild, UndoErrors, LeaveScope,
     local, TypeOK
<1> QED BY <1>2, <1>3, <1>4, <1>5

\* The two writes of an invocation.
LEMMA WritesType ==
  ASSUME TypeOK, NEW w \in Writers, PostText(w) \/ UndoPost(w)
  PROVE  /\ text' \in Texts /\ count' \in Nat
         /\ UNCHANGED <<linked, foreign, job, seen, orig>>
         /\ known' \in [Writers -> Nat] /\ mine' \in [Writers -> Nat]
         /\ damaged' \in {damaged, damaged \cup {w}}
         /\ current' \in [Writers -> {ModuleOf[t] : t \in Texts}]
<1>1. CASE PostText(w)
  <2>1. PICK o \in Outcomes, named, counted \in BOOLEAN :
          /\ Store(w, o, Requested(w))
          /\ Learn(w, named, counted) \/ UNCHANGED <<current, known>>
          /\ mine' = [mine EXCEPT ![w] = IF Applied(o) THEN count' ELSE @]
    BY <1>1 DEF PostText
  <2>2. text' \in Texts /\ count' \in Nat /\ UNCHANGED <<linked, foreign>>
    BY <2>1, StoreSteps, RequestedType
  <2> QED BY <1>1, <2>1, <2>2, LearnType DEF PostText, TypeOK
<1>2. CASE UndoPost(w)
  <2>1. PICK o \in Outcomes, named, counted \in BOOLEAN :
          /\ Store(w, o, orig[w].text)
          /\ Learn(w, named, counted) \/ UNCHANGED <<current, known>>
    BY <1>2 DEF UndoPost
  <2>2. text' \in Texts /\ count' \in Nat /\ UNCHANGED <<linked, foreign>>
    BY <2>1, StoreSteps, RequestedType
  <2> QED BY <1>2, <2>1, <2>2, LearnType DEF UndoPost, TypeOK
<1> QED BY <1>1, <1>2

\* The module, the jobs, what the invocations know and where they stand have
\* their types.
THEOREM TypeCorrect == Spec => []TypeOK
<1>1. Init => TypeOK
  BY TextsAssumption, ForeignAssumption
  DEF Init, TypeOK, Version, PCs, Results, Claims
<1>2. TypeOK /\ [Next]_vars => TypeOK'
  <2> SUFFICES ASSUME TypeOK, [Next]_vars PROVE TypeOK'
    OBVIOUS
  <2>1. ASSUME NEW w \in Writers, Step(w) PROVE TypeOK'
    <3>1. PICK p \in PCs, r \in Results, o \in Outcomes :
            \/ Goto(w, p) \/ Finish(w, r, p) \/ Abort(w, o) \/ Undo(w, r)
            \/ Verify(w, o) \/ Restored(w, TRUE) \/ Restored(w, FALSE)
            \/ UndoFails(w, o)
      BY <2>1, StepFlows
    <3>2. /\ pc' \in [Writers -> PCs]
          /\ result' \in [Writers -> Results]
          /\ claim' \in [Writers -> Claims]
      BY <3>1, FlowType
    <3>3. CASE Reads(w)
      BY <3>2, <3>3, ReadsLeave, ReadsRemember DEF TypeOK
    <3>4. CASE PostText(w) \/ UndoPost(w)
      BY <3>2, <3>4, WritesType DEF TypeOK
    <3> QED BY <2>1, <3>3, <3>4 DEF Step, Reads
  <2>2. CASE ForeignEdit
    BY <2>2, ForeignAssumption DEF ForeignEdit, local, TypeOK
  <2>3. CASE UNCHANGED vars
    BY <2>3 DEF vars, TypeOK
  <2> QED BY <2>1, <2>2, <2>3 DEF Next
<1> QED BY <1>1, <1>2, PTL DEF Spec

-----------------------------------------------------------------------------
(* The invariant.                                                          *)

\* A version read before is older than the module, or it is the module.
Versioned(v) == v.count <= count /\ (v.count = count => v.text = text)

\* The write access is never held by two invocations.
Alone == \A v, w \in Writers : Inside(v) /\ Inside(w) => v = w

\* The module is the one that was read, and shown, until it is written.
Fresh(w) ==
    /\ Versioned(seen[w]) /\ Versioned(orig[w])
    /\ At(w, "count") \/ At(w, "post") =>
          orig[w] = Now /\ (~job[w].patch => seen[w] = Now)

\* What is known of the module on the way to a success.
Written(w) ==
    /\ job[w].patch /\ pc[w] \in {"postCount", "readback", "build", "errors"} =>
          text \in Stored(job[w].change[orig[w].text])
    /\ ~job[w].patch /\ pc[w] \in {"build", "errors"} => text = Wanted(w)
    /\ At(w, "errors") => linked = text
    /\ At(w, "leave") /\ result[w] = "ok" =>
          /\ ~job[w].patch => text = Wanted(w)
          /\ job[w].patch => text \in Stored(job[w].change[orig[w].text])
          /\ job[w].build => linked = text /\ text \notin Broken

\* The module is the one the transaction began with, unless the controller
\* stored the copy of the rollback damaged.
Original(w) == w \notin damaged => text = orig[w].text

Undoing == {"undoCount", "undoPost", "undoPostCount", "undoBuild", "undoErrors"}

\* What is known of the module on the way through a rollback.
Undone(w) ==
    /\ pc[w] \in {"read", "reread", "enter", "original", "count", "post", "postCount"} =>
          known[w] = 0
    /\ pc[w] \in {"undoPostCount", "undoBuild", "undoErrors"} => Original(w)
    /\ At(w, "undoErrors") => linked = text
    /\ pc[w] \in Undoing => result[w] # "ok"
    /\ At(w, "leave") /\ result[w] \in {"error", "build"} /\ known[w] # 0 =>
          \/ claim[w] = "notRestored"
          \/ /\ claim[w] = "restored"
             /\ linked = text
             /\ text \notin Broken
             /\ Original(w)

Holds(w) == Fresh(w) /\ Written(w) /\ Undone(w)

Sound == Alone /\ \A w \in Writers : Holds(w)

-----------------------------------------------------------------------------
(* What a step does.                                                       *)

\* Where each move of the control flow takes an invocation.
LEMMA Effects ==
  ASSUME TypeOK, NEW w \in Writers
  PROVE  /\ \A p : Goto(w, p) => pc'[w] = p /\ result'[w] = result[w]
         /\ \A r, p : Finish(w, r, p) => pc'[w] = p /\ result'[w] = r
         /\ \A o : Abort(w, o) =>
               pc'[w] = "leave" /\ result'[w] \in {"none", "error", "interrupt"}
         /\ \A r : Undo(w, r) =>
               /\ result'[w] = r
               /\ \/ pc'[w] = "undoCount"
                  \/ pc'[w] = "leave" /\ claim'[w] = "notRestored"
         /\ \A o : Verify(w, o) =>
               \/ /\ result'[w] = "error"
                  /\ \/ pc'[w] = "undoCount"
                     \/ pc'[w] = "leave" /\ claim'[w] = "notRestored"
               \/ pc'[w] = "leave" /\ result'[w] \in {"none", "interrupt"}
         /\ \A b : Restored(w, b) =>
               /\ pc'[w] = "leave" /\ result'[w] = result[w]
               /\ claim'[w] = IF b THEN "restored" ELSE "notRestored"
         /\ \A o : UndoFails(w, o) =>
               /\ pc'[w] = "leave"
               /\ \/ claim'[w] = "notRestored" /\ result'[w] = result[w]
                  \/ result'[w] \in {"none", "interrupt"}
  BY DEF Goto, Finish, Abort, Undo, Verify, Restored, UndoFails, Raised, TypeOK

\* A step of one invocation is no step of another one.
LEMMA StepLeavesOthers ==
  ASSUME TypeOK, NEW w \in Writers, Step(w), NEW v \in Writers, v # w
  PROVE  /\ pc'[v] = pc[v] /\ result'[v] = result[v] /\ claim'[v] = claim[v]
         /\ seen'[v] = seen[v] /\ orig'[v] = orig[v] /\ known'[v] = known[v]
         /\ job' = job /\ (v \in damaged' <=> v \in damaged)
<1>1. PICK p \in PCs, r \in Results, o \in Outcomes :
        \/ Goto(w, p) \/ Finish(w, r, p) \/ Abort(w, o) \/ Undo(w, r)
        \/ Verify(w, o) \/ Restored(w, TRUE) \/ Restored(w, FALSE)
        \/ UndoFails(w, o)
  BY StepFlows
<1>2. pc'[v] = pc[v] /\ result'[v] = result[v] /\ claim'[v] = claim[v]
  BY <1>1 DEF Goto, Finish, Abort, Undo, Verify, Restored, UndoFails, TypeOK
<1>3. CASE Reads(w)
  <2>1. job' = job /\ damaged' = damaged
    BY <1>3, ReadsLeave
  <2>2. seen'[v] = seen[v] /\ orig'[v] = orig[v] /\ known'[v] = known[v]
    BY <1>3 DEF Reads, ReadSource, RereadSource, EnterScope, ReadOriginal,
       CheckCount, ReadNewCount, ReadBack, BuildTask, ReadBuildErrors, UndoCount,
       UndoNewCount, UndoBuild, UndoErrors, LeaveScope, local, TypeOK
  <2> QED BY <1>2, <2>1, <2>2
<1>4. CASE PostText(w) \/ UndoPost(w)
  <2>1. known' = known \/ \E b \in BOOLEAN :
              known' = [known EXCEPT ![w] = IF b THEN count' ELSE @]
    BY <1>4 DEF PostText, UndoPost, Learn
  <2>2. seen' = seen /\ orig' = orig /\ job' = job
    BY <1>4 DEF PostText, UndoPost
  <2>3. damaged' \in {damaged, damaged \cup {w}}
    BY <1>4, WritesType
  <2> QED BY <1>2, <2>1, <2>2, <2>3 DEF TypeOK
<1> QED BY <1>3, <1>4 DEF Step, Reads

\* The module changes only by a step under the access, and its count with it.
LEMMA StepModule ==
  ASSUME TypeOK, NEW w \in Writers, Step(w)
  PROVE  /\ Inside(w) \/ UNCHANGED <<text, count, linked>>
         /\ count' = count + 1 \/ UNCHANGED <<text, count>>
<1>1. CASE Reads(w)
  <2>1. count' = count /\ text' = text
    BY <1>1, ReadsLeave
  <2>2. Inside(w) \/ linked' = linked
    BY <1>1 DEF Reads, ReadSource, RereadSource, EnterScope, ReadOriginal,
       CheckCount, ReadNewCount, ReadBack, BuildTask, ReadBuildErrors, UndoCount,
       UndoNewCount, UndoBuild, UndoErrors, LeaveScope, module, Inside,
       ScopePCs, PCs, At
  <2> QED BY <2>1, <2>2
<1>2. CASE PostText(w)
  <2>1. PICK o \in Outcomes : Store(w, o, Requested(w))
    BY <1>2 DEF PostText
  <2> QED BY <1>2, <2>1, StoreSteps, RequestedType
          DEF PostText, Inside, ScopePCs, PCs, At
<1>3. CASE UndoPost(w)
  <2>1. PICK o \in Outcomes : Store(w, o, orig[w].text)
    BY <1>3 DEF UndoPost
  <2> QED BY <1>3, <2>1, StoreSteps, RequestedType
          DEF UndoPost, Inside, ScopePCs, PCs, At
<1> QED BY <1>1, <1>2, <1>3 DEF Step, Reads

\* The access is entered only while nobody holds it.
LEMMA StepAlone ==
  ASSUME Exclusive, TypeOK, Alone, NEW w \in Writers, Step(w)
  PROVE  Alone'
<1>1. Inside(w)' => Inside(w) \/ \A v \in Writers : ~Inside(v)
  <2>1. CASE ReadSource(w) \/ RereadSource(w) \/ LeaveScope(w)
    <3>1. pc'[w] \in {"reread", "enter", "exited"}
      BY <2>1, Effects DEF ReadSource, RereadSource, LeaveScope
    <3> QED BY <3>1 DEF Inside, ScopePCs
  <2>2. CASE EnterScope(w)
    <3>1. (\A v \in Writers : ~Inside(v)) \/ pc'[w] = "exited"
      BY <2>2, Effects DEF EnterScope
    <3> QED BY <3>1 DEF Inside, ScopePCs
  <2>3. CASE ~(ReadSource(w) \/ RereadSource(w) \/ EnterScope(w) \/ LeaveScope(w))
    <3>1. pc[w] \in {"original", "count", "post", "postCount", "readback", "build",
                     "errors", "undoCount", "undoPost", "undoPostCount",
                     "undoBuild", "undoErrors"}
      BY <2>3 DEF Step, ReadOriginal, CheckCount, PostText, ReadNewCount, ReadBack,
         BuildTask, ReadBuildErrors, UndoCount, UndoPost, UndoNewCount, UndoBuild,
         UndoErrors, At
    <3> QED BY <3>1 DEF Inside, ScopePCs, PCs
  <2> QED BY <2>1, <2>2, <2>3
<1>2. \A v \in Writers : v # w => (Inside(v)' <=> Inside(v))
  BY StepLeavesOthers DEF Inside
<1> QED BY <1>1, <1>2 DEF Alone

\* A version that was read stays older than the module or equal to it.
LEMMA VersionsAge ==
  ASSUME TypeOK, count' = count + 1 \/ UNCHANGED <<text, count>>
  PROVE  \A v \in Version : Versioned(v) =>
            v.count <= count' /\ (v.count = count' => v.text = text')
  BY DEF Versioned, TypeOK, Version

\* What an invocation under the access knows survives the steps of others.
LEMMA StepHoldsOthers ==
  ASSUME Exclusive, TypeOK, Alone, NEW w \in Writers, Step(w),
         NEW v \in Writers, v # w, Holds(v)
  PROVE  Holds(v)'
<1>1. /\ pc'[v] = pc[v] /\ result'[v] = result[v] /\ claim'[v] = claim[v]
      /\ seen'[v] = seen[v] /\ orig'[v] = orig[v] /\ known'[v] = known[v]
      /\ job' = job /\ (v \in damaged' <=> v \in damaged)
  BY StepLeavesOthers
<1>2. Versioned(seen[v])' /\ Versioned(orig[v])'
  <2>1. seen[v] \in Version /\ orig[v] \in Version
    BY DEF TypeOK
  <2> QED BY <1>1, <2>1, StepModule, VersionsAge DEF Versioned, Holds, Fresh
<1>3. CASE Inside(v)
  <2>1. UNCHANGED <<text, count, linked>>
    BY <1>3, StepModule DEF Alone
  <2> QED BY <1>1, <1>2, <2>1
          DEF Holds, Fresh, Written, Undone, Original, Wanted, At
<1>4. CASE ~Inside(v)
  <2>1. pc[v] \in {"read", "reread", "enter", "exited"}
    BY <1>4 DEF Inside, ScopePCs, TypeOK
  <2> QED BY <1>1, <1>2, <2>1
          DEF Holds, Fresh, Written, Undone, Undoing, At
<1> QED BY <1>3, <1>4

-----------------------------------------------------------------------------
(* What an invocation knows after a step of its own.                       *)

\* Before the write only the versions matter, and that there was no write yet.
LEMMA EarlyHolds ==
  ASSUME NEW w \in Writers, Versioned(seen[w])', Versioned(orig[w])',
         known'[w] = 0,
         \/ pc'[w] \in {"read", "reread", "enter", "exited", "original"}
         \/ pc'[w] = "leave" /\ result'[w] # "ok"
  PROVE  Holds(w)'
  BY DEF Holds, Fresh, Written, Undone, Undoing, At

\* An interrupt promises nothing.
LEMMA InterruptHolds ==
  ASSUME NEW w \in Writers, Versioned(seen[w])', Versioned(orig[w])',
         pc'[w] = "leave", result'[w] \in {"none", "interrupt"}
  PROVE  Holds(w)'
  BY DEF Holds, Fresh, Written, Undone, Undoing, At

\* A failure is about to be undone, or says that it is not.
LEMMA FailureHolds ==
  ASSUME NEW w \in Writers, Versioned(seen[w])', Versioned(orig[w])',
         result'[w] # "ok",
         \/ pc'[w] \in {"undoCount", "undoPost"}
         \/ pc'[w] = "leave" /\ claim'[w] = "notRestored"
  PROVE  Holds(w)'
  BY DEF Holds, Fresh, Written, Undone, Undoing, At

\* The steps before the access is asked for, and its request.
LEMMA OutsideHolds ==
  ASSUME TypeOK, NEW w \in Writers, Holds(w),
         ReadSource(w) \/ RereadSource(w) \/ EnterScope(w) \/ LeaveScope(w)
  PROVE  Holds(w)'
<1>1. UNCHANGED <<text, count, orig, known>>
  BY DEF ReadSource, RereadSource, EnterScope, LeaveScope, module, local
<1>2. seen'[w] \in {seen[w], Now}
  BY DEF ReadSource, RereadSource, EnterScope, LeaveScope, local, TypeOK
<1>3. Versioned(seen[w])' /\ Versioned(orig[w])'
  BY <1>1, <1>2 DEF Holds, Fresh, Versioned, TypeOK
<1>4. CASE ReadSource(w) \/ RereadSource(w) \/ EnterScope(w)
  <2>1. known'[w] = 0
    BY <1>1, <1>4 DEF ReadSource, RereadSource, EnterScope, At, Holds, Undone
  <2>2. pc'[w] \in {"reread", "enter", "exited", "original"}
    BY <1>4, Effects DEF ReadSource, RereadSource, EnterScope
  <2> QED BY <1>3, <2>1, <2>2, EarlyHolds
<1>5. CASE LeaveScope(w)
  <2>1. pc'[w] = "exited"
    BY <1>5, Effects DEF LeaveScope
  <2> QED BY <1>3, <2>1 DEF Holds, Fresh, Written, Undone, Undoing, At
<1> QED BY <1>4, <1>5

\* The steps under the access up to the write.
LEMMA BeforeWriteHolds ==
  ASSUME TypeOK, NEW w \in Writers, Holds(w), ReadOriginal(w) \/ CheckCount(w)
  PROVE  Holds(w)'
<1>1. UNCHANGED <<text, count, seen, known, job>> /\ known'[w] = 0
  BY DEF ReadOriginal, CheckCount, module, local, At, Holds, Undone
<1>2. orig'[w] \in {orig[w], Now}
  BY DEF ReadOriginal, CheckCount, local, TypeOK
<1>3. Versioned(seen[w])' /\ Versioned(orig[w])'
  BY <1>1, <1>2 DEF Holds, Fresh, Versioned, TypeOK
<1>4. pc'[w] = "leave" /\ result'[w] # "ok" => Holds(w)'
  BY <1>1, <1>3, EarlyHolds
<1>5. ASSUME pc'[w] \in {"count", "post"}, orig'[w] = Now,
             ~job[w].patch => seen[w] = Now
      PROVE  Holds(w)'
  BY <1>1, <1>3, <1>5 DEF Holds, Fresh, Written, Undone, Undoing, At
<1>6. CASE ReadOriginal(w)
  <2>1. PICK o \in ReadOutcomes :
          IF o = "done"
          THEN /\ orig' = [orig EXCEPT ![w] = Now]
               /\ CASE ~job[w].patch /\ count # seen[w].count
                         -> Finish(w, "error", "leave")
                    [] ~job[w].patch /\ count = seen[w].count /\ text = Wanted(w)
                         -> Finish(w, "unchanged", "leave")
                    [] job[w].patch /\ text \in Invalid
                         -> Finish(w, "error", "leave")
                    [] OTHER -> Goto(w, "count")
          ELSE Abort(w, o)
    BY <1>6 DEF ReadOriginal
  <2>2. CASE o # "done"
    BY <1>4, <2>1, <2>2, Effects
  <2>3. CASE o = "done"
    <3>1. orig'[w] = Now
      BY <2>1, <2>3 DEF TypeOK
    <3>2. \/ Finish(w, "error", "leave") \/ Finish(w, "unchanged", "leave")
          \/ Goto(w, "count") /\ (~job[w].patch => count = seen[w].count)
      BY <2>1, <2>3, Zenon
    <3>3. CASE Finish(w, "error", "leave") \/ Finish(w, "unchanged", "leave")
      BY <1>4, <3>3, Effects
    <3>4. CASE Goto(w, "count") /\ (~job[w].patch => count = seen[w].count)
      <4>1. count = seen[w].count => seen[w] = Now
        BY DEF Holds, Fresh, Versioned, TypeOK, Version
      <4> QED BY <1>5, <3>1, <3>4, <4>1, Effects
    <3> QED BY <3>2, <3>3, <3>4
  <2> QED BY <2>2, <2>3
<1>7. CASE CheckCount(w)
  <2>1. PICK o \in ReadOutcomes :
          Goto(w, "post") \/ Finish(w, "error", "leave") \/ Abort(w, o)
    BY <1>7 DEF CheckCount
  <2>2. CASE Finish(w, "error", "leave") \/ Abort(w, o)
    BY <1>4, <2>2, Effects
  <2>3. CASE Goto(w, "post")
    <3>1. orig' = orig /\ orig[w] = Now /\ (~job[w].patch => seen[w] = Now)
      BY <1>7 DEF CheckCount, local, Holds, Fresh, At
    <3> QED BY <1>5, <2>3, <3>1, Effects
  <2> QED BY <2>1, <2>2, <2>3
<1> QED BY <1>6, <1>7

\* The write: what is stored is the requested change of the original.
LEMMA WriteHolds ==
  ASSUME TypeOK, NEW w \in Writers, Holds(w), PostText(w) \/ ReadNewCount(w)
  PROVE  Holds(w)'
<1>1. /\ UNCHANGED <<seen, orig, job>>
      /\ pc[w] \in {"post", "postCount"} /\ known[w] = 0
  BY DEF PostText, ReadNewCount, At, Holds, Undone
<1>2. Step(w)
  BY DEF Step
<1>3. Versioned(seen[w])' /\ Versioned(orig[w])'
  <2>1. seen[w] \in Version /\ orig[w] \in Version
    BY DEF TypeOK
  <2> QED BY <1>1, <1>2, <2>1, StepModule, VersionsAge DEF Versioned, Holds, Fresh
<1>4. ASSUME NEW o, Abort(w, o), known' = known
      PROVE  Holds(w)'
  BY <1>1, <1>3, <1>4, EarlyHolds, Effects
<1>5. ASSUME pc'[w] \in {"postCount", "readback"},
             pc'[w] = "postCount" => known'[w] = 0,
             job[w].patch => text' \in Stored(job[w].change[orig[w].text])
      PROVE  Holds(w)'
  BY <1>1, <1>3, <1>5 DEF Holds, Fresh, Written, Undone, Undoing, At
<1>6. CASE PostText(w)
  <2>1. PICK o \in Outcomes, named, counted \in BOOLEAN :
          /\ Store(w, o, Requested(w))
          /\ IF o = "done"
             THEN /\ Learn(w, named, counted)
                  /\ Goto(w, IF counted THEN "readback" ELSE "postCount")
             ELSE UNCHANGED <<current, known>> /\ Abort(w, o)
    BY <1>6 DEF PostText
  <2>2. CASE o = "done"
    <3>1. text' \in Stored(Requested(w))
      BY <2>1, <2>2, StoreSteps, RequestedType DEF Applied
    <3>2. job[w].patch => Requested(w) = job[w].change[orig[w].text]
      BY <1>6 DEF Requested, PostText, Holds, Fresh, At
    <3>3. ~counted => known'[w] = 0
      BY <1>1, <2>1, <2>2 DEF Learn, TypeOK
    <3>4. /\ pc'[w] \in {"postCount", "readback"}
          /\ pc'[w] = "postCount" => ~counted
      BY <2>1, <2>2, Effects
    <3> QED BY <1>5, <3>1, <3>2, <3>3, <3>4
  <2>3. CASE o # "done"
    BY <1>4, <2>1, <2>3
  <2> QED BY <2>2, <2>3
<1>7. CASE ReadNewCount(w)
  <2>1. PICK o \in ReadOutcomes :
          Goto(w, "readback") \/ (known' = known /\ Abort(w, o))
    BY <1>7 DEF ReadNewCount
  <2>2. CASE Goto(w, "readback")
    <3>1. text' = text /\ pc[w] = "postCount"
      BY <1>7 DEF ReadNewCount, module, At
    <3>2. job[w].patch => text \in Stored(job[w].change[orig[w].text])
      BY <3>1 DEF Holds, Written
    <3> QED BY <1>5, <2>2, <3>1, <3>2, Effects
  <2> QED BY <1>4, <2>1, <2>2
<1> QED BY <1>6, <1>7

\* The verification and the build: a success is what was asked for.
LEMMA VerifyHolds ==
  ASSUME TypeOK, NEW w \in Writers, Holds(w),
         ReadBack(w) \/ BuildTask(w) \/ ReadBuildErrors(w)
  PROVE  Holds(w)'
<1>1. UNCHANGED <<text, count, seen, orig, job>>
  BY DEF ReadBack, BuildTask, ReadBuildErrors, module, local, Link
<1>2. Versioned(seen[w])' /\ Versioned(orig[w])'
  BY <1>1 DEF Holds, Fresh, Versioned
<1>3. ASSUME NEW o, Verify(w, o) PROVE Holds(w)'
  BY <1>2, <1>3, Effects, InterruptHolds, FailureHolds
<1>4. ASSUME NEW r \in {"error", "build"}, Undo(w, r) PROVE Holds(w)'
  BY <1>2, <1>4, Effects, FailureHolds
<1>5. job[w].patch /\ pc[w] \in {"readback", "build", "errors"} =>
        text \in Stored(job[w].change[orig[w].text])
  BY DEF Holds, Written
<1>6. CASE ReadBack(w)
  <2>1. PICK o \in ReadOutcomes :
          IF o = "done"
          THEN CASE \/ ~job[w].patch /\ text # Wanted(w)
                    \/ job[w].patch /\ text \in Invalid
                    \/ job[w].patch /\ count # known[w]
                      -> Undo(w, "error")
                 [] OTHER -> IF job[w].build
                             THEN Goto(w, "build")
                             ELSE Finish(w, "ok", "leave")
          ELSE Verify(w, o)
    BY <1>6 DEF ReadBack
  <2>2. \/ Verify(w, o) \/ Undo(w, "error")
        \/ /\ ~job[w].patch => text = Wanted(w)
           /\ IF job[w].build THEN Goto(w, "build") ELSE Finish(w, "ok", "leave")
    BY <2>1, Zenon
  <2>3. ASSUME ~job[w].patch => text = Wanted(w),
               IF job[w].build THEN Goto(w, "build") ELSE Finish(w, "ok", "leave")
        PROVE  Holds(w)'
    <3>1. job[w].patch => text \in Stored(job[w].change[orig[w].text])
      BY <1>5, <1>6 DEF ReadBack, At
    <3>2. \/ pc'[w] = "build"
          \/ pc'[w] = "leave" /\ result'[w] = "ok" /\ ~job[w].build
      BY <2>3, Effects
    <3> QED BY <1>1, <1>2, <2>3, <3>1, <3>2
            DEF Holds, Fresh, Written, Undone, Undoing, At, Wanted
  <2> QED BY <1>3, <1>4, <2>2, <2>3
<1>7. CASE BuildTask(w)
  <2>1. PICK o \in Outcomes :
          Link(o) /\ IF o = "done" THEN Goto(w, "errors") ELSE Verify(w, o)
    BY <1>7 DEF BuildTask
  <2>2. CASE o = "done"
    <3>1. pc[w] = "build" /\ pc'[w] = "errors" /\ linked' = text
      BY <1>7, <2>1, <2>2, Effects DEF BuildTask, At, Link, Applied
    <3>2. ~job[w].patch => text = Wanted(w)
      BY <3>1 DEF Holds, Written
    <3> QED BY <1>1, <1>2, <1>5, <3>1, <3>2
            DEF Holds, Fresh, Written, Undone, Undoing, At, Wanted
  <2> QED BY <1>3, <2>1, <2>2
<1>8. CASE ReadBuildErrors(w)
  <2>1. PICK o \in ReadOutcomes :
          \/ Verify(w, o) \/ Undo(w, "build")
          \/ linked \notin Broken /\ Finish(w, "ok", "leave")
    BY <1>8 DEF ReadBuildErrors
  <2>2. CASE linked \notin Broken /\ Finish(w, "ok", "leave")
    <3>1. /\ pc[w] = "errors" /\ pc'[w] = "leave" /\ result'[w] = "ok"
          /\ linked' = linked
      BY <1>8, <2>2, Effects DEF ReadBuildErrors, At, module
    <3>2. linked = text /\ (~job[w].patch => text = Wanted(w))
      BY <3>1 DEF Holds, Written, At
    <3> QED BY <1>1, <1>2, <1>5, <2>2, <3>1, <3>2
            DEF Holds, Fresh, Written, Undone, Undoing, At, Wanted
  <2> QED BY <1>3, <1>4, <2>1, <2>2
<1> QED BY <1>6, <1>7, <1>8

\* The rollback: what is called restored is the original, and links.
LEMMA UndoHolds ==
  ASSUME TypeOK, NEW w \in Writers, Holds(w),
         \/ UndoCount(w) \/ UndoPost(w) \/ UndoNewCount(w)
         \/ UndoBuild(w) \/ UndoErrors(w)
  PROVE  Holds(w)'
<1>1. /\ UNCHANGED <<seen, orig, job>>
      /\ pc[w] \in Undoing /\ result[w] # "ok"
  BY DEF UndoCount, UndoPost, UndoNewCount, UndoBuild, UndoErrors, local,
         At, Undoing, Holds, Undone
<1>2. Versioned(seen[w])' /\ Versioned(orig[w])'
  <2>1. Step(w)
    BY DEF Step
  <2>2. seen[w] \in Version /\ orig[w] \in Version
    BY DEF TypeOK
  <2> QED BY <1>1, <2>1, <2>2, StepModule, VersionsAge DEF Versioned, Holds, Fresh
<1>3. ASSUME NEW o, UndoFails(w, o) PROVE Holds(w)'
  BY <1>1, <1>2, <1>3, Effects, InterruptHolds, FailureHolds
<1>4. CASE Restored(w, FALSE)
  BY <1>1, <1>2, <1>4, Effects, FailureHolds
<1>5. ASSUME pc'[w] \in {"undoPostCount", "undoBuild", "undoErrors"},
             result'[w] = result[w], Original(w)',
             pc'[w] = "undoErrors" => linked' = text'
      PROVE  Holds(w)'
  BY <1>1, <1>2, <1>5 DEF Holds, Fresh, Written, Undone, Undoing, At
<1>6. CASE UndoCount(w)
  <2>1. PICK o \in ReadOutcomes :
          Goto(w, "undoPost") \/ Restored(w, FALSE) \/ UndoFails(w, o)
    BY <1>6 DEF UndoCount
  <2>2. CASE Goto(w, "undoPost")
    BY <1>1, <1>2, <2>2, Effects, FailureHolds
  <2> QED BY <1>3, <1>4, <2>1, <2>2
<1>7. CASE UndoPost(w)
  <2>1. PICK o \in Outcomes, counted \in BOOLEAN :
          /\ damaged' = IF Applied(o) /\ text' # orig[w].text
                        THEN damaged \cup {w} ELSE damaged
          /\ IF o = "done"
             THEN Goto(w, IF counted THEN "undoBuild" ELSE "undoPostCount")
             ELSE UndoFails(w, o)
    BY <1>7 DEF UndoPost
  <2>2. CASE o = "done"
    <3>1. Original(w)'
      BY <1>1, <2>1, <2>2 DEF Applied, Original
    <3> QED BY <1>5, <2>1, <2>2, <3>1, Effects
  <2> QED BY <1>3, <2>1, <2>2
<1>8. CASE UndoNewCount(w)
  <2>1. PICK o \in ReadOutcomes : Goto(w, "undoBuild") \/ UndoFails(w, o)
    BY <1>8 DEF UndoNewCount
  <2>2. Original(w)'
    BY <1>8 DEF UndoNewCount, module, local, At, Holds, Undone, Original
  <2> QED BY <1>3, <1>5, <2>1, <2>2, Effects
<1>9. CASE UndoBuild(w)
  <2>1. PICK o \in Outcomes :
          Link(o) /\ IF o = "done" THEN Goto(w, "undoErrors") ELSE UndoFails(w, o)
    BY <1>9 DEF UndoBuild
  <2>2. text' = text /\ Original(w)'
    BY <1>9 DEF UndoBuild, Link, local, At, Holds, Undone, Original
  <2>3. o = "done" => linked' = text
    BY <2>1 DEF Link, Applied
  <2> QED BY <1>3, <1>5, <2>1, <2>2, <2>3, Effects
<1>10. CASE UndoErrors(w)
  <2>1. PICK o \in ReadOutcomes :
          \/ UndoFails(w, o) \/ Restored(w, FALSE)
          \/ linked \notin Broken /\ Restored(w, TRUE)
    <3>1. PICK o \in ReadOutcomes :
            Restored(w, linked \notin Broken) \/ UndoFails(w, o)
      BY <1>10 DEF UndoErrors
    <3>2. Restored(w, linked \notin Broken) =>
            \/ Restored(w, FALSE)
            \/ linked \notin Broken /\ Restored(w, TRUE)
      BY DEF Restored
    <3> QED BY <3>1, <3>2
  <2>2. CASE linked \notin Broken /\ Restored(w, TRUE)
    <3>1. /\ linked = text /\ Original(w)'
          /\ UNCHANGED <<text, linked>>
      BY <1>10 DEF UndoErrors, module, local, At, Holds, Undone, Original
    <3>2. pc'[w] = "leave" /\ result'[w] = result[w] /\ claim'[w] = "restored"
      BY <2>2, Effects
    <3> QED BY <1>1, <1>2, <2>2, <3>1, <3>2
            DEF Holds, Fresh, Written, Undone, Undoing, At
  <2> QED BY <1>3, <1>4, <2>1, <2>2
<1> QED BY <1>6, <1>7, <1>8, <1>9, <1>10

-----------------------------------------------------------------------------
(* The theorems.                                                           *)

\* While the invocations exclude each other, each of them knows what it needs.
LEMMA SoundAlways == Exclusive => (Spec => []Sound)
<1> SUFFICES ASSUME Exclusive PROVE Spec => []Sound
  OBVIOUS
<1>1. Init => Sound
  <2> SUFFICES ASSUME Init PROVE Sound
    OBVIOUS
  <2>1. \A w \in Writers :
          /\ pc[w] \in {"enter", "read"} /\ known[w] = 0
          /\ seen[w] = Now /\ orig[w] = Now
    BY DEF Init
  <2>2. count <= count
    BY DEF Init
  <2> QED BY <2>1, <2>2 DEF Sound, Alone, Inside, ScopePCs, Holds, Fresh, Versioned,
                            Written, Undone, Undoing, At
<1>2. TypeOK /\ Sound /\ [Next]_vars => Sound'
  <2> SUFFICES ASSUME TypeOK, Sound, [Next]_vars PROVE Sound'
    OBVIOUS
  <2>1. ASSUME NEW w \in Writers, Step(w) PROVE Sound'
    <3>1. Alone'
      BY <2>1, StepAlone DEF Sound
    <3>2. Holds(w)'
      BY <2>1, OutsideHolds, BeforeWriteHolds, WriteHolds, VerifyHolds, UndoHolds
      DEF Sound, Step
    <3>3. \A v \in Writers : v # w => Holds(v)'
      BY <2>1, StepHoldsOthers DEF Sound
    <3> QED BY <3>1, <3>2, <3>3 DEF Sound
  <2>2. CASE ForeignEdit
    <3>1. /\ UNCHANGED <<linked, job, pc, seen, orig, known, result, claim>>
          /\ count' = count + 1 /\ \A w \in Writers : ~Inside(w)
      BY <2>2 DEF ForeignEdit, local
    <3>2. ASSUME NEW w \in Writers PROVE Holds(w)'
      <4>1. pc[w] \in {"read", "reread", "enter", "exited"}
        BY <3>1 DEF Inside, ScopePCs, TypeOK
      <4>2. Versioned(seen[w])' /\ Versioned(orig[w])'
        <5>1. seen[w] \in Version /\ orig[w] \in Version
          BY DEF TypeOK
        <5> QED BY <3>1, <5>1, VersionsAge DEF Versioned, Sound, Holds, Fresh
      <4> QED BY <3>1, <4>1, <4>2
              DEF Sound, Holds, Fresh, Written, Undone, Undoing, At
    <3> QED BY <3>1, <3>2 DEF Sound, Alone, Inside
  <2>3. CASE UNCHANGED vars
    BY <2>3 DEF vars, Sound, Alone, Inside, Holds, Fresh, Versioned, Written,
                Undone, Original, At, Wanted
  <2> QED BY <2>1, <2>2, <2>3 DEF Next
<1> QED BY <1>1, <1>2, TypeCorrect, PTL DEF Spec

\* rapid write and rapid edit replace the source that was shown, as long as the
\* write access keeps the invocations apart.
THEOREM OverwritesOnlySeenHolds == Exclusive => (Spec => OverwritesOnlySeen)
<1> SUFFICES ASSUME Exclusive PROVE Spec => OverwritesOnlySeen
  OBVIOUS
<1>1. Sound => [\A w \in Writers :
                  PostText(w) /\ count' # count /\ ~job[w].patch => Now = seen[w]]_vars
  BY DEF Sound, Holds, Fresh, PostText, At
<1> QED BY <1>1, SoundAlways, PTL DEF OverwritesOnlySeen

\* A success is the source that was asked for, and links if it was built.
THEOREM SuccessIsVerifiedHolds == Exclusive => (Spec => []SuccessIsVerified)
<1> SUFFICES ASSUME Exclusive PROVE Spec => []SuccessIsVerified
  OBVIOUS
<1>1. Sound => SuccessIsVerified
  BY DEF Sound, Holds, Written, SuccessIsVerified
<1> QED BY <1>1, SoundAlways, PTL

\* A failure after the write is undone or told; only a copy that the controller
\* itself damaged while it was put back can pass for the original.
THEOREM FailureIsUndoneOrToldHolds == Exclusive => (Spec => []FailureIsUndoneOrTold)
<1> SUFFICES ASSUME Exclusive PROVE Spec => []FailureIsUndoneOrTold
  OBVIOUS
<1>1. Sound => FailureIsUndoneOrTold
  BY DEF Sound, Holds, Undone, Original, FailureIsUndoneOrTold
<1> QED BY <1>1, SoundAlways, PTL
=============================================================================

----------------------- MODULE CfgTransactionProofs -----------------------
(***************************************************************************)
(* Proofs about CfgTransaction, for any invocations, values and jobs and   *)
(* any number of foreign changes.                                          *)
(***************************************************************************)
EXTENDS CfgTransaction, TLAPS

-----------------------------------------------------------------------------
(* Types.                                                                  *)

\* What a request leaves a command with is an exception or nothing.
LEMMA RaisedType ==
  /\ \A o \in Outcomes : Raised(o) \in Exceptions
  /\ \A o \in ReadOutcomes, w \in BOOLEAN :
        Raised(o) \in Exceptions /\ Required(o, w) \in Exceptions
  BY DEF Outcomes, ReadOutcomes, Raised, Required, Exceptions

\* The control state that every step of an invocation changes.
ControlType ==
  /\ pc \in [Sessions -> PCs]
  /\ result \in [Sessions -> Results]
  /\ claim \in [Sessions -> Claims]

\* Going on and ending keep its types.
LEMMA FinishType ==
  ASSUME ControlType, NEW s \in Sessions
  PROVE  /\ \A p \in PCs : Goto(s, p) => ControlType'
         /\ \A r \in Results, c \in Claims : Finish(s, r, c) => ControlType'
  BY DEF ControlType, Goto, Finish, PCs

\* So do the three ways to treat what a request raised.
LEMMA RaiseType ==
  ASSUME ControlType, NEW s \in Sessions,
         NEW e \in Exceptions \cup {"config"}, NEW p \in PCs, NEW q \in PCs
  PROVE  /\ Continue(s, e, p) => ControlType'
         /\ Attempt(s, e, p, q) => ControlType'
         /\ Recover(s, e, p) => ControlType'
<1>1. e \in Results /\ "none" \in Claims /\ "rollbackFailed" \in Claims
      /\ "error" \in Results
  BY DEF Exceptions, Results, Claims
<1>2. Continue(s, e, p) => ControlType'
  BY <1>1, FinishType DEF Continue
<1>3. Recover(s, e, p) => ControlType'
  BY <1>1, FinishType DEF Recover
<1>4. ASSUME Attempt(s, e, p, q) PROVE ControlType'
  <2>1. CASE e = "none"
    BY <1>4, <2>1, FinishType DEF Attempt
  <2>2. CASE e = "interrupt"
    BY <1>1, <1>4, <2>2, FinishType DEF Attempt
  <2>3. CASE e # "none" /\ e # "interrupt"
    BY <1>1, <1>4, <2>3 DEF Attempt, ControlType
  <2> QED BY <2>1, <2>2, <2>3
<1> QED BY <1>2, <1>3, <1>4

\* The rest of the state.
DataType ==
  /\ instance \in Values \cup {Absent}
  /\ foreign \in 0..MaxForeign
  /\ job \in [Sessions -> Jobs]
  /\ before \in [Sessions -> Values \cup {Absent}]
  /\ made \subseteq Sessions
  /\ posted \subseteq Sessions
  /\ disturbed \subseteq Sessions

\* A request that changes the instance gives it a value or removes it.
LEMMA ChangeType ==
  ASSUME DataType, NEW s \in Sessions, NEW o, NEW v \in Values \cup {Absent},
         Change(s, o, v)
  PROVE  /\ instance' \in Values \cup {Absent}
         /\ foreign' \in 0..MaxForeign
         /\ disturbed' \subseteq Sessions
  BY DEF DataType, Change

\* What the controller may store instead is a value too.
LEMMA StoredType ==
  ASSUME NEW w \in Values \cup {Absent}, NEW v \in Stored(w)
  PROVE  v \in Values \cup {Absent}
  BY ValuesAssumption DEF Stored

\* What an invocation is asked to write is a value.
LEMMA JobType ==
  ASSUME DataType, NEW s \in Sessions
  PROVE  job[s].value \in Values
  BY JobsAssumption DEF DataType

\* A step of set_attribute keeps the types.
LEMMA SetType ==
  ASSUME ControlType, DataType, NEW s \in Sessions,
         \/ SetRead(s)  \/ SetPost(s)      \/ SetValidate(s) \/ SetReadBack(s)
         \/ UndoPost(s) \/ UndoValidate(s) \/ UndoReadBack(s)
  PROVE  ControlType' /\ DataType'
<1> USE RaisedType, FinishType, RaiseType
<1>1. CASE SetRead(s)
  <2>1. ControlType'
    BY <1>1 DEF SetRead, PCs, Results, Claims
  <2>2. DataType'
    BY <1>1 DEF SetRead, DataType
  <2> QED BY <2>1, <2>2
<1>2. CASE SetPost(s)
  <2>1. ControlType'
    BY <1>2 DEF SetPost, PCs
  <2>2. DataType'
    BY <1>2, ChangeType, StoredType, JobType DEF SetPost, DataType
  <2> QED BY <2>1, <2>2
<1>3. CASE SetValidate(s)
  <2>1. ControlType'
    BY <1>3 DEF SetValidate, PCs
  <2>2. DataType'
    BY <1>3 DEF SetValidate, DataType, Read, local
  <2> QED BY <2>1, <2>2
<1>4. CASE SetReadBack(s)
  <2>1. ControlType'
    BY <1>4 DEF SetReadBack, PCs, Results, Claims
  <2>2. DataType'
    BY <1>4 DEF SetReadBack, DataType, Read, local
  <2> QED BY <2>1, <2>2
<1>5. CASE UndoPost(s)
  <2>1. ControlType'
    BY <1>5 DEF UndoPost, PCs
  <2>2. before[s] \in Values \cup {Absent}
    BY DEF DataType
  <2>3. DataType'
    BY <1>5, <2>2, ChangeType, StoredType DEF UndoPost, DataType, local
  <2> QED BY <2>1, <2>3
<1>6. CASE UndoValidate(s)
  <2>1. ControlType'
    BY <1>6 DEF UndoValidate, PCs
  <2>2. DataType'
    BY <1>6 DEF UndoValidate, DataType, Read, local
  <2> QED BY <2>1, <2>2
<1>7. CASE UndoReadBack(s)
  <2>1. result[s] \in Results
    BY DEF ControlType
  <2>2. ControlType'
    BY <1>7, <2>1 DEF UndoReadBack, PCs, Claims
  <2>3. DataType'
    BY <1>7 DEF UndoReadBack, DataType, Read, local
  <2> QED BY <2>2, <2>3
<1> QED BY <1>1, <1>2, <1>3, <1>4, <1>5, <1>6, <1>7

\* A step of create_instance keeps the types.
LEMMA CreateType ==
  ASSUME ControlType, DataType, NEW s \in Sessions,
         \/ CreateCheck(s)     \/ CreatePost(s)     \/ CreateInspect(s)
         \/ CreateConfigure(s) \/ CreateValidate(s) \/ CreateReadBack(s)
         \/ DropInstance(s)    \/ DropCheck(s)
  PROVE  ControlType' /\ DataType'
<1> USE RaisedType, FinishType, RaiseType
<1>1. CASE CreateCheck(s)
  <2>1. ControlType'
    BY <1>1 DEF CreateCheck, PCs
  <2>2. DataType'
    BY <1>1 DEF CreateCheck, DataType, local
  <2> QED BY <2>1, <2>2
<1>2. CASE CreatePost(s)
  <2>1. ControlType'
    BY <1>2 DEF CreatePost, PCs, Results, Claims
  <2>2. DataType'
    BY <1>2, ChangeType, ValuesAssumption DEF CreatePost, DataType
  <2> QED BY <2>1, <2>2
<1>3. CASE CreateInspect(s)
  <2>1. ControlType'
    BY <1>3 DEF CreateInspect, PCs
  <2>2. DataType'
    BY <1>3 DEF CreateInspect, DataType, Read, local
  <2> QED BY <2>1, <2>2
<1>4. CASE CreateConfigure(s)
  <2>1. ControlType'
    BY <1>4 DEF CreateConfigure, PCs
  <2>2. DataType'
    BY <1>4, ChangeType, StoredType, JobType DEF CreateConfigure, DataType, local
  <2> QED BY <2>1, <2>2
<1>5. CASE CreateValidate(s)
  <2>1. ControlType'
    BY <1>5 DEF CreateValidate, PCs
  <2>2. DataType'
    BY <1>5 DEF CreateValidate, DataType, Read, local
  <2> QED BY <2>1, <2>2
<1>6. CASE CreateReadBack(s)
  <2>1. ControlType'
    BY <1>6 DEF CreateReadBack, PCs, Results, Claims
  <2>2. DataType'
    BY <1>6 DEF CreateReadBack, DataType, Read, local
  <2> QED BY <2>1, <2>2
<1>7. CASE DropInstance(s)
  <2>1. ControlType'
    BY <1>7 DEF DropInstance, PCs
  <2>2. DataType'
    BY <1>7, ChangeType DEF DropInstance, DataType, local
  <2> QED BY <2>1, <2>2
<1>8. CASE DropCheck(s)
  <2>1. result[s] \in Results
    BY DEF ControlType
  <2>2. ControlType'
    BY <1>8, <2>1 DEF DropCheck, PCs, Claims
  <2>3. DataType'
    BY <1>8 DEF DropCheck, DataType, Read, local
  <2> QED BY <2>2, <2>3
<1> QED BY <1>1, <1>2, <1>3, <1>4, <1>5, <1>6, <1>7, <1>8

\* A step of delete_instance keeps the types.
LEMMA DeleteType ==
  ASSUME ControlType, DataType, NEW s \in Sessions,
         \/ DeleteRead(s)     \/ DeleteValidate(s)
         \/ DeleteInstance(s) \/ DeleteCheck(s)
  PROVE  ControlType' /\ DataType'
<1> USE RaisedType, FinishType, RaiseType
<1>1. CASE DeleteRead(s)
  <2>1. ControlType'
    BY <1>1 DEF DeleteRead, PCs
  <2>2. DataType'
    BY <1>1 DEF DeleteRead, DataType
  <2> QED BY <2>1, <2>2
<1>2. CASE DeleteValidate(s)
  <2>1. ControlType'
    BY <1>2 DEF DeleteValidate, PCs
  <2>2. DataType'
    BY <1>2 DEF DeleteValidate, DataType, Read, local
  <2> QED BY <2>1, <2>2
<1>3. CASE DeleteInstance(s)
  <2>1. ControlType'
    BY <1>3 DEF DeleteInstance, PCs
  <2>2. DataType'
    BY <1>3, ChangeType DEF DeleteInstance, DataType
  <2> QED BY <2>1, <2>2
<1>4. CASE DeleteCheck(s)
  <2>1. ControlType'
    BY <1>4 DEF DeleteCheck, PCs, Results, Claims, Exceptions
  <2>2. DataType'
    BY <1>4 DEF DeleteCheck, DataType, Read, local
  <2> QED BY <2>1, <2>2
<1> QED BY <1>1, <1>2, <1>3, <1>4

\* TypeOK is the two halves.
LEMMA Halves == TypeOK <=> ControlType /\ DataType
  BY DEF TypeOK, ControlType, DataType

\* The state stays within its types.
THEOREM TypeCorrect == Spec => []TypeOK
<1>1. Init => TypeOK
  <2> SUFFICES ASSUME Init PROVE ControlType /\ DataType
    BY Halves
  <2>1. ControlType
    BY DEF Init, ControlType, PCs, Results, Claims
  <2>2. DataType
    BY ForeignAssumption DEF Init, DataType
  <2> QED BY <2>1, <2>2
<1>2. TypeOK /\ [Next]_vars => TypeOK'
  <2> SUFFICES ASSUME ControlType, DataType, [Next]_vars
               PROVE  ControlType' /\ DataType'
    BY Halves DEF TypeOK, ControlType, DataType
  <2>1. ASSUME NEW s \in Sessions, Step(s) PROVE ControlType' /\ DataType'
    BY <2>1, SetType, CreateType, DeleteType DEF Step
  <2>2. CASE ForeignChange
    BY <2>2, ForeignAssumption DEF ForeignChange, ControlType, DataType, local
  <2>3. CASE UNCHANGED vars
    BY <2>3 DEF vars, ControlType, DataType
  <2> QED BY <2>1, <2>2, <2>3 DEF Next
<1> QED BY <1>1, <1>2, PTL DEF Spec

-----------------------------------------------------------------------------
(* The inductive invariant, one invocation at a time.                      *)

\* A create that is past its request has made the instance.
CreationMade(s) ==
  /\ job[s].op = "create"
  /\ pc[s] \in {"inspect", "configure", "validate", "readback", "drop", "dropCheck"}
  => s \in made

\* What a create found was nothing, nothing has returned before the first
\* mutating request, and no command succeeds before its end.
StartedClean(s) ==
  /\ pc[s] # "end" => result[s] # "ok"
  /\ job[s].op = "create" => before[s] = Absent
  /\ pc[s] \in {"read", "post", "check", "create"} => s \notin posted

\* What is about to be read back was validated.
ReadsBackValid(s) ==
  job[s].op \in {"set", "create"} /\ pc[s] = "readback" /\ s \notin disturbed
    => instance \notin Invalid

\* SuccessIsVerified of one invocation.
Verified(s) ==
  Ended(s, "ok") =>
    /\ job[s].op = "delete" => instance = Absent
    /\ job[s].op = "set"    => instance = job[s].value /\ instance \notin Invalid
    /\ job[s].op = "create" => /\ instance \notin Invalid \cup {Absent}
                               /\ job[s].value \in {instance, Default}

\* FailureIsUndoneOrTold of one invocation.
UndoneOrTold(s) ==
  s \in posted /\ job[s].op # "delete" /\ (Ended(s, "error") \/ Ended(s, "config"))
    => instance = before[s] \/ claim[s] = "rollbackFailed"

\* All of it.
Sound(s) ==
  /\ CreationMade(s)
  /\ StartedClean(s)
  /\ ReadsBackValid(s)
  /\ Verified(s)
  /\ UndoneOrTold(s)

IInv == TypeOK /\ \A s \in Sessions : Sound(s)

\* A request either does nothing or disturbs everybody else.
LEMMA ChangeDisturbs ==
  ASSUME NEW s \in Sessions, NEW o, NEW v, Change(s, o, v)
  PROVE  /\ instance' = instance \/ Sessions \ {s} \subseteq disturbed'
         /\ disturbed \subseteq disturbed'
  BY DEF Change

\* To another invocation a step is a disturbance or nothing.
Unmoved(t) ==
  /\ pc'[t] = pc[t] /\ result'[t] = result[t] /\ claim'[t] = claim[t]
  /\ before'[t] = before[t]
  /\ t \in made => t \in made'
  /\ t \in posted <=> t \in posted'
  /\ t \notin disturbed' => t \notin disturbed /\ instance' = instance

\* Control moves one invocation.
LEMMA ControlMovesOne ==
  ASSUME ControlType, NEW s \in Sessions, NEW t \in Sessions \ {s}
  PROVE  /\ \A p : Goto(s, p) => pc'[t] = pc[t] /\ result'[t] = result[t] /\ claim'[t] = claim[t]
         /\ \A r, c : Finish(s, r, c) =>
              pc'[t] = pc[t] /\ result'[t] = result[t] /\ claim'[t] = claim[t]
         /\ \A e, p : Continue(s, e, p) \/ Recover(s, e, p) =>
              pc'[t] = pc[t] /\ result'[t] = result[t] /\ claim'[t] = claim[t]
         /\ \A e, p, q : Attempt(s, e, p, q) =>
              pc'[t] = pc[t] /\ result'[t] = result[t] /\ claim'[t] = claim[t]
<1>1. \A p : Goto(s, p) => pc'[t] = pc[t] /\ result'[t] = result[t] /\ claim'[t] = claim[t]
  BY DEF Goto, ControlType
<1>2. \A r, c : Finish(s, r, c) => pc'[t] = pc[t] /\ result'[t] = result[t] /\ claim'[t] = claim[t]
  BY DEF Finish, ControlType
<1>3. \A e, p : Continue(s, e, p) \/ Recover(s, e, p) =>
              pc'[t] = pc[t] /\ result'[t] = result[t] /\ claim'[t] = claim[t]
  BY <1>1, <1>2 DEF Continue, Recover
<1>4. \A e, p, q : Attempt(s, e, p, q) =>
              pc'[t] = pc[t] /\ result'[t] = result[t] /\ claim'[t] = claim[t]
  BY <1>1, <1>2 DEF Attempt, ControlType
<1> QED BY <1>1, <1>2, <1>3, <1>4

\* A step of an invocation leaves the others where they are.
LEMMA StepLeavesOthers ==
  ASSUME ControlType, DataType, NEW s \in Sessions, NEW t \in Sessions \ {s}, Step(s)
  PROVE  Unmoved(t) /\ job' = job
<1>1. CASE SetRead(s)
  BY <1>1, ControlMovesOne DEF SetRead, Unmoved, DataType
<1>2. CASE SetPost(s)
  BY <1>2, ControlMovesOne, ChangeDisturbs DEF SetPost, Unmoved, DataType
<1>3. CASE SetValidate(s)
  BY <1>3, ControlMovesOne DEF SetValidate, Unmoved, DataType, Read, local
<1>4. CASE SetReadBack(s)
  BY <1>4, ControlMovesOne DEF SetReadBack, Unmoved, DataType, Read, local
<1>5. CASE UndoPost(s)
  BY <1>5, ControlMovesOne, ChangeDisturbs DEF UndoPost, Unmoved, DataType, local
<1>6. CASE UndoValidate(s)
  BY <1>6, ControlMovesOne DEF UndoValidate, Unmoved, DataType, Read, local
<1>7. CASE UndoReadBack(s)
  BY <1>7, ControlMovesOne DEF UndoReadBack, Unmoved, DataType, Read, local
<1>8. CASE CreateCheck(s)
  BY <1>8, ControlMovesOne DEF CreateCheck, Unmoved, DataType, local
<1>9. CASE CreatePost(s)
  BY <1>9, ControlMovesOne, ChangeDisturbs DEF CreatePost, Unmoved, DataType
<1>10. CASE CreateInspect(s)
  BY <1>10, ControlMovesOne DEF CreateInspect, Unmoved, DataType, Read, local
<1>11. CASE CreateConfigure(s)
  BY <1>11, ControlMovesOne, ChangeDisturbs DEF CreateConfigure, Unmoved, DataType, local
<1>12. CASE CreateValidate(s)
  BY <1>12, ControlMovesOne DEF CreateValidate, Unmoved, DataType, Read, local
<1>13. CASE CreateReadBack(s)
  BY <1>13, ControlMovesOne DEF CreateReadBack, Unmoved, DataType, Read, local
<1>14. CASE DropInstance(s)
  BY <1>14, ControlMovesOne, ChangeDisturbs DEF DropInstance, Unmoved, DataType, local
<1>15. CASE DropCheck(s)
  BY <1>15, ControlMovesOne DEF DropCheck, Unmoved, DataType, Read, local
<1>16. CASE DeleteRead(s)
  BY <1>16, ControlMovesOne DEF DeleteRead, Unmoved, DataType
<1>17. CASE DeleteValidate(s)
  BY <1>17, ControlMovesOne DEF DeleteValidate, Unmoved, DataType, Read, local
<1>18. CASE DeleteInstance(s)
  BY <1>18, ControlMovesOne, ChangeDisturbs DEF DeleteInstance, Unmoved, DataType
<1>19. CASE DeleteCheck(s)
  BY <1>19, ControlMovesOne DEF DeleteCheck, Unmoved, DataType, Read, local
<1> QED
  BY <1>1, <1>2, <1>3, <1>4, <1>5, <1>6, <1>7, <1>8, <1>9, <1>10, <1>11, <1>12, <1>13, <1>14, <1>15, <1>16, <1>17, <1>18, <1>19 DEF Step

\* Which answers let a command go on.
LEMMA RaisedValue ==
  /\ \A o \in Outcomes \cup ReadOutcomes : Raised(o) = "none" <=> o = "done"
  /\ \A o \in Outcomes \cup ReadOutcomes, w \in BOOLEAN :
        Required(o, w) = "none" <=> o = "done" /\ w
  /\ \A o \in Outcomes \cup ReadOutcomes, w \in BOOLEAN :
        Raised(o) \in Exceptions /\ Required(o, w) \in Exceptions
  /\ Applied("done")
  BY DEF Outcomes, ReadOutcomes, Raised, Required, Exceptions, Applied

\* Where control takes the invocation itself.
LEMMA ControlMoves ==
  ASSUME ControlType, NEW s \in Sessions
  PROVE  /\ \A p : Goto(s, p) => pc'[s] = p /\ result'[s] = result[s] /\ claim'[s] = claim[s]
         /\ \A r, c : Finish(s, r, c) => pc'[s] = "end" /\ result'[s] = r /\ claim'[s] = c
  BY DEF ControlType, Goto, Finish

\* Outside a try the command goes on or is over.
LEMMA ContinueMoves ==
  ASSUME ControlType, NEW s \in Sessions, NEW e \in Exceptions, NEW p \in PCs, Continue(s, e, p)
  PROVE  \/ e = "none" /\ pc'[s] = p /\ result'[s] = result[s]
         \/ e # "none" /\ pc'[s] = "end" /\ result'[s] = e /\ claim'[s] = "none"
  BY ControlMoves DEF Continue

\* Inside one it may also turn to the rollback.
LEMMA AttemptMoves ==
  ASSUME ControlType, NEW s \in Sessions, NEW e \in Exceptions \cup {"config"},
         NEW p \in PCs, NEW q \in PCs, Attempt(s, e, p, q)
  PROVE  \/ e = "none" /\ pc'[s] = p /\ result'[s] = result[s]
         \/ e = "interrupt" /\ pc'[s] = "end" /\ result'[s] = "interrupt"
         \/ e \in {"error", "config"} /\ pc'[s] = q /\ result'[s] = e
<1>1. CASE e = "none"
  BY <1>1, ControlMoves DEF Attempt
<1>2. CASE e = "interrupt"
  BY <1>2, ControlMoves DEF Attempt
<1>3. CASE e # "none" /\ e # "interrupt"
  BY <1>3 DEF Attempt, ControlType, Exceptions
<1> QED BY <1>1, <1>2, <1>3

\* And inside the rollback a failure is told.
LEMMA RecoverMoves ==
  ASSUME ControlType, NEW s \in Sessions, NEW e \in Exceptions, NEW p \in PCs, Recover(s, e, p)
  PROVE  \/ e = "none" /\ pc'[s] = p /\ result'[s] = result[s]
         \/ e = "interrupt" /\ pc'[s] = "end" /\ result'[s] = "interrupt"
         \/ e = "error" /\ pc'[s] = "end" /\ result'[s] = "error"
                       /\ claim'[s] = "rollbackFailed"
  BY ControlMoves DEF Recover, Exceptions

\* A step of set_attribute keeps its own invocation sound.
LEMMA SetKeeps ==
  ASSUME ControlType, DataType, NEW s \in Sessions, Sound(s),
         \/ SetRead(s) \/ SetPost(s) \/ SetValidate(s)
         \/ SetReadBack(s) \/ UndoPost(s) \/ UndoValidate(s)
         \/ UndoReadBack(s)
  PROVE  Sound(s)'
<1>1. CASE SetRead(s)
  <2>1. /\ job' = job /\ made' = made /\ posted' = posted
        /\ instance' = instance /\ job[s].op = "set" /\ pc[s] = "read"
    BY <1>1 DEF SetRead, At
  <2>2. PICK o \in ReadOutcomes, acceptable \in BOOLEAN : 
           IF o = "done" /\ acceptable /\ instance = job[s].value
           THEN Finish(s, "unchanged", "none")
           ELSE Continue(s, Required(o, acceptable), "post")
    BY <1>1 DEF SetRead
  <2>3. Required(o, acceptable) \in Exceptions /\ (Required(o, acceptable) = "none" <=> o = "done" /\ acceptable)
    BY RaisedValue DEF Exceptions
  <2>4. \/ pc'[s] = "post" /\ result'[s] = result[s]
        \/ pc'[s] = "end" /\ result'[s] # "ok"
    BY <2>1, <2>2, <2>3, RaisedValue, ControlMoves, ContinueMoves DEF PCs, Exceptions
  <2> QED
    BY <2>1, <2>4 DEF Sound, CreationMade, StartedClean, ReadsBackValid, Verified,
                       UndoneOrTold, Ended
<1>2. CASE SetPost(s)
  <2>1. /\ job' = job /\ before' = before /\ made' = made
        /\ job[s].op = "set" /\ pc[s] = "post"
    BY <1>2 DEF SetPost, At, Change
  <2>2. PICK o \in Outcomes : 
          /\ posted' = IF o = "done" THEN posted \cup {s} ELSE posted
          /\ Continue(s, Raised(o), "validate")
    BY <1>2 DEF SetPost
  <2>3. Raised(o) \in Exceptions /\ (Raised(o) = "none" <=> o = "done")
    BY RaisedValue DEF Exceptions
  <2>4. \/ pc'[s] = "validate" /\ result'[s] = result[s]
        \/ pc'[s] = "end" /\ result'[s] # "ok" /\ posted' = posted
    BY <2>1, <2>2, <2>3, RaisedValue, ControlMoves, ContinueMoves DEF PCs, Exceptions
  <2> QED
    BY <2>1, <2>4 DEF Sound, CreationMade, StartedClean, ReadsBackValid, Verified,
                       UndoneOrTold, Ended
<1>3. CASE SetValidate(s)
  <2>1. /\ job' = job /\ before' = before /\ made' = made
        /\ posted' = posted /\ instance' = instance /\ disturbed' = disturbed
        /\ job[s].op = "set" /\ pc[s] = "validate"
    BY <1>3 DEF SetValidate, At, Read, local
  <2>2. PICK o \in ReadOutcomes : 
           Attempt(s, Required(o, instance \notin Invalid), "readback", "undoPost")
    BY <1>3 DEF SetValidate
  <2>3. Required(o, instance \notin Invalid) \in Exceptions /\ (Required(o, instance \notin Invalid) = "none" <=> o = "done" /\ instance \notin Invalid)
    BY RaisedValue DEF Exceptions
  <2>4. \/ pc'[s] = "readback" /\ result'[s] = result[s] /\ instance \notin Invalid
        \/ pc'[s] = "end" /\ result'[s] = "interrupt"
        \/ pc'[s] = "undoPost" /\ result'[s] \in {"error", "config"}
    BY <2>1, <2>2, <2>3, RaisedValue, ControlMoves, AttemptMoves DEF PCs, Exceptions
  <2> QED
    BY <2>1, <2>4 DEF Sound, CreationMade, StartedClean, ReadsBackValid, Verified,
                       UndoneOrTold, Ended
<1>4. CASE SetReadBack(s)
  <2>1. /\ job' = job /\ before' = before /\ made' = made
        /\ posted' = posted /\ instance' = instance /\ disturbed' = disturbed
        /\ job[s].op = "set" /\ pc[s] = "readback"
    BY <1>4 DEF SetReadBack, At, Read, local
  <2>2. PICK o \in ReadOutcomes : 
           IF o = "done" /\ instance = job[s].value
           THEN Finish(s, "ok", "none")
           ELSE Attempt(s, Required(o, FALSE), "end", "undoPost")
    BY <1>4 DEF SetReadBack
  <2>3. Required(o, FALSE) \in Exceptions /\ (Required(o, FALSE) = "none" <=> FALSE)
    BY RaisedValue DEF Exceptions
  <2>4. \/ pc'[s] = "end" /\ result'[s] = "ok" /\ instance = job[s].value
        \/ pc'[s] = "end" /\ result'[s] = "interrupt"
        \/ pc'[s] = "undoPost" /\ result'[s] \in {"error", "config"}
    BY <2>1, <2>2, <2>3, RaisedValue, ControlMoves, AttemptMoves DEF PCs, Exceptions
  <2> QED
    BY <2>1, <2>4 DEF Sound, CreationMade, StartedClean, ReadsBackValid, Verified,
                       UndoneOrTold, Ended
<1>5. CASE UndoPost(s)
  <2>1. /\ job' = job /\ before' = before /\ made' = made
        /\ posted' = posted /\ job[s].op = "set" /\ pc[s] = "undoPost"
    BY <1>5 DEF UndoPost, At, local
  <2>2. PICK o \in Outcomes : Recover(s, Raised(o), "undoValidate")
    BY <1>5 DEF UndoPost
  <2>3. Raised(o) \in Exceptions /\ (Raised(o) = "none" <=> o = "done")
    BY RaisedValue DEF Exceptions
  <2>4. \/ pc'[s] = "undoValidate" /\ result'[s] = result[s]
        \/ pc'[s] = "end" /\ result'[s] = "interrupt"
        \/ pc'[s] = "end" /\ result'[s] = "error" /\ claim'[s] = "rollbackFailed"
    BY <2>1, <2>2, <2>3, RaisedValue, ControlMoves, RecoverMoves DEF PCs, Exceptions
  <2> QED
    BY <2>1, <2>4 DEF Sound, CreationMade, StartedClean, ReadsBackValid, Verified,
                       UndoneOrTold, Ended
<1>6. CASE UndoValidate(s)
  <2>1. /\ job' = job /\ before' = before /\ made' = made
        /\ posted' = posted /\ instance' = instance /\ disturbed' = disturbed
        /\ job[s].op = "set" /\ pc[s] = "undoValidate"
    BY <1>6 DEF UndoValidate, At, Read, local
  <2>2. PICK o \in ReadOutcomes : 
           Recover(s, Required(o, instance \notin Invalid), "undoReadback")
    BY <1>6 DEF UndoValidate
  <2>3. Required(o, instance \notin Invalid) \in Exceptions /\ (Required(o, instance \notin Invalid) = "none" <=> o = "done" /\ instance \notin Invalid)
    BY RaisedValue DEF Exceptions
  <2>4. \/ pc'[s] = "undoReadback" /\ result'[s] = result[s]
        \/ pc'[s] = "end" /\ result'[s] = "interrupt"
        \/ pc'[s] = "end" /\ result'[s] = "error" /\ claim'[s] = "rollbackFailed"
    BY <2>1, <2>2, <2>3, RaisedValue, ControlMoves, RecoverMoves DEF PCs, Exceptions
  <2> QED
    BY <2>1, <2>4 DEF Sound, CreationMade, StartedClean, ReadsBackValid, Verified,
                       UndoneOrTold, Ended
<1>7. CASE UndoReadBack(s)
  <2>1. /\ job' = job /\ before' = before /\ made' = made
        /\ posted' = posted /\ instance' = instance /\ disturbed' = disturbed
        /\ job[s].op = "set" /\ pc[s] = "undoReadback"
    BY <1>7 DEF UndoReadBack, At, Read, local
  <2>2. PICK o \in ReadOutcomes : 
           IF o = "done" /\ instance = before[s]
           THEN Finish(s, result[s], "restored")
           ELSE Recover(s, Required(o, FALSE), "end")
    BY <1>7 DEF UndoReadBack
  <2>3. Required(o, FALSE) \in Exceptions /\ (Required(o, FALSE) = "none" <=> FALSE)
    BY RaisedValue DEF Exceptions
  <2>4. \/ pc'[s] = "end" /\ result'[s] = result[s] /\ instance = before[s]
        \/ pc'[s] = "end" /\ result'[s] = "interrupt"
        \/ pc'[s] = "end" /\ result'[s] = "error" /\ claim'[s] = "rollbackFailed"
    <3>1. CASE o = "done" /\ instance = before[s]
      BY <2>2, <3>1, ControlMoves
    <3>2. CASE ~(o = "done" /\ instance = before[s])
      <4>1. Recover(s, Required(o, FALSE), "end")
        BY <2>2, <3>2
      <4> QED BY <2>3, <4>1, RecoverMoves DEF PCs
    <3> QED BY <3>1, <3>2
  <2> QED
    BY <2>1, <2>4 DEF Sound, CreationMade, StartedClean, ReadsBackValid, Verified,
                       UndoneOrTold, Ended
<1> QED
  BY <1>1, <1>2, <1>3, <1>4, <1>5, <1>6, <1>7

\* A step of create_instance keeps its own invocation sound.
LEMMA CreateKeeps ==
  ASSUME ControlType, DataType, NEW s \in Sessions, Sound(s),
         \/ CreateCheck(s) \/ CreatePost(s) \/ CreateInspect(s)
         \/ CreateConfigure(s) \/ CreateValidate(s) \/ CreateReadBack(s)
         \/ DropInstance(s) \/ DropCheck(s)
  PROVE  Sound(s)'
<1>1. CASE CreateCheck(s)
  <2>1. /\ job' = job /\ before' = before /\ made' = made
        /\ posted' = posted /\ instance' = instance /\ job[s].op = "create"
        /\ pc[s] = "check"
    BY <1>1 DEF CreateCheck, At, local
  <2>2. PICK o \in ReadOutcomes, named \in BOOLEAN : 
           Continue(s, Required(o, instance = Absent /\ named), "create")
    BY <1>1 DEF CreateCheck
  <2>3. Required(o, instance = Absent /\ named) \in Exceptions /\ (Required(o, instance = Absent /\ named) = "none" <=> o = "done" /\ instance = Absent /\ named)
    BY RaisedValue DEF Exceptions
  <2>4. \/ pc'[s] = "create" /\ result'[s] = result[s]
        \/ pc'[s] = "end" /\ result'[s] # "ok"
    BY <2>1, <2>2, <2>3, RaisedValue, ControlMoves, ContinueMoves DEF PCs, Exceptions
  <2> QED
    BY <2>1, <2>4 DEF Sound, CreationMade, StartedClean, ReadsBackValid, Verified,
                       UndoneOrTold, Ended
<1>2. CASE CreatePost(s)
  <2>1. /\ job' = job /\ before' = before /\ job[s].op = "create"
        /\ pc[s] = "create"
    BY <1>2 DEF CreatePost, At, Change
  <2>2. PICK o \in Outcomes : 
          /\ made' = IF Applied(o) THEN made \cup {s} ELSE made
          /\ posted' = IF o = "done" THEN posted \cup {s} ELSE posted
          /\ IF Raised(o) = "error"
             THEN Finish(s, "error", "removed")
             ELSE Continue(s, Raised(o), "inspect")
    BY <1>2 DEF CreatePost
  <2>3. Raised(o) \in Exceptions /\ (Raised(o) = "none" <=> o = "done")
    BY RaisedValue DEF Exceptions
  <2>4. \/ pc'[s] = "inspect" /\ result'[s] = result[s] /\ s \in made'
        \/ pc'[s] = "end" /\ result'[s] # "ok" /\ posted' = posted
    BY <2>1, <2>2, <2>3, RaisedValue, ControlMoves, ContinueMoves DEF PCs, Exceptions
  <2> QED
    BY <2>1, <2>4 DEF Sound, CreationMade, StartedClean, ReadsBackValid, Verified,
                       UndoneOrTold, Ended
<1>3. CASE CreateInspect(s)
  <2>1. /\ job' = job /\ before' = before /\ made' = made
        /\ posted' = posted /\ instance' = instance /\ disturbed' = disturbed
        /\ job[s].op = "create" /\ pc[s] = "inspect"
    BY <1>3 DEF CreateInspect, At, Read, local
  <2>2. PICK o \in ReadOutcomes, unknown \in BOOLEAN : 
           Attempt(s, IF o = "done" /\ unknown THEN "config" ELSE Raised(o),
                   IF job[s].value = Default THEN "validate" ELSE "configure",
                   "drop")
    BY <1>3 DEF CreateInspect
  <2>3. Raised(o) \in Exceptions /\ (Raised(o) = "none" <=> o = "done")
    BY RaisedValue DEF Exceptions
  <2>4. \/ pc'[s] = "validate" /\ result'[s] = result[s]
        \/ pc'[s] = "configure" /\ result'[s] = result[s]
        \/ pc'[s] = "end" /\ result'[s] = "interrupt"
        \/ pc'[s] = "drop" /\ result'[s] \in {"error", "config"}
    BY <2>1, <2>2, <2>3, RaisedValue, ControlMoves, AttemptMoves DEF PCs, Exceptions
  <2> QED
    BY <2>1, <2>4 DEF Sound, CreationMade, StartedClean, ReadsBackValid, Verified,
                       UndoneOrTold, Ended
<1>4. CASE CreateConfigure(s)
  <2>1. /\ job' = job /\ before' = before /\ made' = made
        /\ posted' = posted /\ job[s].op = "create" /\ pc[s] = "configure"
    BY <1>4 DEF CreateConfigure, At, local
  <2>2. PICK o \in Outcomes : Attempt(s, Raised(o), "validate", "drop")
    BY <1>4 DEF CreateConfigure
  <2>3. Raised(o) \in Exceptions /\ (Raised(o) = "none" <=> o = "done")
    BY RaisedValue DEF Exceptions
  <2>4. \/ pc'[s] = "validate" /\ result'[s] = result[s]
        \/ pc'[s] = "end" /\ result'[s] = "interrupt"
        \/ pc'[s] = "drop" /\ result'[s] \in {"error", "config"}
    BY <2>1, <2>2, <2>3, RaisedValue, ControlMoves, AttemptMoves DEF PCs, Exceptions
  <2> QED
    BY <2>1, <2>4 DEF Sound, CreationMade, StartedClean, ReadsBackValid, Verified,
                       UndoneOrTold, Ended
<1>5. CASE CreateValidate(s)
  <2>1. /\ job' = job /\ before' = before /\ made' = made
        /\ posted' = posted /\ instance' = instance /\ disturbed' = disturbed
        /\ job[s].op = "create" /\ pc[s] = "validate"
    BY <1>5 DEF CreateValidate, At, Read, local
  <2>2. PICK o \in ReadOutcomes : 
           Attempt(s, Required(o, instance \notin Invalid), "readback", "drop")
    BY <1>5 DEF CreateValidate
  <2>3. Required(o, instance \notin Invalid) \in Exceptions /\ (Required(o, instance \notin Invalid) = "none" <=> o = "done" /\ instance \notin Invalid)
    BY RaisedValue DEF Exceptions
  <2>4. \/ pc'[s] = "readback" /\ result'[s] = result[s] /\ instance \notin Invalid
        \/ pc'[s] = "end" /\ result'[s] = "interrupt"
        \/ pc'[s] = "drop" /\ result'[s] \in {"error", "config"}
    BY <2>1, <2>2, <2>3, RaisedValue, ControlMoves, AttemptMoves DEF PCs, Exceptions
  <2> QED
    BY <2>1, <2>4 DEF Sound, CreationMade, StartedClean, ReadsBackValid, Verified,
                       UndoneOrTold, Ended
<1>6. CASE CreateReadBack(s)
  <2>1. /\ job' = job /\ before' = before /\ made' = made
        /\ posted' = posted /\ instance' = instance /\ disturbed' = disturbed
        /\ job[s].op = "create" /\ pc[s] = "readback"
    BY <1>6 DEF CreateReadBack, At, Read, local
  <2>2. PICK o \in ReadOutcomes : 
          /\ Found(o)
          /\ IF o = "done" /\ job[s].value \in {instance, Default}
             THEN Finish(s, "ok", "none")
             ELSE Attempt(s, Required(o, FALSE), "end", "drop")
    BY <1>6 DEF CreateReadBack
  <2>3. Required(o, FALSE) \in Exceptions /\ (Required(o, FALSE) = "none" <=> FALSE)
    BY RaisedValue DEF Exceptions
  <2>4. \/ pc'[s] = "end" /\ result'[s] = "ok" /\ instance # Absent /\ job[s].value \in {instance, Default}
        \/ pc'[s] = "end" /\ result'[s] = "interrupt"
        \/ pc'[s] = "drop" /\ result'[s] \in {"error", "config"}
    BY <2>1, <2>2, <2>3, RaisedValue, ControlMoves, AttemptMoves DEF PCs, Exceptions, Found
  <2> QED
    BY <2>1, <2>4 DEF Sound, CreationMade, StartedClean, ReadsBackValid, Verified,
                       UndoneOrTold, Ended
<1>7. CASE DropInstance(s)
  <2>1. /\ job' = job /\ before' = before /\ made' = made
        /\ posted' = posted /\ job[s].op = "create" /\ pc[s] = "drop"
    BY <1>7 DEF DropInstance, At, local
  <2>2. PICK o \in Outcomes : Recover(s, Raised(o), "dropCheck")
    BY <1>7 DEF DropInstance
  <2>3. Raised(o) \in Exceptions /\ (Raised(o) = "none" <=> o = "done")
    BY RaisedValue DEF Exceptions
  <2>4. \/ pc'[s] = "dropCheck" /\ result'[s] = result[s]
        \/ pc'[s] = "end" /\ result'[s] = "interrupt"
        \/ pc'[s] = "end" /\ result'[s] = "error" /\ claim'[s] = "rollbackFailed"
    BY <2>1, <2>2, <2>3, RaisedValue, ControlMoves, RecoverMoves DEF PCs, Exceptions
  <2> QED
    BY <2>1, <2>4 DEF Sound, CreationMade, StartedClean, ReadsBackValid, Verified,
                       UndoneOrTold, Ended
<1>8. CASE DropCheck(s)
  <2>1. /\ job' = job /\ before' = before /\ made' = made
        /\ posted' = posted /\ instance' = instance /\ disturbed' = disturbed
        /\ job[s].op = "create" /\ pc[s] = "dropCheck"
    BY <1>8 DEF DropCheck, At, Read, local
  <2>2. PICK o \in ReadOutcomes : 
           IF o = "done" /\ instance = Absent
           THEN Finish(s, result[s], IF result[s] = "config" THEN "none" ELSE "removed")
           ELSE Recover(s, Required(o, FALSE), "end")
    BY <1>8 DEF DropCheck
  <2>3. Required(o, FALSE) \in Exceptions /\ (Required(o, FALSE) = "none" <=> FALSE)
    BY RaisedValue DEF Exceptions
  <2>4. \/ pc'[s] = "end" /\ result'[s] = result[s] /\ instance = Absent
        \/ pc'[s] = "end" /\ result'[s] = "interrupt"
        \/ pc'[s] = "end" /\ result'[s] = "error" /\ claim'[s] = "rollbackFailed"
    <3>1. CASE o = "done" /\ instance = Absent
      BY <2>2, <3>1, ControlMoves
    <3>2. CASE ~(o = "done" /\ instance = Absent)
      <4>1. Recover(s, Required(o, FALSE), "end")
        BY <2>2, <3>2
      <4> QED BY <2>3, <4>1, RecoverMoves DEF PCs
    <3> QED BY <3>1, <3>2
  <2> QED
    BY <2>1, <2>4 DEF Sound, CreationMade, StartedClean, ReadsBackValid, Verified,
                       UndoneOrTold, Ended
<1> QED
  BY <1>1, <1>2, <1>3, <1>4, <1>5, <1>6, <1>7, <1>8

\* A step of delete_instance keeps its own invocation sound.
LEMMA DeleteKeeps ==
  ASSUME ControlType, DataType, NEW s \in Sessions, Sound(s),
         \/ DeleteRead(s) \/ DeleteValidate(s) \/ DeleteInstance(s)
         \/ DeleteCheck(s)
  PROVE  Sound(s)'
<1>1. CASE DeleteRead(s)
  <2>1. /\ job' = job /\ made' = made /\ posted' = posted
        /\ instance' = instance /\ job[s].op = "delete" /\ pc[s] = "read"
    BY <1>1 DEF DeleteRead, At
  <2>2. PICK o \in ReadOutcomes, readOnly \in BOOLEAN : 
           Continue(s, Required(o, ~readOnly), "validate")
    BY <1>1 DEF DeleteRead
  <2>3. Required(o, ~readOnly) \in Exceptions /\ (Required(o, ~readOnly) = "none" <=> o = "done" /\ ~readOnly)
    BY RaisedValue DEF Exceptions
  <2>4. \/ pc'[s] = "validate" /\ result'[s] = result[s]
        \/ pc'[s] = "end" /\ result'[s] # "ok"
    BY <2>1, <2>2, <2>3, RaisedValue, ControlMoves, ContinueMoves DEF PCs, Exceptions
  <2> QED
    BY <2>1, <2>4 DEF Sound, CreationMade, StartedClean, ReadsBackValid, Verified,
                       UndoneOrTold, Ended
<1>2. CASE DeleteValidate(s)
  <2>1. /\ job' = job /\ before' = before /\ made' = made
        /\ posted' = posted /\ instance' = instance /\ disturbed' = disturbed
        /\ job[s].op = "delete" /\ pc[s] = "validate"
    BY <1>2 DEF DeleteValidate, At, Read, local
  <2>2. PICK o \in ReadOutcomes, unused \in BOOLEAN : 
           Continue(s, Required(o, unused), "delete")
    BY <1>2 DEF DeleteValidate
  <2>3. Required(o, unused) \in Exceptions /\ (Required(o, unused) = "none" <=> o = "done" /\ unused)
    BY RaisedValue DEF Exceptions
  <2>4. \/ pc'[s] = "delete" /\ result'[s] = result[s]
        \/ pc'[s] = "end" /\ result'[s] # "ok"
    BY <2>1, <2>2, <2>3, RaisedValue, ControlMoves, ContinueMoves DEF PCs, Exceptions
  <2> QED
    BY <2>1, <2>4 DEF Sound, CreationMade, StartedClean, ReadsBackValid, Verified,
                       UndoneOrTold, Ended
<1>3. CASE DeleteInstance(s)
  <2>1. /\ job' = job /\ before' = before /\ made' = made
        /\ job[s].op = "delete" /\ pc[s] = "delete"
    BY <1>3 DEF DeleteInstance, At
  <2>2. PICK o \in Outcomes : Continue(s, Raised(o), "deleteCheck")
    BY <1>3 DEF DeleteInstance
  <2>3. Raised(o) \in Exceptions /\ (Raised(o) = "none" <=> o = "done")
    BY RaisedValue DEF Exceptions
  <2>4. \/ pc'[s] = "deleteCheck" /\ result'[s] = result[s]
        \/ pc'[s] = "end" /\ result'[s] # "ok"
    BY <2>1, <2>2, <2>3, RaisedValue, ControlMoves, ContinueMoves DEF PCs, Exceptions
  <2> QED
    BY <2>1, <2>4 DEF Sound, CreationMade, StartedClean, ReadsBackValid, Verified,
                       UndoneOrTold, Ended
<1>4. CASE DeleteCheck(s)
  <2>1. /\ job' = job /\ before' = before /\ made' = made
        /\ posted' = posted /\ instance' = instance /\ disturbed' = disturbed
        /\ job[s].op = "delete" /\ pc[s] = "deleteCheck"
    BY <1>4 DEF DeleteCheck, At, Read, local
  <2>2. PICK o \in ReadOutcomes : 
           IF o = "done" /\ instance = Absent
           THEN Finish(s, "ok", "none")
           ELSE Finish(s, Required(o, FALSE), "none")
    BY <1>4 DEF DeleteCheck
  <2>3. Required(o, FALSE) \in Exceptions /\ (Required(o, FALSE) = "none" <=> FALSE)
    BY RaisedValue DEF Exceptions
  <2>4. \/ pc'[s] = "end" /\ result'[s] = "ok" /\ instance = Absent
        \/ pc'[s] = "end" /\ result'[s] # "ok"
    BY <2>1, <2>2, <2>3, RaisedValue, ControlMoves DEF PCs, Exceptions
  <2> QED
    BY <2>1, <2>4 DEF Sound, CreationMade, StartedClean, ReadsBackValid, Verified,
                       UndoneOrTold, Ended
<1> QED
  BY <1>1, <1>2, <1>3, <1>4

-----------------------------------------------------------------------------
(* The theorems.                                                           *)

\* What is sound stays so when another invocation, or nobody, moves.
LEMMA UnmovedKeeps ==
  ASSUME NEW t \in Sessions, Sound(t), Unmoved(t), job' = job
  PROVE  Sound(t)'
  BY DEF Sound, CreationMade, StartedClean, ReadsBackValid, Verified,
         UndoneOrTold, Ended, Unmoved

\* Every invocation stays sound.
LEMMA Induction ==
  ASSUME IInv, [Next]_vars
  PROVE  \A t \in Sessions : Sound(t)'
<1>1. ControlType /\ DataType
  BY Halves DEF IInv
<1>2. SUFFICES ASSUME NEW t \in Sessions PROVE Sound(t)'
  OBVIOUS
<1>3. Sound(t)
  BY DEF IInv
<1>4. ASSUME NEW s \in Sessions, Step(s) PROVE Sound(t)'
  <2>1. CASE s = t
    BY <1>1, <1>3, <1>4, <2>1, SetKeeps, CreateKeeps, DeleteKeeps DEF Step
  <2>2. CASE s # t
    BY <1>1, <1>3, <1>4, <2>2, StepLeavesOthers, UnmovedKeeps
  <2> QED BY <2>1, <2>2
<1>5. CASE ForeignChange
  <2>1. Unmoved(t) /\ job' = job
    BY <1>5 DEF ForeignChange, Unmoved, local
  <2> QED BY <1>3, <2>1, UnmovedKeeps
<1>6. CASE UNCHANGED vars
  <2>1. Unmoved(t) /\ job' = job
    BY <1>6 DEF vars, Unmoved
  <2> QED BY <1>3, <2>1, UnmovedKeeps
<1> QED BY <1>4, <1>5, <1>6 DEF Next

\* Nobody has done anything at the start.
LEMMA SoundInit ==
  ASSUME Init, NEW s \in Sessions
  PROVE  Sound(s)
  BY DEF Init, Sound, CreationMade, StartedClean, ReadsBackValid, Verified,
         UndoneOrTold, Ended

\* The invariant that the properties of the outcome follow from.
THEOREM SoundHolds == Spec => []IInv
<1>1. Init => \A s \in Sessions : Sound(s)
  BY SoundInit
<1>2. TypeOK /\ TypeOK' /\ (\A s \in Sessions : Sound(s)) /\ [Next]_vars
        => \A s \in Sessions : Sound(s)'
  BY Induction DEF IInv
<1> DEFINE AllSound == \A s \in Sessions : Sound(s)
<1>3. AllSound' <=> \A s \in Sessions : Sound(s)'
  OBVIOUS
<1>4. Init => AllSound
  BY <1>1
<1>5. TypeOK /\ TypeOK' /\ AllSound /\ [Next]_vars => AllSound'
  BY <1>2, <1>3
<1>6. TypeOK /\ AllSound => IInv
  BY DEF IInv
<1> HIDE DEF AllSound
<1> QED BY <1>4, <1>5, <1>6, TypeCorrect, PTL DEF Spec

\* For any invocations, undisturbed ones that succeed have made the change
\* they report, and have had it validated.
THEOREM SuccessIsVerifiedHolds == Spec => []SuccessIsVerified
<1>1. IInv => SuccessIsVerified
  BY DEF IInv, Sound, Verified, SuccessIsVerified
<1> QED BY <1>1, SoundHolds, PTL

\* And those that fail after their first mutating request returned have undone
\* it, or say that the rollback failed too.
THEOREM FailureIsUndoneOrToldHolds == Spec => []FailureIsUndoneOrTold
<1>1. IInv => FailureIsUndoneOrTold
  BY DEF IInv, TypeOK, Sound, UndoneOrTold, FailureIsUndoneOrTold
<1> QED BY <1>1, SoundHolds, PTL

\* However many invocations race for a name, a rollback removes an instance
\* only if its own create request made one.
THEOREM RemovesOnlyOwnCreationHolds == Spec => RemovesOnlyOwnCreation
<1>1. IInv /\ [Next]_vars =>
        [\A s \in Sessions : DropInstance(s) /\ instance' # instance => s \in made]_vars
  BY DEF IInv, Sound, CreationMade, DropInstance, At
<1> QED BY <1>1, SoundHolds, PTL DEF Spec, RemovesOnlyOwnCreation
=============================================================================

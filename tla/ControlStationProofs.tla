----------------------- MODULE ControlStationProofs -----------------------
(***************************************************************************)
(* Proofs about ControlStation, for any number of invocations and any      *)
(* bound on the operator's interventions.                                  *)
(***************************************************************************)
EXTENDS ControlStation, TLAPS

\* What a request raises is one of the exceptions of the command.
LEMMA RaisedType == \A o \in Outcomes : Raised(o) \in Exceptions
  BY DEF Outcomes, Raised, Exceptions

\* A GET has only outcomes a request can have.
LEMMA ReadsAreRequests == \A o \in ReadOutcomes : o \in Outcomes
  BY DEF ReadOutcomes, Outcomes

\* Checking what an answer says adds at most an error.
LEMMA RequiredType ==
  \A o \in Outcomes, w \in BOOLEAN : Required(o, w) \in Exceptions
  BY RaisedType DEF Required, Exceptions

\* The control flow of an invocation stays within its types.
LEMMA ProceedType ==
  ASSUME NEW s \in Sessions, NEW e \in Exceptions,
         NEW p \in PCs, NEW q \in PCs, TypeOK, Proceed(s, e, p, q)
  PROVE  /\ pc' \in [Sessions -> PCs]
         /\ exc' \in [Sessions -> Exceptions]
  BY DEF TypeOK, Proceed, Goto

\* Every name of a next request is one.
LEMMA NextPCs ==
  \A c : /\ AfterRecheck(c) \in PCs
         /\ AfterCheck(c) \in PCs
         /\ AfterBody(c) \in PCs
         /\ FirstPC(c) \in PCs
  BY DEF AfterRecheck, AfterCheck, AfterBody, FirstPC, PCs

\* The stations of the invocations are holders; so are the pendant and nobody.
LEMMA HolderTypes ==
  /\ \A s \in Sessions : StationOf[s] \in Holders
  /\ Pendant \in Holders
  /\ NoStation \in Holders
  BY DEF Holders, Stations

\* A step of an invocation keeps the types of the state.
LEMMA StepType ==
  ASSUME NEW s \in Sessions, TypeOK, Step(s)
  PROVE  TypeOK'
<1> USE ReadsAreRequests, RaisedType, RequiredType
<1>1. CASE CheckStopped(s)
  <2>1. PICK o \in ReadOutcomes :
           Proceed(s, Required(o, ~running), "register", "close")
    BY <1>1 DEF CheckStopped
  <2>2. Required(o, ~running) \in Exceptions
    OBVIOUS
  <2>3. /\ pc' \in [Sessions -> PCs]
        /\ exc' \in [Sessions -> Exceptions]
    BY <2>1, <2>2, ProceedType DEF PCs
  <2> QED BY <1>1, <2>3 DEF CheckStopped, TypeOK, controller
<1>2. CASE CheckStartable(s)
  <2>1. PICK o \in ReadOutcomes, w \in BOOLEAN :
           Proceed(s, Required(o, w), "register", "close")
    BY <1>2 DEF CheckStartable
  <2>2. /\ pc' \in [Sessions -> PCs]
        /\ exc' \in [Sessions -> Exceptions]
    BY <2>1, ProceedType DEF PCs
  <2> QED BY <1>2, <2>2 DEF CheckStartable, TypeOK, controller
<1>3. CASE RegisterRemote(s)
  <2>1. PICK o \in Outcomes : Proceed(s, Raised(o), "request", "close")
    BY <1>3 DEF RegisterRemote
  <2>2. /\ pc' \in [Sessions -> PCs]
        /\ exc' \in [Sessions -> Exceptions]
    BY <2>1, ProceedType DEF PCs
  <2> QED BY <1>3, <2>2 DEF RegisterRemote, TypeOK, controller
<1>4. CASE RequestWriteAccess(s)
  <2>1. PICK o \in Outcomes :
          /\ holder' = IF Applied(o) /\ holder = NoStation
                       THEN StationOf[s] ELSE holder
          /\ Proceed(s, Raised(o), "check", "close")
    BY <1>4 DEF RequestWriteAccess
  <2>2. /\ pc' \in [Sessions -> PCs]
        /\ exc' \in [Sessions -> Exceptions]
    BY <2>1, ProceedType DEF PCs
  <2>3. holder' \in Holders
    BY <2>1, HolderTypes DEF TypeOK
  <2> QED BY <1>4, <2>2, <2>3 DEF RequestWriteAccess, TypeOK
<1>5. CASE CheckStatus(s)
  <2>1. PICK o \in ReadOutcomes, x \in BOOLEAN :
           Proceed(s, Required(o, x /\ Serves(s)),
                   AfterCheck(command[s]), "release")
    BY <1>5 DEF CheckStatus
  <2>2. Required(o, x /\ Serves(s)) \in Exceptions
    OBVIOUS
  <2>3. /\ pc' \in [Sessions -> PCs]
        /\ exc' \in [Sessions -> Exceptions]
    BY <2>1, <2>2, ProceedType, NextPCs DEF PCs
  <2> QED BY <1>5, <2>3 DEF CheckStatus, TypeOK, controller
<1>6. CASE RecheckStopped(s)
  <2>1. PICK o \in ReadOutcomes :
           Proceed(s, Required(o, ~running), AfterRecheck(command[s]), "release")
    BY <1>6 DEF RecheckStopped
  <2>2. Required(o, ~running) \in Exceptions
    OBVIOUS
  <2>3. /\ pc' \in [Sessions -> PCs]
        /\ exc' \in [Sessions -> Exceptions]
    BY <2>1, <2>2, ProceedType, NextPCs DEF PCs
  <2> QED BY <1>6, <2>3 DEF RecheckStopped, TypeOK, controller
<1>7. CASE EnableMotion(s)
  <2>1. PICK o \in Outcomes : /\ motion' \in {motion, TRUE}
                              /\ Proceed(s, Raised(o), "verifyOn", "disable")
    BY <1>7 DEF EnableMotion
  <2>2. /\ pc' \in [Sessions -> PCs]
        /\ exc' \in [Sessions -> Exceptions]
    BY <2>1, ProceedType DEF PCs
  <2> QED BY <1>7, <2>1, <2>2 DEF EnableMotion, TypeOK
<1>8. CASE VerifyMotionOn(s)
  <2>1. PICK o \in ReadOutcomes :
           Proceed(s, Required(o, motion), "body", "disable")
    BY <1>8 DEF VerifyMotionOn
  <2>2. Required(o, motion) \in Exceptions
    BY DEF TypeOK
  <2>3. /\ pc' \in [Sessions -> PCs]
        /\ exc' \in [Sessions -> Exceptions]
    BY <2>1, <2>2, ProceedType DEF PCs
  <2> QED BY <1>8, <2>3 DEF VerifyMotionOn, TypeOK, controller
<1>9. CASE StartExecution(s)
  <2>1. PICK o \in Outcomes : LeaveBody(s, o) /\ running' = (running \/ Applied(o))
    BY <1>9 DEF StartExecution
  <2>2. /\ pc' \in [Sessions -> PCs]
        /\ exc' \in [Sessions -> Exceptions]
    BY <2>1, ProceedType, NextPCs DEF LeaveBody
  <2> QED BY <1>9, <2>1, <2>2 DEF StartExecution, TypeOK
<1>10. CASE StopExecution(s)
  <2>1. PICK o \in Outcomes : LeaveBody(s, o) /\ running' = (running /\ ~Applied(o))
    BY <1>10 DEF StopExecution
  <2>2. /\ pc' \in [Sessions -> PCs]
        /\ exc' \in [Sessions -> Exceptions]
    BY <2>1, ProceedType, NextPCs DEF LeaveBody
  <2> QED BY <1>10, <2>1, <2>2 DEF StopExecution, TypeOK
<1>11. CASE WarmRestart(s)
  <2>1. PICK o \in Outcomes :
           /\ LeaveBody(s, o)
           /\ holder' \in IF Applied(o) THEN {holder, NoStation} ELSE {holder}
    BY <1>11 DEF WarmRestart
  <2>2. /\ pc' \in [Sessions -> PCs]
        /\ exc' \in [Sessions -> Exceptions]
    BY <2>1, ProceedType, NextPCs DEF LeaveBody
  <2>3. holder' \in Holders
    BY <2>1, HolderTypes DEF TypeOK
  <2> QED BY <1>11, <2>2, <2>3 DEF WarmRestart, TypeOK
<1>12. CASE Operate(s)
  <2>1. PICK o \in Outcomes : LeaveBody(s, o)
    BY <1>12 DEF Operate
  <2>2. /\ pc' \in [Sessions -> PCs]
        /\ exc' \in [Sessions -> Exceptions]
    BY <2>1, ProceedType, NextPCs DEF LeaveBody
  <2> QED BY <1>12, <2>2 DEF Operate, TypeOK, controller
<1>13. CASE DisableMotion(s)
  <2>1. PICK o \in Outcomes :
          /\ motion' \in {motion, FALSE}
          /\ Proceed(s, DisableRaises(s, Raised(o)),
                     IF Raised(o) = "none" THEN "verifyOff" ELSE "release",
                     IF Raised(o) = "none" THEN "verifyOff" ELSE "release")
    BY <1>13 DEF DisableMotion
  <2>2. DisableRaises(s, Raised(o)) \in Exceptions
    BY DEF DisableRaises, TypeOK
  <2>3. /\ pc' \in [Sessions -> PCs]
        /\ exc' \in [Sessions -> Exceptions]
    BY <2>1, <2>2, ProceedType DEF PCs
  <2> QED BY <1>13, <2>1, <2>3 DEF DisableMotion, TypeOK
<1>14. CASE VerifyMotionOff(s)
  <2>1. PICK o \in ReadOutcomes :
          Proceed(s, DisableRaises(s, Required(o, ~motion)), "release", "release")
    BY <1>14 DEF VerifyMotionOff
  <2>2. Required(o, ~motion) \in Exceptions
    OBVIOUS
  <2>3. DisableRaises(s, Required(o, ~motion)) \in Exceptions
    BY <2>2 DEF DisableRaises, TypeOK
  <2>4. /\ pc' \in [Sessions -> PCs]
        /\ exc' \in [Sessions -> Exceptions]
    BY <2>1, <2>3, ProceedType DEF PCs
  <2> QED BY <1>14, <2>4 DEF VerifyMotionOff, TypeOK, controller
<1>15. CASE ReleaseWriteAccess(s)
  <2>1. PICK o \in Outcomes :
          /\ holder' = IF Applied(o) /\ Serves(s) THEN NoStation ELSE holder
          /\ Proceed(s, ReleaseRaises(s, Raised(o)), "close", "close")
    BY <1>15 DEF ReleaseWriteAccess
  <2>2. ReleaseRaises(s, Raised(o)) \in Exceptions
    BY DEF ReleaseRaises, TypeOK
  <2>3. /\ pc' \in [Sessions -> PCs]
        /\ exc' \in [Sessions -> Exceptions]
    BY <2>1, <2>2, ProceedType DEF PCs
  <2>4. holder' \in Holders
    BY <2>1, HolderTypes DEF TypeOK
  <2> QED BY <1>15, <2>3, <2>4 DEF ReleaseWriteAccess, TypeOK
<1>16. CASE Close(s)
  <2>1. PICK o \in Outcomes :
          Proceed(s, IF Raised(o) = "interrupt" THEN "interrupt" ELSE "none",
                  "exited", "exited")
    BY <1>16 DEF Close
  <2>2. (IF Raised(o) = "interrupt" THEN "interrupt" ELSE "none") \in Exceptions
    BY DEF Exceptions
  <2>3. /\ pc' \in [Sessions -> PCs]
        /\ exc' \in [Sessions -> Exceptions]
    BY <2>1, <2>2, ProceedType DEF PCs
  <2> QED BY <1>16, <2>3 DEF Close, TypeOK, controller
<1> QED
  BY <1>1, <1>2, <1>3, <1>4, <1>5, <1>6, <1>7, <1>8, <1>9, <1>10, <1>11,
     <1>12, <1>13, <1>14, <1>15, <1>16 DEF Step

\* So does a step of the controller or its operator.
LEMMA EnvironmentType ==
  ASSUME TypeOK, Environment
  PROVE  TypeOK'
<1>1. CASE ReleaseLost \/ PendantReleases
  BY <1>1, HolderTypes DEF ReleaseLost, PendantReleases, TypeOK
<1>2. CASE PendantTakes
  BY <1>2, HolderTypes DEF PendantTakes, TypeOK
<1>3. CASE PendantStarts \/ ProgramEnds
  BY <1>3 DEF PendantStarts, ProgramEnds, TypeOK
<1>4. CASE OperatorRevokes
  <2>1. revocations' \in 0..MaxRevocations
    BY <1>4, RevocationsAssumption DEF OperatorRevokes, TypeOK
  <2>2. motion' \in BOOLEAN
    BY <1>4 DEF OperatorRevokes, TypeOK
  <2> QED BY <1>4, <2>1, <2>2, HolderTypes DEF OperatorRevokes, TypeOK
<1> QED BY <1>1, <1>2, <1>3, <1>4 DEF Environment

\* The state stays within its types.
THEOREM TypeCorrect == Spec => []TypeOK
<1>1. Init => TypeOK
  <2> SUFFICES ASSUME Init PROVE TypeOK
    OBVIOUS
  <2>1. pc \in [Sessions -> PCs]
    BY NextPCs DEF Init
  <2>2. exc \in [Sessions -> Exceptions]
    BY DEF Init, Exceptions
  <2>3. revocations \in 0..MaxRevocations
    BY RevocationsAssumption DEF Init
  <2> QED BY <2>1, <2>2, <2>3, HolderTypes DEF Init, TypeOK
<1>2. TypeOK /\ [Next]_vars => TypeOK'
  <2> SUFFICES ASSUME TypeOK, [Next]_vars PROVE TypeOK'
    OBVIOUS
  <2>1. CASE \E s \in Sessions : Step(s)
    BY <2>1, StepType
  <2>2. CASE Environment
    BY <2>2, EnvironmentType
  <2>3. CASE UNCHANGED vars
    BY <2>3 DEF vars, TypeOK
  <2> QED BY <2>1, <2>2, <2>3 DEF Next
<1> QED BY <1>1, <1>2, PTL DEF Spec

-----------------------------------------------------------------------------
(* What one step can do to the state the safety properties relate.         *)

\* An invocation moves itself only.
LEMMA StepMovesOne ==
  ASSUME NEW s \in Sessions, TypeOK, Step(s)
  PROVE  /\ command' = command
         /\ revocations' = revocations
         /\ \A t \in Sessions : t # s => pc'[t] = pc[t] /\ exc'[t] = exc[t]
<1> USE DEF Proceed, Goto, LeaveBody, controller
<1>1. CASE CheckStopped(s) \/ CheckStartable(s) \/ RegisterRemote(s)
  BY <1>1 DEF CheckStopped, CheckStartable, RegisterRemote, TypeOK
<1>2. CASE RequestWriteAccess(s) \/ CheckStatus(s) \/ RecheckStopped(s)
  BY <1>2 DEF RequestWriteAccess, CheckStatus, RecheckStopped, TypeOK
<1>3. CASE EnableMotion(s) \/ VerifyMotionOn(s)
  BY <1>3 DEF EnableMotion, VerifyMotionOn, TypeOK
<1>4. CASE StartExecution(s) \/ StopExecution(s) \/ WarmRestart(s) \/ Operate(s)
  BY <1>4 DEF StartExecution, StopExecution, WarmRestart, Operate, TypeOK
<1>5. CASE DisableMotion(s) \/ VerifyMotionOff(s)
  BY <1>5 DEF DisableMotion, VerifyMotionOff, TypeOK
<1>6. CASE ReleaseWriteAccess(s) \/ Close(s)
  BY <1>6 DEF ReleaseWriteAccess, Close, TypeOK
<1> QED BY <1>1, <1>2, <1>3, <1>4, <1>5, <1>6 DEF Step

\* Only a request that found the access free gives it to the station, and
\* only the station's own restart or release lets it go.
LEMMA StepMovesHolder ==
  ASSUME NEW s \in Sessions, TypeOK, Step(s)
  PROVE  \/ holder' = holder
         \/ /\ holder = NoStation
            /\ holder' = StationOf[s]
            /\ At(s, "request")
         \/ /\ Serves(s)
            /\ holder' = NoStation
            /\ pc'[s] \notin ScopePCs
<1> USE DEF Proceed, Goto, LeaveBody, controller, At
<1>1. CASE CheckStopped(s) \/ CheckStartable(s) \/ RegisterRemote(s)
  BY <1>1 DEF CheckStopped, CheckStartable, RegisterRemote
<1>2. CASE RequestWriteAccess(s)
  BY <1>2 DEF RequestWriteAccess
<1>3. CASE CheckStatus(s) \/ RecheckStopped(s)
  BY <1>3 DEF CheckStatus, RecheckStopped
<1>4. CASE EnableMotion(s) \/ VerifyMotionOn(s)
  BY <1>4 DEF EnableMotion, VerifyMotionOn
<1>5. CASE StartExecution(s) \/ StopExecution(s) \/ Operate(s)
  BY <1>5 DEF StartExecution, StopExecution, Operate
<1>6. CASE WarmRestart(s)
  <2>1. pc'[s] = "release"
    BY <1>6 DEF WarmRestart, TypeOK, AfterBody, MovesRobot
  <2>2. holder' = holder \/ (Serves(s) /\ holder' = NoStation)
    BY <1>6 DEF WarmRestart
  <2> QED BY <2>1, <2>2 DEF ScopePCs
<1>7. CASE DisableMotion(s) \/ VerifyMotionOff(s) \/ Close(s)
  BY <1>7 DEF DisableMotion, VerifyMotionOff, Close
<1>8. CASE ReleaseWriteAccess(s)
  BY <1>8 DEF ReleaseWriteAccess, TypeOK, ScopePCs
<1> QED BY <1>1, <1>2, <1>3, <1>4, <1>5, <1>6, <1>7, <1>8 DEF Step

\* The scope is entered through the status check alone, which saw the
\* station as the holder.
LEMMA ScopeEntry ==
  ASSUME NEW s \in Sessions, TypeOK, Step(s), pc'[s] \in ScopePCs
  PROVE  pc[s] \in ScopePCs \/ Serves(s)
<1> USE DEF Proceed, Goto, LeaveBody, At, ScopePCs, TypeOK
<1>1. CASE CheckStopped(s) \/ CheckStartable(s) \/ RegisterRemote(s)
  BY <1>1 DEF CheckStopped, CheckStartable, RegisterRemote
<1>2. CASE RequestWriteAccess(s)
  BY <1>2 DEF RequestWriteAccess
<1>3. CASE CheckStatus(s)
  <2>1. PICK o \in ReadOutcomes, x \in BOOLEAN :
           Proceed(s, Required(o, x /\ Serves(s)),
                   AfterCheck(command[s]), "release")
    BY <1>3 DEF CheckStatus
  <2>2. Required(o, x /\ Serves(s)) = "none"
    BY <2>1
  <2> QED BY <2>2 DEF Required, Raised, ReadOutcomes
<1>4. CASE RecheckStopped(s) \/ EnableMotion(s) \/ VerifyMotionOn(s)
  BY <1>4 DEF RecheckStopped, EnableMotion, VerifyMotionOn
<1>5. CASE StartExecution(s) \/ StopExecution(s) \/ WarmRestart(s) \/ Operate(s)
  BY <1>5 DEF StartExecution, StopExecution, WarmRestart, Operate
<1>6. CASE DisableMotion(s) \/ VerifyMotionOff(s)
  BY <1>6 DEF DisableMotion, VerifyMotionOff
<1>7. CASE ReleaseWriteAccess(s) \/ Close(s)
  BY <1>7 DEF ReleaseWriteAccess, Close
<1> QED BY <1>1, <1>2, <1>3, <1>4, <1>5, <1>6, <1>7 DEF Step

\* The environment moves no invocation.
LEMMA EnvironmentMovesNone ==
  ASSUME Environment
  PROVE  UNCHANGED <<command, pc, exc>>
  BY DEF Environment, ReleaseLost, PendantTakes, PendantReleases,
         PendantStarts, OperatorRevokes, ProgramEnds

-----------------------------------------------------------------------------
(* The write access is held throughout the scope.                          *)

\* Nobody is in a scope at the start.
LEMMA HeldInit == Init => HeldThroughScope
  BY DEF Init, HeldThroughScope, InScope, FirstPC, ScopePCs

\* A step of an invocation preserves it: what another station holds, it can
\* neither obtain nor release.
LEMMA HeldStep ==
  ASSUME DistinctStations, TypeOK, HeldThroughScope,
         NEW s \in Sessions, Step(s)
  PROVE  HeldThroughScope'
<1> SUFFICES ASSUME revocations' = 0, NEW t \in Sessions, pc'[t] \in ScopePCs
             PROVE  holder' = StationOf[t]
  BY DEF HeldThroughScope, Undisturbed, InScope, Serves
<1>1. holder = StationOf[t]
  <2>1. revocations = 0
    BY StepMovesOne
  <2>2. pc[t] \in ScopePCs \/ Serves(t)
    BY StepMovesOne, ScopeEntry
  <2> QED BY <2>1, <2>2 DEF HeldThroughScope, Undisturbed, InScope, Serves
<1>2. holder # NoStation
  BY <1>1, StationsAssumption DEF Stations
<1>3. Serves(s) => t = s
  BY <1>1 DEF Serves, DistinctStations
<1> QED BY <1>1, <1>2, <1>3, StepMovesHolder

\* Only the operator takes the access from a station that is still at work.
LEMMA HeldEnvironment ==
  ASSUME TypeOK, HeldThroughScope, Environment
  PROVE  HeldThroughScope'
<1> SUFFICES ASSUME revocations' = 0, NEW t \in Sessions, pc'[t] \in ScopePCs
             PROVE  holder' = StationOf[t]
  BY DEF HeldThroughScope, Undisturbed, InScope, Serves
<1>1. pc[t] \in ScopePCs
  BY EnvironmentMovesNone
<1>2. CASE OperatorRevokes
  BY <1>2 DEF OperatorRevokes, TypeOK
<1>3. CASE ~OperatorRevokes
  <2>1. revocations = 0
    BY <1>3 DEF Environment, ReleaseLost, PendantTakes, PendantReleases,
                PendantStarts, ProgramEnds
  <2>2. holder = StationOf[t]
    BY <1>1, <2>1 DEF HeldThroughScope, Undisturbed, InScope, Serves
  <2>3. holder # NoStation /\ holder # Pendant
    BY <2>2, StationsAssumption DEF Stations
  <2>4. ~ReleaseLost
    BY <1>1, <2>2 DEF ReleaseLost, Registered, ScopePCs
  <2> QED
    BY <1>3, <2>2, <2>3, <2>4
       DEF Environment, PendantTakes, PendantReleases, PendantStarts, ProgramEnds
<1> QED BY <1>2, <1>3

\* With identities of their own, invocations hold the access from the yield
\* of write_access to its finally block, unless the operator intervenes.
THEOREM HeldThroughScopeHolds == DistinctStations => (Spec => []HeldThroughScope)
<1> SUFFICES ASSUME DistinctStations PROVE Spec => []HeldThroughScope
  OBVIOUS
<1>1. TypeOK /\ HeldThroughScope /\ [Next]_vars => HeldThroughScope'
  <2> SUFFICES ASSUME TypeOK, HeldThroughScope, [Next]_vars
               PROVE  HeldThroughScope'
    OBVIOUS
  <2>1. CASE \E s \in Sessions : Step(s)
    BY <2>1, HeldStep
  <2>2. CASE Environment
    BY <2>2, HeldEnvironment
  <2>3. CASE UNCHANGED vars
    BY <2>3 DEF vars, HeldThroughScope, Undisturbed, InScope, Serves
  <2> QED BY <2>1, <2>2, <2>3 DEF Next
<1> QED BY <1>1, HeldInit, TypeCorrect, PTL DEF Spec

-----------------------------------------------------------------------------
(* A command that exits 0 has released, unless it releases with best effort. *)

\* The only ways to an exit without an exception.
LEMMA CleanExit ==
  ASSUME NEW s \in Sessions, TypeOK, Step(s),
         pc'[s] \in {"close", "exited"}, exc'[s] = "none",
         command[s] \notin BestEffort
  PROVE  \/ holder' # StationOf[s]
         \/ pc[s] = "close" /\ exc[s] = "none" /\ holder' = holder
<1> USE DEF Proceed, Goto, At, TypeOK
<1>1. CASE CheckStopped(s) \/ CheckStartable(s) \/ RegisterRemote(s)
  BY <1>1 DEF CheckStopped, CheckStartable, RegisterRemote
<1>2. CASE RequestWriteAccess(s) \/ CheckStatus(s) \/ RecheckStopped(s)
  BY <1>2, NextPCs DEF RequestWriteAccess, CheckStatus, RecheckStopped,
                       AfterCheck, AfterRecheck
<1>3. CASE EnableMotion(s) \/ VerifyMotionOn(s) \/ DisableMotion(s) \/ VerifyMotionOff(s)
  BY <1>3 DEF EnableMotion, VerifyMotionOn, DisableMotion, VerifyMotionOff
<1>4. CASE StartExecution(s) \/ StopExecution(s) \/ WarmRestart(s) \/ Operate(s)
  BY <1>4 DEF StartExecution, StopExecution, WarmRestart, Operate,
              LeaveBody, AfterBody
<1>5. CASE ReleaseWriteAccess(s)
  <2>1. PICK o \in Outcomes :
          /\ holder' = IF Applied(o) /\ Serves(s) THEN NoStation ELSE holder
          /\ Proceed(s, ReleaseRaises(s, Raised(o)), "close", "close")
    BY <1>5 DEF ReleaseWriteAccess
  <2>2. ReleaseRaises(s, Raised(o)) = Raised(o)
    BY DEF ReleaseRaises
  <2>3. Raised(o) = "none"
    BY <2>1, <2>2
  <2>4. Applied(o)
    BY <2>3 DEF Applied, Raised, Outcomes
  <2>5. StationOf[s] # NoStation
    BY StationsAssumption DEF Stations
  <2> QED BY <2>1, <2>4, <2>5 DEF Serves
<1>6. CASE Close(s)
  BY <1>6 DEF Close, controller
<1> QED BY <1>1, <1>2, <1>3, <1>4, <1>5, <1>6 DEF Step

\* A step of an invocation preserves it: the exit status is clean only after
\* a release that was answered.
LEMMA ReleasedStep ==
  ASSUME DistinctStations, TypeOK, ReleasedOnSuccess,
         NEW s \in Sessions, Step(s)
  PROVE  ReleasedOnSuccess'
<1> SUFFICES ASSUME NEW t \in Sessions,
                    pc'[t] \in {"close", "exited"}, exc'[t] = "none",
                    command'[t] \notin BestEffort
             PROVE  holder' # StationOf[t]
  BY DEF ReleasedOnSuccess
<1>1. command[t] \notin BestEffort
  BY StepMovesOne
<1>2. StationOf[t] # NoStation
  BY StationsAssumption DEF Stations
<1>3. CASE t = s
  BY <1>1, <1>3, CleanExit DEF ReleasedOnSuccess
<1>4. CASE t # s
  <2>1. pc[t] \in {"close", "exited"} /\ exc[t] = "none"
    BY <1>4, StepMovesOne
  <2>2. holder # StationOf[t]
    BY <1>1, <2>1 DEF ReleasedOnSuccess
  <2>3. StationOf[s] # StationOf[t]
    BY <1>4 DEF DistinctStations
  <2> QED BY <1>2, <2>2, <2>3, StepMovesHolder
<1> QED BY <1>3, <1>4

\* With identities of their own, a command that releases with more than best
\* effort and exits 0 no longer holds the access.
THEOREM ReleasedOnSuccessHolds ==
  DistinctStations => (Spec => []ReleasedOnSuccess)
<1> SUFFICES ASSUME DistinctStations PROVE Spec => []ReleasedOnSuccess
  OBVIOUS
<1>1. Init => ReleasedOnSuccess
  BY DEF Init, ReleasedOnSuccess, FirstPC
<1>2. TypeOK /\ ReleasedOnSuccess /\ [Next]_vars => ReleasedOnSuccess'
  <2> SUFFICES ASSUME TypeOK, ReleasedOnSuccess, [Next]_vars
               PROVE  ReleasedOnSuccess'
    OBVIOUS
  <2>1. CASE \E s \in Sessions : Step(s)
    BY <2>1, ReleasedStep
  <2>2. CASE Environment
    <3>1. holder' \in {holder, NoStation, Pendant}
      BY <2>2 DEF Environment, ReleaseLost, PendantTakes, PendantReleases,
                  PendantStarts, OperatorRevokes, ProgramEnds
    <3>2. \A t \in Sessions : StationOf[t] \notin {NoStation, Pendant}
      BY StationsAssumption DEF Stations
    <3> QED BY <2>2, <3>1, <3>2, EnvironmentMovesNone DEF ReleasedOnSuccess
  <2>3. CASE UNCHANGED vars
    BY <2>3 DEF vars, ReleasedOnSuccess
  <2> QED BY <2>1, <2>2, <2>3 DEF Next
<1> QED BY <1>1, <1>2, TypeCorrect, PTL DEF Spec

-----------------------------------------------------------------------------
(* Motion Control.                                                         *)

\* The steps of a command stand where its kind allows.
LEMMA PlacedStep ==
  ASSUME TypeOK, Placed, NEW s \in Sessions, Step(s)
  PROVE  Placed'
<1> SUFFICES
      /\ pc'[s] = "recheck" => command[s] \in RechecksStopped
      /\ pc'[s] \in {"enable", "verifyOn", "disable", "verifyOff"}
            => command[s] \in MovesRobot
  BY StepMovesOne DEF Placed, At
<1> USE DEF Proceed, Goto, At, TypeOK
<1>1. CASE CheckStopped(s) \/ CheckStartable(s) \/ RegisterRemote(s)
  BY <1>1 DEF CheckStopped, CheckStartable, RegisterRemote
<1>2. CASE RequestWriteAccess(s) \/ CheckStatus(s) \/ RecheckStopped(s)
  BY <1>2 DEF RequestWriteAccess, CheckStatus, RecheckStopped,
              AfterCheck, AfterRecheck
<1>3. CASE EnableMotion(s) \/ VerifyMotionOn(s) \/ DisableMotion(s) \/ VerifyMotionOff(s)
  BY <1>3 DEF EnableMotion, VerifyMotionOn, DisableMotion, VerifyMotionOff, Placed
<1>4. CASE StartExecution(s) \/ StopExecution(s) \/ WarmRestart(s) \/ Operate(s)
  BY <1>4 DEF StartExecution, StopExecution, WarmRestart, Operate,
              LeaveBody, AfterBody
<1>5. CASE ReleaseWriteAccess(s) \/ Close(s)
  BY <1>5 DEF ReleaseWriteAccess, Close
<1> QED BY <1>1, <1>2, <1>3, <1>4, <1>5 DEF Step

\* Recheck and Motion Control steps belong to the commands that have them.
THEOREM PlacedHolds == Spec => []Placed
<1>1. Init => Placed
  BY DEF Init, Placed, At, FirstPC
<1>2. TypeOK /\ Placed /\ [Next]_vars => Placed'
  <2> SUFFICES ASSUME TypeOK, Placed, [Next]_vars PROVE Placed'
    OBVIOUS
  <2>1. CASE \E s \in Sessions : Step(s)
    BY <2>1, PlacedStep
  <2>2. CASE Environment
    BY <2>2, EnvironmentMovesNone DEF Placed, At
  <2>3. CASE UNCHANGED vars
    BY <2>3 DEF vars, Placed, At
  <2> QED BY <2>1, <2>2, <2>3 DEF Next
<1> QED BY <1>1, <1>2, TypeCorrect, PTL DEF Spec

\* A failure is never turned into a success by the clean-up that follows it.
LEMMA FailureStays ==
  ASSUME NEW s \in Sessions, TypeOK, Step(s), exc[s] # "none"
  PROVE  exc'[s] # "none"
<1> USE DEF Proceed, Goto, LeaveBody, TypeOK
<1>1. CASE CheckStopped(s) \/ CheckStartable(s) \/ RegisterRemote(s)
  BY <1>1 DEF CheckStopped, CheckStartable, RegisterRemote
<1>2. CASE RequestWriteAccess(s) \/ CheckStatus(s) \/ RecheckStopped(s)
  BY <1>2 DEF RequestWriteAccess, CheckStatus, RecheckStopped
<1>3. CASE EnableMotion(s) \/ VerifyMotionOn(s) \/ DisableMotion(s) \/ VerifyMotionOff(s)
  BY <1>3 DEF EnableMotion, VerifyMotionOn, DisableMotion, VerifyMotionOff
<1>4. CASE StartExecution(s) \/ StopExecution(s) \/ WarmRestart(s) \/ Operate(s)
  BY <1>4 DEF StartExecution, StopExecution, WarmRestart, Operate
<1>5. CASE ReleaseWriteAccess(s) \/ Close(s)
  BY <1>5 DEF ReleaseWriteAccess, Close
<1> QED BY <1>1, <1>2, <1>3, <1>4, <1>5 DEF Step

\* What accounts for Motion Control being allowed.
Accounts(s) ==
  /\ command[s] \in MovesRobot
  /\ \/ pc[s] \in {"verifyOn", "body", "disable", "verifyOff"}
     \/ exc[s] # "none"

\* Only an enable allows it; only a disable of the holder forbids it.
LEMMA StepMovesMotion ==
  ASSUME NEW s \in Sessions, TypeOK, Step(s)
  PROVE  \/ motion' = motion
         \/ EnableMotion(s)
         \/ DisableMotion(s) /\ Serves(s) /\ motion' = FALSE
<1>1. CASE DisableMotion(s)
  BY <1>1 DEF DisableMotion, TypeOK
<1>2. CASE ~DisableMotion(s) /\ ~EnableMotion(s)
  BY <1>2 DEF Step, CheckStopped, CheckStartable, RegisterRemote,
              RequestWriteAccess, CheckStatus, RecheckStopped, VerifyMotionOn,
              StartExecution, StopExecution, WarmRestart, Operate,
              VerifyMotionOff, ReleaseWriteAccess, Close, controller
<1> QED BY <1>1, <1>2

\* A start that accounts for Motion Control does so until it has read it back
\* as disabled, or failed.
LEMMA AccountingGoesOn ==
  ASSUME NEW s \in Sessions, TypeOK, Placed, Step(s), Accounts(s), motion'
  PROVE  Accounts(s)'
<1> USE DEF Proceed, Goto, At, TypeOK
<1>1. command'[s] \in MovesRobot
  BY StepMovesOne DEF Accounts
<1>2. CASE exc[s] # "none"
  BY <1>1, <1>2, FailureStays DEF Accounts
<1>3. CASE exc[s] = "none" /\ pc[s] = "verifyOn"
  <2>1. VerifyMotionOn(s)
    BY <1>3 DEF Step, CheckStopped, CheckStartable, RegisterRemote,
                RequestWriteAccess, CheckStatus, RecheckStopped, EnableMotion,
                StartExecution, StopExecution, WarmRestart, Operate, LeaveBody,
                DisableMotion, VerifyMotionOff, ReleaseWriteAccess, Close
  <2> QED BY <1>1, <2>1 DEF VerifyMotionOn, Accounts
<1>4. CASE exc[s] = "none" /\ pc[s] = "body"
  <2>1. \E o \in Outcomes : LeaveBody(s, o)
    BY <1>4 DEF Step, CheckStopped, CheckStartable, RegisterRemote,
                RequestWriteAccess, CheckStatus, RecheckStopped, EnableMotion,
                VerifyMotionOn, StartExecution, StopExecution, WarmRestart,
                Operate, DisableMotion, VerifyMotionOff, ReleaseWriteAccess, Close
  <2>2. AfterBody(command[s]) = "disable"
    BY DEF Accounts, AfterBody
  <2> QED BY <1>1, <2>1, <2>2 DEF LeaveBody, Accounts
<1>5. CASE exc[s] = "none" /\ pc[s] = "disable"
  <2>1. DisableMotion(s)
    BY <1>5 DEF Step, CheckStopped, CheckStartable, RegisterRemote,
                RequestWriteAccess, CheckStatus, RecheckStopped, EnableMotion,
                VerifyMotionOn, StartExecution, StopExecution, WarmRestart,
                Operate, LeaveBody, VerifyMotionOff, ReleaseWriteAccess, Close
  <2>2. PICK o \in Outcomes :
          Proceed(s, DisableRaises(s, Raised(o)),
                  IF Raised(o) = "none" THEN "verifyOff" ELSE "release",
                  IF Raised(o) = "none" THEN "verifyOff" ELSE "release")
    BY <2>1 DEF DisableMotion
  <2>3. CASE Raised(o) = "none"
    BY <1>1, <2>2, <2>3 DEF Accounts
  <2>4. CASE Raised(o) # "none"
    <3>1. DisableRaises(s, Raised(o)) # "none"
      BY <1>5, <2>4 DEF DisableRaises
    <3> QED BY <1>1, <2>2, <3>1 DEF Accounts
  <2> QED BY <2>3, <2>4
<1>6. CASE exc[s] = "none" /\ pc[s] = "verifyOff"
  <2>1. VerifyMotionOff(s)
    BY <1>6 DEF Step, CheckStopped, CheckStartable, RegisterRemote,
                RequestWriteAccess, CheckStatus, RecheckStopped, EnableMotion,
                VerifyMotionOn, StartExecution, StopExecution, WarmRestart,
                Operate, LeaveBody, DisableMotion, ReleaseWriteAccess, Close
  <2>2. PICK o \in ReadOutcomes :
          Proceed(s, DisableRaises(s, Required(o, ~motion)), "release", "release")
    BY <2>1 DEF VerifyMotionOff
  <2>3. motion
    BY <2>1 DEF VerifyMotionOff, controller
  <2>4. Required(o, ~motion) # "none"
    BY <2>3 DEF Required, Raised, ReadOutcomes
  <2>5. DisableRaises(s, Required(o, ~motion)) # "none"
    BY <1>6, <2>4 DEF DisableRaises
  <2> QED BY <1>1, <2>2, <2>5 DEF Accounts
<1> QED BY <1>2, <1>3, <1>4, <1>5, <1>6 DEF Accounts

\* A step of an invocation preserves it: whoever accounts for Motion Control
\* is the one that moved, or another one, which did not.
LEMMA MotionScopedStep ==
  ASSUME TypeOK, Placed, MotionScoped, NEW s \in Sessions, Step(s)
  PROVE  MotionScoped'
<1> SUFFICES ASSUME motion' PROVE \E t \in Sessions : Accounts(t)'
  BY DEF MotionScoped, Accounts
<1>1. CASE motion
  <2>1. PICK t \in Sessions : Accounts(t)
    BY <1>1 DEF MotionScoped, Accounts
  <2>2. CASE t = s
    BY <2>1, <2>2, AccountingGoesOn
  <2>3. CASE t # s
    BY <2>1, <2>3, StepMovesOne DEF Accounts
  <2> QED BY <2>2, <2>3
<1>2. CASE ~motion
  <2>1. EnableMotion(s)
    BY <1>2, StepMovesMotion
  <2>2. command'[s] \in MovesRobot
    BY <2>1, StepMovesOne DEF Placed, EnableMotion, At
  <2>3. pc'[s] = "verifyOn" \/ exc'[s] # "none"
    BY <2>1 DEF EnableMotion, Proceed, Goto, TypeOK
  <2>4. Accounts(s)'
    BY <2>2, <2>3 DEF Accounts
  <2> QED BY <2>4
<1> QED BY <1>1, <1>2

\* For any stations, shared or not: Motion Control is allowed only between
\* the enable and the read-back of the disable of a start, or after a failure
\* it reported.
THEOREM MotionScopedHolds == Spec => []MotionScoped
<1>1. Init => MotionScoped
  BY DEF Init, MotionScoped
<1>2. TypeOK /\ Placed /\ MotionScoped /\ [Next]_vars => MotionScoped'
  <2> SUFFICES ASSUME TypeOK, Placed, MotionScoped, [Next]_vars
               PROVE  MotionScoped'
    OBVIOUS
  <2>1. CASE \E s \in Sessions : Step(s)
    BY <2>1, MotionScopedStep
  <2>2. CASE Environment
    <3>1. motion' => motion
      BY <2>2 DEF Environment, ReleaseLost, PendantTakes, PendantReleases,
                  PendantStarts, OperatorRevokes, ProgramEnds, TypeOK
    <3> QED BY <2>2, <3>1, EnvironmentMovesNone DEF MotionScoped
  <2>3. CASE UNCHANGED vars
    BY <2>3 DEF vars, MotionScoped
  <2> QED BY <2>1, <2>2, <2>3 DEF Next
<1> QED BY <1>1, <1>2, TypeCorrect, PlacedHolds, PTL DEF Spec

-----------------------------------------------------------------------------
(* The protected request meets the state that was verified for it.         *)

\* A start reaches its request only by having read Motion Control as allowed,
\* a motor switch only by having read RAPID as stopped.
LEMMA BodyEntry ==
  ASSUME NEW s \in Sessions, TypeOK, Placed, Step(s), pc'[s] = "body"
  PROVE  /\ motion' = motion /\ running' = running
         /\ command[s] \in MovesRobot => motion
         /\ command[s] \in RechecksStopped => ~running
<1> USE DEF Proceed, Goto, At, TypeOK
<1>1. CASE CheckStopped(s) \/ CheckStartable(s) \/ RegisterRemote(s)
  BY <1>1 DEF CheckStopped, CheckStartable, RegisterRemote
<1>2. CASE RequestWriteAccess(s) \/ ReleaseWriteAccess(s) \/ Close(s)
  BY <1>2 DEF RequestWriteAccess, ReleaseWriteAccess, Close
<1>3. CASE CheckStatus(s)
  BY <1>3 DEF CheckStatus, AfterCheck, AfterRecheck, controller
<1>4. CASE RecheckStopped(s)
  <2>1. PICK o \in ReadOutcomes :
           Proceed(s, Required(o, ~running), AfterRecheck(command[s]), "release")
    BY <1>4 DEF RecheckStopped
  <2>2. Required(o, ~running) = "none" /\ AfterRecheck(command[s]) = "body"
    BY <2>1
  <2>3. ~running
    BY <2>2 DEF Required, Raised, ReadOutcomes
  <2>4. command[s] \notin MovesRobot
    BY <2>2 DEF AfterRecheck
  <2> QED BY <1>4, <2>3, <2>4 DEF RecheckStopped, controller
<1>5. CASE VerifyMotionOn(s)
  <2>1. PICK o \in ReadOutcomes :
           Proceed(s, Required(o, motion), "body", "disable")
    BY <1>5 DEF VerifyMotionOn
  <2>2. Required(o, motion) = "none"
    BY <2>1
  <2>3. motion
    BY <2>2 DEF Required, Raised, ReadOutcomes
  <2>4. command[s] \in MovesRobot
    BY <1>5 DEF VerifyMotionOn, Placed
  <2> QED BY <1>5, <2>3, <2>4
          DEF VerifyMotionOn, controller, MovesRobot, RechecksStopped
<1>6. CASE EnableMotion(s) \/ DisableMotion(s) \/ VerifyMotionOff(s)
  BY <1>6 DEF EnableMotion, DisableMotion, VerifyMotionOff
<1>7. CASE StartExecution(s) \/ StopExecution(s) \/ WarmRestart(s) \/ Operate(s)
  BY <1>7 DEF StartExecution, StopExecution, WarmRestart, Operate,
              LeaveBody, AfterBody
<1> QED BY <1>1, <1>2, <1>3, <1>4, <1>5, <1>6, <1>7 DEF Step

\* Only a start served by the controller makes RAPID run.
LEMMA StepMovesRunning ==
  ASSUME NEW s \in Sessions, TypeOK, Step(s), running'
  PROVE  running \/ (Serves(s) /\ At(s, "body") /\ command[s] = "start")
<1>1. CASE StartExecution(s)
  BY <1>1 DEF StartExecution, LeaveBody
<1>2. CASE StopExecution(s)
  BY <1>2 DEF StopExecution
<1>3. CASE ~StartExecution(s) /\ ~StopExecution(s)
  BY <1>3 DEF Step, CheckStopped, CheckStartable, RegisterRemote,
              RequestWriteAccess, CheckStatus, RecheckStopped, EnableMotion,
              VerifyMotionOn, WarmRestart, Operate, DisableMotion,
              VerifyMotionOff, ReleaseWriteAccess, Close, controller
<1> QED BY <1>1, <1>2, <1>3

\* The two properties together, given that the access is held.
LEMMA VerifiedStep ==
  ASSUME DistinctStations, TypeOK, Placed, HeldThroughScope,
         MotionHeldForStart, MotorsSwitchedStopped,
         NEW s \in Sessions, Step(s)
  PROVE  MotionHeldForStart' /\ MotorsSwitchedStopped'
<1> SUFFICES ASSUME revocations' = 0, NEW t \in Sessions, pc'[t] = "body"
             PROVE  /\ command[t] \in MovesRobot => motion'
                    /\ command[t] \in RechecksStopped => ~running'
  BY StepMovesOne DEF MotionHeldForStart, MotorsSwitchedStopped, Undisturbed, At
<1>1. CASE t = s
  BY <1>1, BodyEntry
<1>2. CASE t # s
  <2>1. revocations = 0 /\ pc[t] = "body"
    BY <1>2, StepMovesOne
  <2>2. Serves(t)
    BY <2>1 DEF HeldThroughScope, Undisturbed, InScope, ScopePCs
  <2>3. ~Serves(s)
    BY <1>2, <2>2 DEF Serves, DistinctStations
  <2>4. motion => motion'
    <3>1. EnableMotion(s) /\ motion => motion'
      BY DEF EnableMotion
    <3> QED BY <2>3, <3>1, StepMovesMotion
  <2>5. running' => running
    BY <2>3, StepMovesRunning
  <2> QED BY <2>1, <2>4, <2>5
          DEF MotionHeldForStart, MotorsSwitchedStopped, Undisturbed, At
<1> QED BY <1>1, <1>2

\* The controller does not undo what was verified, short of a revocation.
LEMMA VerifiedEnvironment ==
  ASSUME TypeOK, HeldThroughScope, MotionHeldForStart, MotorsSwitchedStopped,
         Environment
  PROVE  MotionHeldForStart' /\ MotorsSwitchedStopped'
<1> SUFFICES ASSUME revocations' = 0, NEW t \in Sessions, pc'[t] = "body"
             PROVE  /\ command[t] \in MovesRobot => motion'
                    /\ command[t] \in RechecksStopped => ~running'
  BY EnvironmentMovesNone
     DEF MotionHeldForStart, MotorsSwitchedStopped, Undisturbed, At
<1>1. ~OperatorRevokes
  <2> SUFFICES ASSUME OperatorRevokes PROVE FALSE
    OBVIOUS
  <2>1. revocations \in Nat /\ revocations' = revocations + 1
    BY RevocationsAssumption DEF OperatorRevokes, TypeOK
  <2> QED BY <2>1
<1>2. revocations = 0 /\ motion' = motion
  BY <1>1 DEF Environment, ReleaseLost, PendantTakes, PendantReleases,
              PendantStarts, ProgramEnds
<1>3. pc[t] = "body"
  BY EnvironmentMovesNone
<1>4. holder = StationOf[t]
  BY <1>2, <1>3 DEF HeldThroughScope, Undisturbed, InScope, Serves, ScopePCs
<1>5. running' => running
  <2>1. ~PendantStarts
    BY <1>4, StationsAssumption DEF PendantStarts, Stations
  <2>2. ProgramEnds => ~running'
    BY DEF ProgramEnds
  <2> QED BY <1>1, <2>1, <2>2
          DEF Environment, ReleaseLost, PendantTakes, PendantReleases
<1> QED BY <1>2, <1>3, <1>5
        DEF MotionHeldForStart, MotorsSwitchedStopped, Undisturbed, At

\* With identities of their own, the operations meet the state that was
\* verified for them.
LEMMA VerifiedStateHolds ==
  DistinctStations => (Spec => [](MotionHeldForStart /\ MotorsSwitchedStopped))
<1> SUFFICES ASSUME DistinctStations
             PROVE  Spec => [](MotionHeldForStart /\ MotorsSwitchedStopped)
  OBVIOUS
<1> DEFINE Verified == MotionHeldForStart /\ MotorsSwitchedStopped
<1>1. Init => Verified
  BY DEF Init, MotionHeldForStart, MotorsSwitchedStopped, At, FirstPC
<1>2. TypeOK /\ Placed /\ HeldThroughScope /\ Verified /\ [Next]_vars => Verified'
  <2> SUFFICES ASSUME TypeOK, Placed, HeldThroughScope, Verified, [Next]_vars
               PROVE  Verified'
    OBVIOUS
  <2>1. CASE \E s \in Sessions : Step(s)
    BY <2>1, VerifiedStep
  <2>2. CASE Environment
    BY <2>2, VerifiedEnvironment
  <2>3. CASE UNCHANGED vars
    BY <2>3 DEF vars, MotionHeldForStart, MotorsSwitchedStopped, Undisturbed, At
  <2> QED BY <2>1, <2>2, <2>3 DEF Next
<1>3. Spec => []TypeOK /\ []Placed /\ []HeldThroughScope
  BY TypeCorrect, PlacedHolds, HeldThroughScopeHolds
<1> QED BY <1>1, <1>2, <1>3, PTL DEF Spec

\* With identities of their own, a start is sent with Motion Control allowed.
THEOREM MotionHeldForStartHolds ==
  DistinctStations => (Spec => []MotionHeldForStart)
  BY VerifiedStateHolds, PTL

\* With identities of their own, the motors are switched while RAPID is
\* stopped: nobody can start it between the second check and the request.
THEOREM MotorsSwitchedStoppedHolds ==
  DistinctStations => (Spec => []MotorsSwitchedStopped)
  BY VerifiedStateHolds, PTL

-----------------------------------------------------------------------------
(* The lifecycle implements the lock of WriteAccess.                       *)

\* The invocations inside, as the lock sees them.
Inside == {s \in Sessions : InScope(s)}

\* A step of an invocation is a step of the lock: it asks for the lock, enters,
\* leaves, lets go, or does something the lock does not see.
LEMMA StepImplements ==
  ASSUME DistinctStations, TypeOK, NEW s \in Sessions, Step(s)
  PROVE  [Access!Next]_(Access!vars)
<1> DEFINE Other == \A t \in Sessions : t # s => (InScope(t)' <=> InScope(t))
<1>1. Other
  BY StepMovesOne DEF InScope
<1>2. revocations' = revocations
  BY StepMovesOne
<1>3. (~Undisturbed)' = ~Undisturbed
  BY <1>2 DEF Undisturbed
<1>4. StationOf[s] # NoStation /\ Stations = Access!Stations
  BY StationsAssumption DEF Stations, Access!Stations
<1>5. CASE InScope(s) /\ ~InScope(s)'
  <2>1. Inside' = Inside \ {s} /\ s \in Inside
    BY <1>1, <1>5 DEF Inside
  <2>2. holder' \in IF holder = StationOf[s] THEN {holder, NoStation} ELSE {holder}
    BY <1>5, StepMovesHolder DEF InScope, ScopePCs, At, Serves
  <2> QED BY <1>3, <2>1, <2>2 DEF Access!Next, Access!Leave, Inside
<1>6. CASE ~InScope(s) /\ InScope(s)'
  <2>1. Inside' = Inside \cup {s}
    BY <1>1, <1>6 DEF Inside
  <2>2. holder = StationOf[s]
    BY <1>6, ScopeEntry DEF InScope, Serves
  <2>3. holder' = holder
    BY <1>4, <1>6, <2>2, StepMovesHolder DEF InScope
  <2> QED BY <1>3, <2>1, <2>2, <2>3 DEF Access!Next, Access!Enter, Inside
<1>7. CASE InScope(s)' <=> InScope(s)
  <2>1. Inside' = Inside
    BY <1>1, <1>7 DEF Inside
  <2>2. CASE holder' = holder
    BY <1>3, <2>1, <2>2 DEF Access!vars, Inside
  <2>3. CASE holder = NoStation /\ holder' = StationOf[s]
    BY <1>3, <2>1, <2>3 DEF Access!Next, Access!Grant, Inside
  <2>4. CASE Serves(s) /\ holder' = NoStation /\ pc'[s] \notin ScopePCs
    <3>1. holder \in Access!Stations
      BY <2>4 DEF Access!Stations, Serves
    <3>2. \A t \in Inside : StationOf[t] # holder
      BY <1>7, <2>4 DEF Inside, InScope, Serves, DistinctStations
    <3> QED BY <1>3, <2>1, <2>4, <3>1, <3>2
            DEF Access!Next, Access!LetGo, Inside
  <2> QED BY <2>2, <2>3, <2>4, StepMovesHolder
<1> QED BY <1>5, <1>6, <1>7

\* So is a step of the controller or its operator: a station that lost its
\* last session has nobody inside.
LEMMA EnvironmentImplements ==
  ASSUME TypeOK, Environment
  PROVE  [Access!Next]_(Access!vars)
<1>1. Inside' = Inside
  BY EnvironmentMovesNone DEF Inside, InScope
<1>2. Stations = Access!Stations
  BY DEF Stations, Access!Stations
<1>3. CASE ReleaseLost
  <2>1. \A t \in Inside : StationOf[t] # holder
    BY <1>3 DEF ReleaseLost, Registered, Inside, InScope, ScopePCs
  <2>2. (~Undisturbed)' = ~Undisturbed
    BY <1>3 DEF ReleaseLost, Undisturbed
  <2> QED BY <1>1, <1>2, <1>3, <2>1, <2>2
          DEF ReleaseLost, Access!Next, Access!LetGo, Inside
<1>4. CASE PendantTakes \/ PendantReleases
  <2>1. (~Undisturbed)' = ~Undisturbed
    BY <1>4 DEF PendantTakes, PendantReleases, Undisturbed
  <2> QED BY <1>1, <1>4, <2>1
          DEF PendantTakes, PendantReleases, Access!Next, Access!PendantMoves, Inside
<1>5. CASE PendantStarts \/ ProgramEnds
  <2>1. (~Undisturbed)' = ~Undisturbed
    BY <1>5 DEF PendantStarts, ProgramEnds, Undisturbed
  <2> QED BY <1>1, <1>5, <2>1
          DEF PendantStarts, ProgramEnds, Access!vars, Inside
<1>6. CASE OperatorRevokes
  <2>1. (~Undisturbed)' = TRUE
    <3>1. revocations \in Nat /\ revocations' = revocations + 1
      BY <1>6, RevocationsAssumption DEF OperatorRevokes, TypeOK
    <3> QED BY <3>1 DEF Undisturbed
  <2> QED BY <1>1, <1>2, <1>6, <2>1
          DEF OperatorRevokes, Access!Next, Access!Revoke, Inside
<1> QED BY <1>3, <1>4, <1>5, <1>6 DEF Environment

\* With stations of their own, the invocations use the controller's write
\* access as a lock: every behaviour of ControlStation is one of WriteAccess.
THEOREM ImplementsWriteAccessHolds ==
  DistinctStations => (Spec => ImplementsWriteAccess)
<1> SUFFICES ASSUME DistinctStations PROVE Spec => ImplementsWriteAccess
  OBVIOUS
<1>1. Init => Access!Init
  BY DEF Init, Access!Init, InScope, ScopePCs, FirstPC, Undisturbed
<1>2. TypeOK /\ [Next]_vars => [Access!Next]_(Access!vars)
  <2> SUFFICES ASSUME TypeOK, [Next]_vars PROVE [Access!Next]_(Access!vars)
    OBVIOUS
  <2>1. CASE \E s \in Sessions : Step(s)
    BY <2>1, StepImplements
  <2>2. CASE Environment
    BY <2>2, EnvironmentImplements
  <2>3. CASE UNCHANGED vars
    BY <2>3 DEF vars, Access!vars, InScope, Undisturbed
  <2> QED BY <2>1, <2>2, <2>3 DEF Next
<1> QED
  BY <1>1, <1>2, TypeCorrect, PTL
     DEF Spec, ImplementsWriteAccess, Access!Spec

-----------------------------------------------------------------------------
(* What was checked before the access was held.                            *)

\* Whoever starts RAPID holds the access, and only the start is inside then.
LEMMA StartedByHolder ==
  ASSUME DistinctStations, TypeOK, HeldThroughScope, [Next]_vars,
         Undisturbed', ~running, running', NEW t \in Sessions, InScope(t)
  PROVE  command[t] \in MovesRobot
<1>1. CASE \E s \in Sessions : Step(s)
  <2>1. PICK s \in Sessions : Step(s)
    BY <1>1
  <2>2. Serves(s) /\ command[s] = "start"
    BY <2>1, StepMovesRunning
  <2>3. Undisturbed
    BY <2>1, StepMovesOne DEF Undisturbed
  <2>4. Serves(t)
    BY <2>3 DEF HeldThroughScope
  <2>5. s = t
    BY <2>2, <2>4 DEF Serves, DistinctStations
  <2> QED BY <2>2, <2>5 DEF MovesRobot
<1>2. CASE Environment
  <2>1. PendantStarts /\ Undisturbed
    BY <1>2 DEF Environment, ReleaseLost, PendantTakes, PendantReleases,
                PendantStarts, OperatorRevokes, ProgramEnds, Undisturbed
  <2>2. holder = Pendant /\ holder = StationOf[t]
    BY <2>1 DEF PendantStarts, HeldThroughScope, Serves
  <2> QED BY <2>2, StationsAssumption DEF Stations
<1>3. CASE UNCHANGED vars
  BY <1>3 DEF vars
<1> QED BY <1>1, <1>2, <1>3 DEF Next

\* With stations of their own, an invocation that checked for a stopped RAPID
\* before it asked for the access can be overtaken only until it holds it.
THEOREM StartsExcludedHolds == DistinctStations => (Spec => StartsExcluded)
<1> SUFFICES ASSUME DistinctStations PROVE Spec => StartsExcluded
  OBVIOUS
<1> DEFINE Excluded ==
      Undisturbed' /\ ~running /\ running' =>
         \A s \in Sessions : InScope(s) => command[s] \in MovesRobot
<1>1. TypeOK /\ HeldThroughScope /\ [Next]_vars => [Excluded]_vars
  BY StartedByHolder
<1>2. Spec => []TypeOK /\ []HeldThroughScope
  BY TypeCorrect, HeldThroughScopeHolds
<1> QED BY <1>1, <1>2, PTL DEF Spec, StartsExcluded

\* What the lock promises, the protected operations of the CLI get: with
\* stations of their own they exclude each other until the operator intervenes.
THEOREM OperationsExclude == DistinctStations => (Spec => []Access!Exclusion)
<1> SUFFICES ASSUME DistinctStations PROVE Spec => []Access!Exclusion
  OBVIOUS
<1>1. HeldThroughScope => Access!Exclusion
  BY DEF HeldThroughScope, Serves, Access!Exclusion, DistinctStations
<1> QED BY <1>1, HeldThroughScopeHolds, PTL
=============================================================================

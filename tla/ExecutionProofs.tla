-------------------------- MODULE ExecutionProofs --------------------------
(***************************************************************************)
(* Proofs about Execution, for any number of invocations and any number of *)
(* switches of the operating mode and the motors.                          *)
(***************************************************************************)
EXTENDS Execution, TLAPS

\* What a request raises is a result of its command.
LEMMA RaisedType ==
  \A o : Raised(o) \in Results /\ \A w : Required(o, w) \in Results
  BY DEF Raised, Required, Results, Exceptions

\* Reads, with what is made of their answer, as well.
LEMMA StateUnlessType == \A o, w : StateUnless(o, w) \in Results
  BY RaisedType DEF StateUnless, Results

\* The control flow of an invocation stays within its types.
LEMMA ProceedType ==
  ASSUME TypeOK, NEW i \in Invocations, NEW e \in Results,
         NEW p \in PCs, NEW q \in PCs, Proceed(i, e, p, q)
  PROVE  pc' \in [Invocations -> PCs] /\ result' \in [Invocations -> Results]
  BY DEF TypeOK, Proceed

\* A step of the lock leaves its variables within their types.
LEMMA LockType ==
  ASSUME TypeOK, [Lock!Next]_lock
  PROVE  /\ holder' \in Lock!Stations \cup {Pendant, NoStation}
         /\ inside' \in SUBSET Invocations
         /\ revoked' \in BOOLEAN
  BY DEF TypeOK, lock, Lock!Next, Lock!Grant, Lock!Enter, Lock!Leave, Lock!LetGo,
         Lock!PendantMoves, Lock!Revoke, Lock!Stations

\* What a start lacks is one of the reasons for a refusal.
LEMMA LackingType == \A i : Lacking(i) \in SUBSET Reasons
  BY DEF Lacking, Reasons

\* A step of an invocation takes a step of the lock, or leaves it alone.
LEMMA StepLock ==
  ASSUME NEW i \in Invocations, Step(i)
  PROVE  [Lock!Next]_lock
<1> USE DEF Lock!Next
<1>1. CASE RequestAccess(i)
  BY <1>1 DEF RequestAccess, lock
<1>2. CASE EnterScope(i)
  BY <1>2 DEF EnterScope, lock
<1>3. CASE ReleaseAccess(i)
  BY <1>3 DEF ReleaseAccess, lock
<1>4. CASE UNCHANGED lock
  BY <1>4
<1> QED
  BY <1>1, <1>2, <1>3, <1>4
     DEF Step, CheckMode, CheckMotors, EnableMotion, Serve, Deny, Fail,
         RereadMode, RereadMotors, DisableMotion

\* Where a step of an invocation leads.
LEMMA StepProceeds ==
  ASSUME TypeOK, NEW i \in Invocations, Step(i)
  PROVE  pc' \in [Invocations -> PCs] /\ result' \in [Invocations -> Results]
<1> USE RaisedType, StateUnlessType, ProceedType DEF PCs
<1>1. CASE CheckMode(i)
  BY <1>1 DEF CheckMode
<1>2. CASE CheckMotors(i)
  BY <1>2 DEF CheckMotors
<1>3. CASE RequestAccess(i)
  <2>1. PICK e \in Exceptions : Proceed(i, e, "enter", "exited")
    BY <1>3 DEF RequestAccess, Exceptions
  <2>2. e \in Results
    BY DEF Results
  <2> QED BY <2>1, <2>2
<1>4. CASE EnterScope(i)
  <2>1. PICK e \in Exceptions, p \in {"enable", "body"} : Proceed(i, e, p, "release")
    BY <1>4 DEF EnterScope, Exceptions
  <2>2. e \in Results
    BY DEF Results
  <2> QED BY <2>1, <2>2
<1>5. CASE EnableMotion(i)
  BY <1>5 DEF EnableMotion
<1>6. CASE Serve(i)
  <2>1. PICK o \in {"done", "lost", "brokenLate"}, p \in {"disable", "release"} :
          Proceed(i, Raised(o), p, p)
    BY <1>6 DEF Serve
  <2> QED BY <2>1
<1>7. CASE Deny(i)
  <2>1. PICK p \in {"rereadMode", "release"} : Proceed(i, "denied", "release", p)
    BY <1>7 DEF Deny
  <2>2. "denied" \in Results
    BY DEF Results
  <2> QED BY <2>1, <2>2
<1>8. CASE Fail(i)
  <2>1. PICK o \in {"failed", "broken"}, p \in {"disable", "release"} :
          Proceed(i, Raised(o), "release", p)
    BY <1>8 DEF Fail
  <2> QED BY <2>1
<1>9. CASE RereadMode(i)
  BY <1>9 DEF RereadMode
<1>10. CASE RereadMotors(i)
  BY <1>10 DEF RereadMotors
<1>11. CASE DisableMotion(i)
  <2>1. PICK o \in Outcomes : Proceed(i, Kept(i, Required(o, ~motion')), "release", "release")
    BY <1>11 DEF DisableMotion
  <2>2. Kept(i, Required(o, ~motion')) \in Results
    BY DEF Kept, TypeOK
  <2> QED BY <2>1, <2>2
<1>12. CASE ReleaseAccess(i)
  <2>1. PICK e \in {"none", "interrupt"} : Proceed(i, e, "exited", "exited")
    BY <1>12 DEF ReleaseAccess
  <2>2. e \in Results
    BY <2>1 DEF Results, Exceptions
  <2> QED BY <2>1, <2>2
<1> QED
  BY <1>1, <1>2, <1>3, <1>4, <1>5, <1>6, <1>7, <1>8, <1>9, <1>10, <1>11, <1>12
     DEF Step

\* A step of an invocation keeps the types of everything else.
LEMMA StepType ==
  ASSUME TypeOK, NEW i \in Invocations, Step(i)
  PROVE  TypeOK'
<1>1. pc' \in [Invocations -> PCs] /\ result' \in [Invocations -> Results]
  BY StepProceeds
<1>2. /\ holder' \in Lock!Stations \cup {Pendant, NoStation}
      /\ inside' \in SUBSET Invocations
      /\ revoked' \in BOOLEAN
  BY StepLock, LockType
<1>3. /\ UNCHANGED <<command, panel>>
      /\ motion' \in BOOLEAN /\ running' \in BOOLEAN
  BY DEF Step, CheckMode, CheckMotors, RequestAccess, EnterScope, EnableMotion,
         Serve, Deny, Fail, RereadMode, RereadMotors, DisableMotion,
         ReleaseAccess, panel, robot, TypeOK
<1>4. sawAuto' \in [Invocations -> BOOLEAN]
  <2>1. UNCHANGED sawAuto \/ sawAuto' = [sawAuto EXCEPT ![i] = auto]
    BY DEF Step, CheckMode, CheckMotors, RequestAccess, EnterScope, EnableMotion,
           Serve, Deny, Fail, RereadMode, RereadMotors, DisableMotion, ReleaseAccess
  <2>2. auto \in BOOLEAN /\ sawAuto \in [Invocations -> BOOLEAN]
    BY DEF TypeOK
  <2> QED BY <2>1, <2>2
<1>5. why' \in [Invocations -> SUBSET Reasons] /\ moved' \in [Invocations -> BOOLEAN]
  <2>1. \/ UNCHANGED history
        \/ /\ why' = [why EXCEPT ![i] = Lacking(i)]
           /\ moved' = [moved EXCEPT ![i] = FALSE]
    BY DEF Step, CheckMode, CheckMotors, RequestAccess, EnterScope, EnableMotion,
           Serve, Deny, Fail, RereadMode, RereadMotors, DisableMotion, ReleaseAccess
  <2>2. why \in [Invocations -> SUBSET Reasons] /\ moved \in [Invocations -> BOOLEAN]
    BY DEF TypeOK
  <2>3. CASE UNCHANGED history
    BY <2>2, <2>3 DEF history
  <2>4. CASE /\ why' = [why EXCEPT ![i] = Lacking(i)]
             /\ moved' = [moved EXCEPT ![i] = FALSE]
    <3>1. why' \in [Invocations -> SUBSET Reasons]
      BY <2>2, <2>4, LackingType
    <3>2. moved' \in [Invocations -> BOOLEAN]
      BY <2>2, <2>4
    <3> QED BY <3>1, <3>2
  <2> QED BY <2>1, <2>3, <2>4
<1> QED BY <1>1, <1>2, <1>3, <1>4, <1>5 DEF TypeOK, panel

\* The state of a start, a stop or a reset stays within its types.
THEOREM TypeCorrect == Spec => []TypeOK
<1>1. Init => TypeOK
  <2> SUFFICES ASSUME Init PROVE TypeOK
    OBVIOUS
  <2>1. changes \in 0..MaxChanges
    BY ChangesAssumption DEF Init
  <2>2. /\ pc \in [Invocations -> PCs]
        /\ result \in [Invocations -> Results]
        /\ why \in [Invocations -> SUBSET Reasons]
    BY DEF Init, PCs, Results, Exceptions
  <2>3. {revoked, motion, auto, motors, running} \subseteq BOOLEAN
    BY DEF Init, Lock!Init
  <2>4. /\ sawAuto \in [Invocations -> BOOLEAN]
        /\ moved \in [Invocations -> BOOLEAN]
    BY DEF Init
  <2> QED BY <2>1, <2>2, <2>3, <2>4 DEF Init, TypeOK, Lock!Init
<1>2. TypeOK /\ [Next]_vars => TypeOK'
  <2> SUFFICES ASSUME TypeOK, [Next]_vars PROVE TypeOK'
    OBVIOUS
  <2>1. ASSUME NEW i \in Invocations, Step(i) PROVE TypeOK'
    BY <2>1, StepType
  <2>2. CASE SwitchPanel
    <3>1. changes' \in 0..MaxChanges
      BY <2>2, ChangesAssumption DEF SwitchPanel, TypeOK
    <3>2. auto' \in BOOLEAN /\ motors' \in BOOLEAN /\ running' \in BOOLEAN
      BY <2>2 DEF SwitchPanel, TypeOK
    <3>3. moved' \in [Invocations -> BOOLEAN]
      BY <2>2 DEF SwitchPanel
    <3> QED BY <2>2, <3>1, <3>2, <3>3 DEF SwitchPanel, TypeOK, lock
  <2>3. CASE MoveAccess \/ ReleaseLost
    <3>1. [Lock!Next]_lock
      BY <2>3 DEF MoveAccess, ReleaseLost, Lock!Next
    <3>2. UNCHANGED <<command, pc, result, sawAuto, robot, panel, history>>
      BY <2>3 DEF MoveAccess, ReleaseLost
    <3> QED BY <3>1, <3>2, LockType DEF TypeOK, robot, panel, history
  <2>4. CASE ProgramEnds
    BY <2>4 DEF ProgramEnds, TypeOK, lock, panel, history
  <2>5. CASE UNCHANGED vars
    BY <2>5 DEF vars, TypeOK, lock, robot, panel, history
  <2> QED BY <2>1, <2>2, <2>3, <2>4, <2>5 DEF Next
<1> QED BY <1>1, <1>2, PTL DEF Spec

-----------------------------------------------------------------------------
(* The denial.                                                             *)

\* What the history says of the present of an invocation.  Until mode or
\* motors are switched, the reasons of the denial are those of now.
Current(i) ==
    why[i] # {} /\ command[i] = "start" /\ ~moved[i] =>
        /\ auto <=> "mode" \notin why[i]
        /\ motors <=> "motors" \notin why[i]

\* Where an invocation stands once it was denied, or before.
Placed(i) ==
    /\ pc[i] \in {"mode", "motors", "request", "enter", "enable", "body"} => why[i] = {}
    /\ pc[i] \in {"rereadMode", "rereadMotors"} =>
          result[i] = "denied" /\ why[i] # {} /\ command[i] = "start"
    /\ pc[i] = "rereadMotors" /\ ~moved[i] => (sawAuto[i] <=> auto)

\* What an invocation reports after the second look.
Reported(i) ==
    Explained(i) /\ command[i] = "start" /\ ~moved[i] =>
        /\ result[i] = "denied" => why[i] \cap {"mode", "motors"} = {}
        /\ result[i] = "state" => why[i] \cap {"mode", "motors"} # {}

Told == \A i \in Invocations : Current(i) /\ Placed(i) /\ Reported(i)

\* A refused start lacks AUTO, or the motors, exactly if they are missing.
LEMMA LackingSays ==
  ASSUME NEW i \in Invocations, command[i] = "start"
  PROVE  /\ auto <=> "mode" \notin Lacking(i)
         /\ motors <=> "motors" \notin Lacking(i)
  BY DEF Lacking, Reasons

\* An invocation leaves what another one has seen and reports alone.
LEMMA StepLeavesOthers ==
  ASSUME TypeOK, Told, NEW i \in Invocations, Step(i), NEW j \in Invocations, j # i
  PROVE  Current(j)' /\ Placed(j)' /\ Reported(j)'
<1>1. UNCHANGED <<command, auto, motors>>
  BY DEF Step, CheckMode, CheckMotors, RequestAccess, EnterScope, EnableMotion,
         Serve, Deny, Fail, RereadMode, RereadMotors, DisableMotion,
         ReleaseAccess, panel
<1>2. pc'[j] = pc[j] /\ result'[j] = result[j]
  BY DEF Step, CheckMode, CheckMotors, RequestAccess, EnterScope, EnableMotion,
         Serve, Deny, Fail, RereadMode, RereadMotors, DisableMotion,
         ReleaseAccess, Proceed, TypeOK
<1>3. sawAuto'[j] = sawAuto[j]
  BY DEF Step, CheckMode, CheckMotors, RequestAccess, EnterScope, EnableMotion,
         Serve, Deny, Fail, RereadMode, RereadMotors, DisableMotion,
         ReleaseAccess, panel, TypeOK
<1>4. why'[j] = why[j] /\ moved'[j] = moved[j]
  BY DEF Step, CheckMode, CheckMotors, RequestAccess, EnterScope, EnableMotion,
         Serve, Deny, Fail, RereadMode, RereadMotors, DisableMotion,
         ReleaseAccess, history, TypeOK
<1> QED BY <1>1, <1>2, <1>3, <1>4 DEF Told, Current, Placed, Reported, Explained

\* An invocation that neither is denied nor reads again keeps its history, and
\* a clean-up leaves its report or replaces it by an interrupt.
LEMMA StepKeepsTold ==
  ASSUME TypeOK, Told, NEW i \in Invocations, Step(i)
  PROVE  Current(i)' /\ Placed(i)' /\ Reported(i)'
<1> USE DEF Told, Current, Placed, Reported, Explained
<1>1. CASE \/ CheckMode(i) \/ CheckMotors(i) \/ RequestAccess(i) \/ EnterScope(i)
           \/ EnableMotion(i) \/ Serve(i) \/ Fail(i)
  <2>1. why[i] = {} /\ why' = why
    BY <1>1 DEF CheckMode, CheckMotors, RequestAccess, EnterScope, EnableMotion,
                Serve, Fail, At, history
  <2>2. pc'[i] \notin {"rereadMode", "rereadMotors"}
    BY <1>1 DEF CheckMode, CheckMotors, RequestAccess, EnterScope, EnableMotion,
                Serve, Fail, Proceed, TypeOK
  <2> QED BY <2>1, <2>2
<1>2. CASE Deny(i)
  <2>1. /\ why'[i] = Lacking(i) /\ ~moved'[i] /\ Lacking(i) # {}
        /\ UNCHANGED <<command, auto, motors>>
    BY <1>2 DEF Deny, TypeOK, panel
  <2>2. Current(i)'
    BY <2>1, LackingSays
  <2>3. /\ result'[i] = "denied"
        /\ pc'[i] = IF command[i] = "start" THEN "rereadMode" ELSE "release"
    BY <1>2 DEF Deny, Proceed, TypeOK
  <2> QED BY <2>1, <2>2, <2>3
<1>3. CASE RereadMode(i)
  <2>1. /\ UNCHANGED <<command, auto, motors, why, moved>>
        /\ sawAuto'[i] = auto
        /\ pc[i] = "rereadMode"
    BY <1>3 DEF RereadMode, TypeOK, panel, history, At
  <2>2. PICK o \in ReadOutcomes : Proceed(i, Raised(o), "rereadMotors", "disable")
    BY <1>3 DEF RereadMode
  <2>3. \/ pc'[i] = "rereadMotors" /\ result'[i] = result[i]
        \/ pc'[i] = "disable" /\ result'[i] \in {"error", "interrupt"}
    BY <2>2 DEF Proceed, Raised, TypeOK
  <2> QED BY <2>1, <2>3
<1>4. CASE RereadMotors(i)
  <2>1. /\ UNCHANGED <<command, auto, motors, why, moved>>
        /\ pc[i] = "rereadMotors"
    BY <1>4 DEF RereadMotors, TypeOK, panel, history, At
  <2>2. PICK o \in ReadOutcomes :
          Proceed(i, StateUnless(o, StillStartable(i)), "disable", "disable")
    BY <1>4 DEF RereadMotors
  <2>3. /\ pc'[i] = "disable"
        /\ \/ StillStartable(i) /\ result'[i] = result[i]
           \/ ~StillStartable(i) /\ result'[i] = "state"
           \/ result'[i] \in {"error", "interrupt"}
    BY <2>2 DEF Proceed, StateUnless, Raised, TypeOK, ReadOutcomes
  <2>4. ~moved[i] => (StillStartable(i) <=> why[i] \cap {"mode", "motors"} = {})
    BY <2>1 DEF StillStartable
  <2> QED BY <2>1, <2>3, <2>4
<1>5. CASE DisableMotion(i) \/ ReleaseAccess(i)
  <2>1. /\ UNCHANGED <<command, auto, motors, why, moved>>
        /\ pc[i] \in {"disable", "release"}
    BY <1>5 DEF DisableMotion, ReleaseAccess, panel, history, At
  <2>2. pc'[i] \in {"release", "exited"}
    BY <1>5 DEF DisableMotion, ReleaseAccess, Proceed, TypeOK
  <2>3. result'[i] = result[i] \/ result'[i] \in {"error", "interrupt"}
    BY <1>5 DEF DisableMotion, ReleaseAccess, Proceed, Kept, Required, Raised, TypeOK
  <2> QED BY <2>1, <2>2, <2>3
<1> QED BY <1>1, <1>2, <1>3, <1>4, <1>5 DEF Step

\* A start that was denied because of the mode or the motors is reported as
\* that, and one that lacked something else as a denial.
THEOREM DenialExplainedHolds == Spec => []DenialExplained
<1>1. Init => Told
  BY DEF Init, Told, Current, Placed, Reported, Explained
<1>2. TypeOK /\ Told /\ [Next]_vars => Told'
  <2> SUFFICES ASSUME TypeOK, Told, [Next]_vars PROVE Told'
    OBVIOUS
  <2>1. ASSUME NEW i \in Invocations, Step(i) PROVE Told'
    BY <2>1, StepKeepsTold, StepLeavesOthers DEF Told
  <2>2. CASE SwitchPanel
    BY <2>2 DEF SwitchPanel, Told, Current, Placed, Reported, Explained
  <2>3. CASE MoveAccess \/ ReleaseLost \/ ProgramEnds \/ UNCHANGED vars
    BY <2>3 DEF MoveAccess, ReleaseLost, ProgramEnds, vars, robot, panel, history,
                Told, Current, Placed, Reported, Explained
  <2> QED BY <2>1, <2>2, <2>3 DEF Next
<1>3. Told => DenialExplained
  BY DEF Told, Reported, DenialExplained
<1> QED BY <1>1, <1>2, <1>3, TypeCorrect, PTL DEF Spec

-----------------------------------------------------------------------------
(* The lock, and how its users get it.                                     *)

\* Until the operator intervenes, whoever is inside is there under its own lock.
Held == inside \subseteq Invocations /\ (~revoked => \A c \in inside : holder = StationOf[c])

\* It is kept by every step: the lock of a client inside is let go by that
\* client alone, which leaves.
LEMMA HeldStep ==
  ASSUME Lock!OwnStations, revoked \in BOOLEAN, Held, Lock!Next
  PROVE  Held' /\ revoked' \in BOOLEAN
<1>1. \A c \in inside : StationOf[c] \in Lock!Stations
  BY DEF Held, Lock!Stations
<1>2. CASE \E c \in Invocations : Lock!Grant(c)
  BY <1>1, <1>2 DEF Lock!Grant, Held, Lock!OwnStations
<1>3. CASE \E c \in Invocations : Lock!Enter(c)
  BY <1>3 DEF Lock!Enter, Held, Lock!OwnStations
<1>4. CASE \E c \in Invocations : Lock!Leave(c)
  <2>1. PICK c \in Invocations : Lock!Leave(c)
    BY <1>4
  <2>2. \A d \in inside \ {c} : ~revoked => holder # StationOf[c]
    BY <2>1 DEF Held, Lock!OwnStations, Lock!Leave
  <2> QED BY <2>1, <2>2 DEF Lock!Leave, Held
<1>5. CASE Lock!LetGo
  BY <1>1, <1>5 DEF Lock!LetGo, Held, Lock!OwnStations
<1>6. CASE Lock!PendantMoves
  BY <1>1, <1>6 DEF Lock!PendantMoves, Held, Lock!OwnStations
<1>7. CASE Lock!Revoke
  BY <1>7 DEF Lock!Revoke, Held
<1> QED BY <1>2, <1>3, <1>4, <1>5, <1>6, <1>7 DEF Lock!Next

\* Clients with stations of their own are inside one at a time, each under its
\* own lock, unless the operator intervenes.
THEOREM LockExcludes == Lock!OwnStations => (Lock!Spec => []Lock!Exclusion)
<1> SUFFICES ASSUME Lock!OwnStations PROVE Lock!Spec => []Lock!Exclusion
  OBVIOUS
<1> DEFINE IInv == Held /\ revoked \in BOOLEAN
<1>1. Lock!Init => IInv
  BY DEF Lock!Init, Held
<1>2. IInv /\ [Lock!Next]_(Lock!vars) => IInv'
  <2>1. CASE Lock!Next
    BY <2>1, HeldStep
  <2>2. CASE UNCHANGED Lock!vars
    BY <2>2 DEF Lock!vars, Held
  <2> QED BY <2>1, <2>2
<1>3. IInv => Lock!Exclusion
  BY DEF Held, Lock!Exclusion, Lock!OwnStations
<1> QED BY <1>1, <1>2, <1>3, PTL DEF Lock!Spec

\* Start, stop and reset use the lock by its rules, whatever fails on the way.
THEOREM ImplementsLock == Spec => Lock!Spec
<1>1. Init => Lock!Init
  BY DEF Init
<1>2. [Next]_vars => [Lock!Next]_(Lock!vars)
  <2> SUFFICES ASSUME [Next]_vars PROVE [Lock!Next]_lock
    BY DEF lock, Lock!vars
  <2>1. CASE \E i \in Invocations : Step(i)
    BY <2>1, StepLock
  <2>2. CASE MoveAccess \/ ReleaseLost
    BY <2>2 DEF MoveAccess, ReleaseLost, Lock!Next
  <2>3. CASE SwitchPanel \/ ProgramEnds \/ UNCHANGED vars
    BY <2>3 DEF SwitchPanel, ProgramEnds, vars, lock
  <2> QED BY <2>1, <2>2, <2>3 DEF Next
<1> QED BY <1>1, <1>2, PTL DEF Spec, Lock!Spec

\* So no two of them are ever at their request together, unless the operator
\* intervened or they share a station.
THEOREM RequestsExclude == Lock!OwnStations => (Spec => []Lock!Exclusion)
  BY LockExcludes, ImplementsLock, PTL
=============================================================================

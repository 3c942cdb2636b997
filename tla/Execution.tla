----------------------------- MODULE Execution -----------------------------
(***************************************************************************)
(* rapid start, stop and reset-pp (rapid_cli.py, services/rapid_debug.py)  *)
(* on a controller whose operating mode and motors change at any time.     *)
(*                                                                         *)
(* A start checks AUTO and motors-on before it asks for the access, and    *)
(* reads both again when the controller denies the request, to tell a      *)
(* missing grant from a state that changed meanwhile.  The write access is *)
(* the lock of WriteAccess; enabling and disabling Motion Control, with    *)
(* the read-back, is one step each (ControlStation opens them up).         *)
(***************************************************************************)
EXTENDS Naturals, RwsRequest

CONSTANTS Invocations,   \* invocations of rapid start, stop and reset-pp
          Granted,       \* those whose user may start and stop RAPID
          StationOf,     \* the Control Station identity each one registers
          Pendant,       \* the local operator's station
          NoStation,     \* nobody holds the write access
          MaxChanges     \* bound: how often mode and motors are switched

ASSUME GrantedAssumption == Granted \subseteq Invocations
ASSUME ChangesAssumption == MaxChanges \in Nat

Commands == {"start", "stop", "reset"}

PCs == {"mode", "motors", "request", "enter", "enable", "body",
        "rereadMode", "rereadMotors", "disable", "release", "exited"}

\* How a command ends.  "denied" is the AuthorizationError of a request that
\* was refused with 403; "state" the ControllerStateError that may replace it.
Results == Exceptions \cup {"denied", "state"}

\* Why the controller refuses a start.
Reasons == {"access", "grant", "motion", "mode", "motors"}

VARIABLES
    command,   \* what each invocation runs
    pc,        \* its next request
    result,    \* the exception in flight, and in the end the exit status
    sawAuto,   \* the operating mode that its last read of it found was AUTO
    holder,    \* controller: who holds the write access
    inside,    \* the invocations between the yield and the release
    revoked,   \* the operator has taken the access away
    motion,    \* controller: Motion Control is allowed
    auto,      \* controller: the operating mode is AUTO
    motors,    \* controller: the state is motoron
    running,   \* controller: RAPID executes
    changes,   \* how often mode and motors were switched
    why,       \* history: what a denied start was lacking
    moved      \* history: mode or motors were switched since the denial

lock == <<holder, inside, revoked>>
robot == <<motion, running>>
panel == <<auto, motors, changes>>
history == <<why, moved>>
vars == <<command, pc, result, sawAuto, lock, robot, panel, history>>

Lock == INSTANCE WriteAccess WITH Clients <- Invocations

TypeOK ==
    /\ command \in [Invocations -> Commands]
    /\ pc \in [Invocations -> PCs]
    /\ result \in [Invocations -> Results]
    /\ sawAuto \in [Invocations -> BOOLEAN]
    /\ holder \in Lock!Stations \cup {Pendant, NoStation}
    /\ inside \in SUBSET Invocations
    /\ {revoked, motion, auto, motors, running} \subseteq BOOLEAN
    /\ changes \in 0..MaxChanges
    /\ why \in [Invocations -> SUBSET Reasons]
    /\ moved \in [Invocations -> BOOLEAN]

Init ==
    /\ command \in [Invocations -> Commands]
    /\ pc = [i \in Invocations |-> IF command[i] = "start" THEN "mode" ELSE "request"]
    /\ result = [i \in Invocations |-> "none"]
    /\ sawAuto = [i \in Invocations |-> FALSE]
    /\ Lock!Init
    /\ auto \in BOOLEAN /\ motors \in BOOLEAN /\ running \in BOOLEAN
    /\ motion = FALSE
    /\ changes = 0
    /\ why = [i \in Invocations |-> {}]
    /\ moved = [i \in Invocations |-> FALSE]

-----------------------------------------------------------------------------
(* Control flow of one invocation.                                         *)

At(i, p) == pc[i] = p

\* A step that raises e leaves for the enclosing finally, at q.
Proceed(i, e, p, q) ==
    /\ pc' = [pc EXCEPT ![i] = IF e = "none" THEN p ELSE q]
    /\ result' = [result EXCEPT ![i] = IF e = "none" THEN @ ELSE e]

\* What is left of the exception in flight when the clean-up raises e: an
\* OmnicoreError of the clean-up does not replace it.
Kept(i, e) == IF e = "error" /\ result[i] # "none" THEN result[i] ELSE e

\* A read that was answered raises the ControllerStateError if it is unwanted.
StateUnless(o, wanted) == IF o = "done" /\ ~wanted THEN "state" ELSE Raised(o)

-----------------------------------------------------------------------------
(* _ensure_rapid_startable: before the access, the mode and then the motors. *)

CheckMode(i) ==
    /\ At(i, "mode")
    /\ \E o \in ReadOutcomes : Proceed(i, StateUnless(o, auto), "motors", "exited")
    /\ UNCHANGED <<command, sawAuto, lock, robot, panel, history>>

CheckMotors(i) ==
    /\ At(i, "motors")
    /\ \E o \in ReadOutcomes : Proceed(i, StateUnless(o, motors), "request", "exited")
    /\ UNCHANGED <<command, sawAuto, lock, robot, panel, history>>

(* The write access: the lock, or an error.                                *)

RequestAccess(i) ==
    /\ At(i, "request")
    /\ \/ \E e \in Exceptions : Proceed(i, e, "enter", "exited") /\ Lock!Grant(i)
       \/ \E e \in {"error", "interrupt"} : Proceed(i, e, "enter", "exited") /\ UNCHANGED lock
    /\ UNCHANGED <<command, sawAuto, robot, panel, history>>

EnterScope(i) ==
    /\ At(i, "enter")
    /\ \/ /\ Lock!Enter(i)
          /\ Proceed(i, "none", IF command[i] = "start" THEN "enable" ELSE "body", "release")
       \/ \E e \in {"error", "interrupt"} : Proceed(i, e, "body", "release") /\ UNCHANGED lock
    /\ UNCHANGED <<command, sawAuto, robot, panel, history>>

(* The start, inside motion_control.                                       *)

\* The request and the read-back, which tells when an answered request has
\* left Motion Control as it was.
EnableMotion(i) ==
    /\ At(i, "enable")
    /\ \E o \in Outcomes :
          /\ Applied(o) => holder = StationOf[i]
          /\ motion' \in IF Applied(o) THEN {motion, TRUE} ELSE {motion}
          /\ Proceed(i, Required(o, motion'), "body", "disable")
    /\ UNCHANGED <<command, sawAuto, lock, running, panel, history>>

\* What the controller would refuse a request of i for; only a start needs
\* Motion Control, AUTO and the motors.
Lacking(i) ==
    LET needed == IF command[i] = "start" THEN Reasons ELSE {"access", "grant"}
    IN  needed \cap (  (IF holder # StationOf[i] THEN {"access"} ELSE {})
                  \cup (IF i \notin Granted THEN {"grant"} ELSE {})
                  \cup (IF ~motion THEN {"motion"} ELSE {})
                  \cup (IF ~auto THEN {"mode"} ELSE {})
                  \cup (IF ~motors THEN {"motors"} ELSE {}))

\* The request is carried out.
Serve(i) ==
    /\ At(i, "body")
    /\ Lacking(i) = {}
    /\ running' = CASE command[i] = "start" -> TRUE
                    [] command[i] = "stop"  -> FALSE
                    [] OTHER -> running
    /\ \E o \in {"done", "lost", "brokenLate"} :
          IF command[i] = "start" THEN Proceed(i, Raised(o), "disable", "disable")
                                  ELSE Proceed(i, Raised(o), "release", "release")
    /\ UNCHANGED <<command, sawAuto, lock, motion, panel, history>>

\* The controller answers 403.  A start reads mode and motors again before it
\* reports that.
Deny(i) ==
    /\ At(i, "body")
    /\ Lacking(i) # {}
    /\ why' = [why EXCEPT ![i] = Lacking(i)]
    /\ moved' = [moved EXCEPT ![i] = FALSE]
    /\ Proceed(i, "denied", "release",
               IF command[i] = "start" THEN "rereadMode" ELSE "release")
    /\ UNCHANGED <<command, sawAuto, lock, robot, panel>>

\* Any other failure leaves the scope with the error it raised.
Fail(i) ==
    /\ At(i, "body")
    /\ \E o \in {"failed", "broken"} :
          Proceed(i, Raised(o), "release",
                  IF command[i] = "start" THEN "disable" ELSE "release")
    /\ UNCHANGED <<command, sawAuto, lock, robot, panel, history>>

(* _raise_start_state_error: both reads come before either is looked at.   *)

RereadMode(i) ==
    /\ At(i, "rereadMode")
    /\ \E o \in ReadOutcomes :
          /\ Proceed(i, Raised(o), "rereadMotors", "disable")
          /\ sawAuto' = [sawAuto EXCEPT ![i] = auto]
    /\ UNCHANGED <<command, lock, robot, panel, history>>

\* A faulty variant of StillStartable: the mode that was read is not looked at.
StillPowered(i) == motors

\* What the two reads must have found for the denial to be reported as one.
StillStartable(i) == sawAuto[i] /\ motors

RereadMotors(i) ==
    /\ At(i, "rereadMotors")
    /\ \E o \in ReadOutcomes :
          Proceed(i, StateUnless(o, StillStartable(i)), "disable", "disable")
    /\ UNCHANGED <<command, sawAuto, lock, robot, panel, history>>

(* The two finally blocks.                                                 *)

DisableMotion(i) ==
    /\ At(i, "disable")
    /\ \E o \in Outcomes :
          /\ Applied(o) => holder = StationOf[i]
          /\ motion' \in IF Applied(o) THEN {motion, FALSE} ELSE {motion}
          /\ Proceed(i, Kept(i, Required(o, ~motion')), "release", "release")
    /\ UNCHANGED <<command, sawAuto, lock, running, panel, history>>

\* best_effort_release: only an interrupt is raised.  An invocation that was
\* granted the lock but never entered lets it go as well.
ReleaseAccess(i) ==
    /\ At(i, "release")
    /\ \/ Lock!Leave(i)
       \/ i \notin inside /\ UNCHANGED lock
       \/ i \notin inside /\ holder = StationOf[i] /\ Lock!LetGo
    /\ \E e \in {"none", "interrupt"} : Proceed(i, e, "exited", "exited")
    /\ UNCHANGED <<command, sawAuto, robot, panel, history>>

Step(i) ==
    \/ CheckMode(i)     \/ CheckMotors(i)  \/ RequestAccess(i)
    \/ EnterScope(i)    \/ EnableMotion(i) \/ Serve(i)
    \/ Deny(i)          \/ Fail(i)         \/ RereadMode(i)
    \/ RereadMotors(i)  \/ DisableMotion(i) \/ ReleaseAccess(i)

-----------------------------------------------------------------------------
(* The controller and its local operator.                                  *)

\* The mode key is turned, or the motors go off (a guard stop) or on.
SwitchPanel ==
    /\ changes < MaxChanges
    /\ changes' = changes + 1
    /\ \/ auto' = ~auto /\ motors' \in {motors, FALSE}
       \/ auto' = auto /\ motors' = ~motors
    /\ running' = (running /\ motors')
    /\ moved' = [i \in Invocations |-> TRUE]
    /\ UNCHANGED <<command, pc, result, sawAuto, lock, motion, why>>

MoveAccess ==
    /\ Lock!PendantMoves \/ Lock!Revoke
    /\ holder' # holder
    /\ UNCHANGED <<command, pc, result, sawAuto, robot, panel, history>>

ReleaseLost ==
    /\ \A i \in Invocations : StationOf[i] = holder => At(i, "exited")
    /\ Lock!LetGo
    /\ UNCHANGED <<command, pc, result, sawAuto, robot, panel, history>>

ProgramEnds ==
    /\ running
    /\ running' = FALSE
    /\ UNCHANGED <<command, pc, result, sawAuto, lock, motion, panel, history>>

Next ==
    \/ \E i \in Invocations : Step(i)
    \/ SwitchPanel \/ MoveAccess \/ ReleaseLost \/ ProgramEnds

Spec == Init /\ [][Next]_vars

-----------------------------------------------------------------------------
(* Properties.                                                             *)

\* Past the two reads that follow a denial.
Explained(i) == why[i] # {} /\ pc[i] \in {"disable", "release", "exited"}

\* A start that was denied because of the mode or the motors is reported as
\* that, and one that lacked something else as a denial, unless mode or motors
\* were switched between the denial and the second look, or a clean-up was
\* interrupted.  (_raise_start_state_error; docs/rapid.md: "so a safety-state
\* transition is not misreported as a missing grant".)
DenialExplained ==
    \A i \in Invocations :
        Explained(i) /\ command[i] = "start" /\ ~moved[i] =>
            /\ result[i] = "denied" => why[i] \cap {"mode", "motors"} = {}
            /\ result[i] = "state" => why[i] \cap {"mode", "motors"} # {}
=============================================================================

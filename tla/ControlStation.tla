-------------------------- MODULE ControlStation --------------------------
(***************************************************************************)
(* The write-access lifecycle of services/control_station.py, as the       *)
(* mutating commands of cli.py and rapid_cli.py drive it.                  *)
(*                                                                         *)
(* Several invocations of the CLI (Sessions) and the pendant compete for   *)
(* the controller's single write access.  Each RWS request of a command is *)
(* one step, with every outcome of RwsRequest; the operation a command     *)
(* protects is one step here and is opened up in the modules of the        *)
(* services.  The controller is external: it grants a request when the     *)
(* access is free or already the station's, and serves a mutating request  *)
(* only to the holder.                                                     *)
(***************************************************************************)
EXTENDS Naturals, RwsRequest

CONSTANTS Sessions,        \* invocations of the CLI that mutate
          StationOf,       \* the Control Station identity each one registers
          Pendant,         \* the local operator's station
          NoStation,       \* nobody holds the write access
          MaxRevocations   \* bound: how often the operator takes it away

Stations == {StationOf[s] : s \in Sessions}
Holders  == Stations \cup {Pendant, NoStation}

ASSUME StationsAssumption == Pendant \notin Stations /\ NoStation \notin Stations
ASSUME LocalAssumption == Pendant # NoStation
ASSUME RevocationsAssumption == MaxRevocations \in Nat

\* True when every invocation got an identity of its own (--station-id).
DistinctStations ==
    \A s, t \in Sessions : StationOf[s] = StationOf[t] => s = t

-----------------------------------------------------------------------------
(* The commands, by what surrounds the operation they protect.  "config"   *)
(* stands for the cfg and file commands, "rapid" for the RAPID commands    *)
(* without a check of their own, "edit" for those behind _ensure_stopped.  *)
(* --allow-running turns motors and backup into config, edit into rapid.   *)

Commands == {"restart", "motors", "backup", "config",
             "edit", "start", "stop", "rapid"}

ChecksStopped   == {"restart", "motors", "backup", "edit"}
ChecksStartable == {"start"}
RechecksStopped == {"motors"}
MovesRobot      == {"start"}
BestEffort      == {"restart", "edit", "start", "stop", "rapid"}

PCs == {"precheck", "register", "request", "check", "recheck", "enable",
        "verifyOn", "body", "disable", "verifyOff", "release", "close",
        "exited"}

\* Inside the with-block of write_access, that is, after its yield.
ScopePCs == {"recheck", "enable", "verifyOn", "body", "disable", "verifyOff"}

VARIABLES
    command,      \* what each invocation runs
    pc,           \* its next request
    exc,          \* the exception in flight, and the exit status at the end
    holder,       \* controller: who holds the write access
    motion,       \* controller: Control Station Motion Control is allowed
    running,      \* controller: RAPID executes
    revocations   \* how often the operator took the access away

vars == <<command, pc, exc, holder, motion, running, revocations>>
controller == <<holder, motion, running, revocations>>

TypeOK ==
    /\ command \in [Sessions -> Commands]
    /\ pc \in [Sessions -> PCs]
    /\ exc \in [Sessions -> Exceptions]
    /\ holder \in Holders
    /\ motion \in BOOLEAN
    /\ running \in BOOLEAN
    /\ revocations \in 0..MaxRevocations

FirstPC(c) ==
    IF c \in ChecksStopped \cup ChecksStartable THEN "precheck" ELSE "register"

Init ==
    /\ command \in [Sessions -> Commands]
    /\ pc = [s \in Sessions |-> FirstPC(command[s])]
    /\ exc = [s \in Sessions |-> "none"]
    /\ holder = NoStation
    /\ motion = FALSE
    /\ running \in BOOLEAN
    /\ revocations = 0

-----------------------------------------------------------------------------
(* Control flow of one invocation.                                         *)

At(s, p) == pc[s] = p

Goto(s, p) == pc' = [pc EXCEPT ![s] = p]

\* A step that raises e leaves for the enclosing finally, at q.
Proceed(s, e, p, q) ==
    /\ Goto(s, IF e = "none" THEN p ELSE q)
    /\ exc' = [exc EXCEPT ![s] = IF e = "none" THEN @ ELSE e]

Registered(s) == pc[s] \notin {"precheck", "register", "exited"}

Serves(s) == holder = StationOf[s]

AfterRecheck(c) == IF c \in MovesRobot THEN "enable" ELSE "body"
AfterCheck(c)   == IF c \in RechecksStopped THEN "recheck" ELSE AfterRecheck(c)
AfterBody(c)    == IF c \in MovesRobot THEN "disable" ELSE "release"

-----------------------------------------------------------------------------
(* The steps of one invocation.                                            *)

\* Before the access: RAPID must be stopped.
CheckStopped(s) ==
    /\ At(s, "precheck")
    /\ command[s] \in ChecksStopped
    /\ \E o \in ReadOutcomes :
          Proceed(s, Required(o, ~running), "register", "close")
    /\ UNCHANGED <<command, controller>>

\* Before the access: the controller must be in AUTO with its motors on,
\* which nothing in this module changes.
CheckStartable(s) ==
    /\ At(s, "precheck")
    /\ command[s] \in ChecksStartable
    /\ \E o \in ReadOutcomes, startable \in BOOLEAN :
          Proceed(s, Required(o, startable), "register", "close")
    /\ UNCHANGED <<command, controller>>

\* register_remote stands before the try: there is nothing to release yet.
RegisterRemote(s) ==
    /\ At(s, "register")
    /\ \E o \in Outcomes : Proceed(s, Raised(o), "request", "close")
    /\ UNCHANGED <<command, controller>>

\* A faulty variant of RequestWriteAccess: an answer is taken for a grant.
RequestTrusted(s) ==
    /\ At(s, "request")
    /\ \E o \in Outcomes :
          /\ holder' = IF Applied(o) /\ holder = NoStation
                       THEN StationOf[s] ELSE holder
          /\ Proceed(s, Raised(o), AfterCheck(command[s]), "close")
    /\ UNCHANGED <<command, motion, running, revocations>>

\* The controller may answer a request that finds another holder as well.
\* `acquired` is set only by a request that returns: without it the finally
\* block has nothing to release.
RequestWriteAccess(s) ==
    /\ At(s, "request")
    /\ \E o \in Outcomes :
          /\ holder' = IF Applied(o) /\ holder = NoStation
                       THEN StationOf[s] ELSE holder
          /\ Proceed(s, Raised(o), "check", "close")
    /\ UNCHANGED <<command, motion, running, revocations>>

\* A faulty variant of CheckStatus: whoever holds the access will do.
CheckStatusUnverified(s) ==
    /\ At(s, "check")
    /\ \E o \in ReadOutcomes, externalControl \in BOOLEAN :
          Proceed(s, Required(o, externalControl),
                  AfterCheck(command[s]), "release")
    /\ UNCHANGED <<command, controller>>

\* The station must be the holder, and external control be enabled.
CheckStatus(s) ==
    /\ At(s, "check")
    /\ \E o \in ReadOutcomes, externalControl \in BOOLEAN :
          Proceed(s, Required(o, externalControl /\ Serves(s)),
                  AfterCheck(command[s]), "release")
    /\ UNCHANGED <<command, controller>>

\* A faulty variant of RecheckStopped: the answer is not looked at.
RecheckDropped(s) ==
    /\ At(s, "recheck")
    /\ \E o \in ReadOutcomes :
          Proceed(s, Raised(o), AfterRecheck(command[s]), "release")
    /\ UNCHANGED <<command, controller>>

\* RAPID may have been started while the access was being acquired.
RecheckStopped(s) ==
    /\ At(s, "recheck")
    /\ \E o \in ReadOutcomes :
          Proceed(s, Required(o, ~running), AfterRecheck(command[s]), "release")
    /\ UNCHANGED <<command, controller>>

\* motion_control: enable and read back.  The try covers both, so that a
\* failure here already runs the disable of the finally block.  The controller
\* may accept the request and leave Motion Control off all the same.
EnableMotion(s) ==
    /\ At(s, "enable")
    /\ \E o \in Outcomes :
          /\ Applied(o) => Serves(s)
          /\ motion' \in IF Applied(o) THEN {motion, TRUE} ELSE {motion}
          /\ Proceed(s, Raised(o), "verifyOn", "disable")
    /\ UNCHANGED <<command, holder, running, revocations>>

\* A faulty variant of VerifyMotionOn: the accepted request is trusted.
VerifyOnDropped(s) ==
    /\ At(s, "verifyOn")
    /\ \E o \in ReadOutcomes : Proceed(s, Raised(o), "body", "disable")
    /\ UNCHANGED <<command, controller>>

VerifyMotionOn(s) ==
    /\ At(s, "verifyOn")
    /\ \E o \in ReadOutcomes : Proceed(s, Required(o, motion), "body", "disable")
    /\ UNCHANGED <<command, controller>>

\* Leaving the protected operation, by a value or by an exception.
LeaveBody(s, o) ==
    /\ At(s, "body")
    /\ Applied(o) => Serves(s)
    /\ Proceed(s, Raised(o), AfterBody(command[s]), AfterBody(command[s]))

StartExecution(s) ==
    /\ command[s] = "start"
    /\ \E o \in Outcomes :
          /\ LeaveBody(s, o)
          /\ Applied(o) => motion
          /\ running' = (running \/ Applied(o))
    /\ UNCHANGED <<command, holder, motion, revocations>>

StopExecution(s) ==
    /\ command[s] = "stop"
    /\ \E o \in Outcomes :
          /\ LeaveBody(s, o)
          /\ running' = (running /\ ~Applied(o))
    /\ UNCHANGED <<command, holder, motion, revocations>>

\* The restarting controller may forget the holder at once or later.
WarmRestart(s) ==
    /\ command[s] = "restart"
    /\ \E o \in Outcomes :
          /\ LeaveBody(s, o)
          /\ holder' \in IF Applied(o) THEN {holder, NoStation} ELSE {holder}
    /\ UNCHANGED <<command, motion, running, revocations>>

\* Every other operation works on state of other modules.
Operate(s) ==
    /\ command[s] \notin {"start", "stop", "restart"}
    /\ \E o \in Outcomes : LeaveBody(s, o)
    /\ UNCHANGED <<command, controller>>

\* An OmnicoreError of the disable is raised only if nothing failed before it.
DisableRaises(s, e) == IF e = "error" /\ exc[s] # "none" THEN exc[s] ELSE e

\* An accepted request may leave Motion Control on as well.
DisableMotion(s) ==
    /\ At(s, "disable")
    /\ \E o \in Outcomes :
          /\ Applied(o) => Serves(s)
          /\ motion' \in IF Applied(o) THEN {motion, FALSE} ELSE {motion}
          /\ Proceed(s, DisableRaises(s, Raised(o)),
                     IF Raised(o) = "none" THEN "verifyOff" ELSE "release",
                     IF Raised(o) = "none" THEN "verifyOff" ELSE "release")
    /\ UNCHANGED <<command, holder, running, revocations>>

\* A faulty variant of VerifyMotionOff: the accepted request is trusted.
VerifyOffDropped(s) ==
    /\ At(s, "verifyOff")
    /\ \E o \in ReadOutcomes :
          Proceed(s, DisableRaises(s, Raised(o)), "release", "release")
    /\ UNCHANGED <<command, controller>>

VerifyMotionOff(s) ==
    /\ At(s, "verifyOff")
    /\ \E o \in ReadOutcomes :
          Proceed(s, DisableRaises(s, Required(o, ~motion)), "release", "release")
    /\ UNCHANGED <<command, controller>>

\* A faulty variant: every command releases with best effort.
ReleaseAlwaysBestEffort(s, e) == IF e = "error" THEN exc[s] ELSE e

\* best_effort_release, given by the commands of BestEffort.
ReleaseRaises(s, e) ==
    IF e = "error" /\ command[s] \in BestEffort THEN exc[s] ELSE e

\* The finally block of write_access.  A release by another station than the
\* holder changes nothing.
ReleaseWriteAccess(s) ==
    /\ At(s, "release")
    /\ \E o \in Outcomes :
          /\ holder' = IF Applied(o) /\ Serves(s) THEN NoStation ELSE holder
          /\ Proceed(s, ReleaseRaises(s, Raised(o)), "close", "close")
    /\ UNCHANGED <<command, motion, running, revocations>>

\* The with-block of main: RwsClient.close logs out, ignores what comes of it
\* unless it is an interrupt, and closes.
Close(s) ==
    /\ At(s, "close")
    /\ \E o \in Outcomes :
          Proceed(s, IF Raised(o) = "interrupt" THEN "interrupt" ELSE "none",
                  "exited", "exited")
    /\ UNCHANGED <<command, controller>>

Step(s) ==
    \/ CheckStopped(s)       \/ CheckStartable(s)     \/ RegisterRemote(s)
    \/ RequestWriteAccess(s) \/ CheckStatus(s)        \/ RecheckStopped(s)
    \/ EnableMotion(s)       \/ VerifyMotionOn(s)     \/ StartExecution(s)
    \/ StopExecution(s)      \/ WarmRestart(s)        \/ Operate(s)
    \/ DisableMotion(s)      \/ VerifyMotionOff(s)    \/ ReleaseWriteAccess(s)
    \/ Close(s)

-----------------------------------------------------------------------------
(* The controller and its local operator.                                  *)

\* A faulty variant: the registration does not ask for it.
KeepWhenLost == FALSE

\* Every registration asks for release-write-access-when-lost.
ReleaseWhenLost == TRUE

\* The controller notices that no session of the holder is left.
ReleaseLost ==
    /\ ReleaseWhenLost
    /\ holder \in Stations
    /\ \A s \in Sessions : StationOf[s] = holder => ~Registered(s)
    /\ holder' = NoStation
    /\ UNCHANGED <<command, pc, exc, motion, running, revocations>>

PendantTakes ==
    /\ holder = NoStation
    /\ holder' = Pendant
    /\ UNCHANGED <<command, pc, exc, motion, running, revocations>>

PendantReleases ==
    /\ holder = Pendant
    /\ holder' = NoStation
    /\ UNCHANGED <<command, pc, exc, motion, running, revocations>>

PendantStarts ==
    /\ holder = Pendant
    /\ running' = TRUE
    /\ UNCHANGED <<command, pc, exc, holder, motion, revocations>>

\* The operator takes the access from a remote station in the middle of its
\* work, and Motion Control with it if the controller couples the two.
OperatorRevokes ==
    /\ holder \in Stations
    /\ revocations < MaxRevocations
    /\ revocations' = revocations + 1
    /\ holder' = Pendant
    /\ motion' \in {motion, FALSE}
    /\ UNCHANGED <<command, pc, exc, running>>

\* The RAPID program ends by itself.
ProgramEnds ==
    /\ running
    /\ running' = FALSE
    /\ UNCHANGED <<command, pc, exc, holder, motion, revocations>>

Environment ==
    \/ ReleaseLost     \/ PendantTakes    \/ PendantReleases
    \/ PendantStarts   \/ OperatorRevokes \/ ProgramEnds

Next == (\E s \in Sessions : Step(s)) \/ Environment

\* Every request ends, at the latest when the HTTP timeout expires, and the
\* controller does notice a lost session.
Fairness ==
    /\ \A s \in Sessions : WF_vars(Step(s))
    /\ WF_vars(ReleaseLost)

Spec == Init /\ [][Next]_vars

FairSpec == Spec /\ Fairness

-----------------------------------------------------------------------------
(* Properties.                                                             *)

Undisturbed == revocations = 0

InScope(s) == pc[s] \in ScopePCs

\* From the yield of write_access to its finally block the station of the
\* command is the holder, whatever other invocations and the pendant do,
\* unless the operator took the access away.  (write_access, the docstring
\* "Hold write access for one bounded operation".)
HeldThroughScope ==
    Undisturbed => \A s \in Sessions : InScope(s) => Serves(s)

\* A command that exits 0 has left no write access behind, unless it is one
\* of those that release with best effort.
ReleasedOnSuccess ==
    \A s \in Sessions :
        pc[s] \in {"close", "exited"} /\ exc[s] = "none" /\ command[s] \notin BestEffort
            => holder # StationOf[s]

\* Motion Control is allowed only while a start is between its enable and the
\* read-back of its disable, or after a start that reported a failure: a start
\* that exits 0 never leaves the robot free to move, not even when the
\* controller accepts the disable and does nothing.
MotionScoped ==
    motion => \E s \in Sessions :
                 /\ command[s] \in MovesRobot
                 /\ \/ pc[s] \in {"verifyOn", "body", "disable", "verifyOff"}
                    \/ exc[s] # "none"

\* start_execution is sent with Motion Control allowed: the accepted enable
\* really took effect, and no other invocation has disabled it since.
MotionHeldForStart ==
    Undisturbed => \A s \in Sessions :
        At(s, "body") /\ command[s] \in MovesRobot => motion

\* The motors are switched only while RAPID is stopped: nobody can start it
\* between the second check, made under the access, and the request.
MotorsSwitchedStopped ==
    Undisturbed => \A s \in Sessions :
        At(s, "body") /\ command[s] \in RechecksStopped => ~running

\* Where the steps of the narrower commands can stand: the strengthening that
\* the properties of the protected operation need to be inductive.
Placed ==
    \A s \in Sessions :
        /\ At(s, "recheck") => command[s] \in RechecksStopped
        /\ pc[s] \in {"enable", "verifyOn", "disable", "verifyOff"}
              => command[s] \in MovesRobot

\* No remote station keeps the write access for ever, not even one whose
\* command could not release it: the controller takes it back.
AccessReturns ==
    \A s \in Sessions : holder = StationOf[s] ~> holder # StationOf[s]

\* Where an invocation stands inside its scope RAPID is started by itself or
\* not at all: what a check of ChecksStopped saw can be overtaken only until
\* the access is held.  (_ensure_stopped and backup create check before it.)
StartsExcluded ==
    [][Undisturbed' /\ ~running /\ running' =>
          \A s \in Sessions : InScope(s) => command[s] \in MovesRobot]_vars

\* The lock that the protected operations see: an invocation is inside from
\* the yield to the release.
Access == INSTANCE WriteAccess WITH
              Clients <- Sessions,
              inside  <- {s \in Sessions : InScope(s)},
              revoked <- ~Undisturbed

\* The lifecycle of control_station.py implements that lock, whatever request
\* fails, is lost or is interrupted on the way.
ImplementsWriteAccess == Access!Spec
=============================================================================

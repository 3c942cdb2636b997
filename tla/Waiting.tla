------------------------------ MODULE Waiting ------------------------------
(***************************************************************************)
(* The commands that wait for the controller: backup create and rapid      *)
(* program load, which poll an asynchronous operation (ProgressService),   *)
(* and controller motors-on and motors-off (set_motor_state).              *)
(*                                                                         *)
(* Time is counted in ticks from the start of each wait.  A request takes  *)
(* up to Latency ticks; a sleep lasts as long as it was asked to.          *)
(***************************************************************************)
EXTENDS Integers, RwsRequest

CONSTANTS Clients,
          Jobs,       \* what the invocations may be asked to do
          Timeout,    \* wait_timeout, in ticks
          Poll,       \* poll_interval
          Latency,    \* the longest request
          MaxTrips    \* bound: safety stops of the motors

Motors  == {"motoron", "motoroff"}
Unsafe  == {"guardstop"}

ASSUME TimeAssumption ==
    /\ Timeout \in Nat \ {0} /\ Poll \in Nat \ {0} /\ Latency \in Nat
    /\ MaxTrips \in Nat
ASSUME JobsAssumption ==
    Jobs \subseteq [Clients -> [kind : {"backup", "program"}, target : {"none"}]
                               \cup [kind : {"motors"}, target : Motors]]

\* What has become of an operation: ended "bad" is state ready with the code
\* of an error.
Operations == {"none", "pending", "good", "bad", "failed"}

Never == Timeout + Poll + 2 * Latency + 1

Ages == 0..Never

PCs == {"status", "check", "create", "load", "program", "before", "post",
        "poll", "answer", "sleep", "end"}

VARIABLES
    motors,    \* controller: the motor state
    task,      \* controller: some program is loaded in the task
    operation, \* controller: what each invocation started
    trips,     \* how many safety stops there were
    job,       \* what each invocation was asked to do
    pc,        \* its next request, or sleep
    age,       \* the time since its wait began
    left,      \* how long its sleep lasts, or its request may still take
    answer,    \* what the controller answered to its poll
    since,     \* history: when what it waits for came about
    result     \* how the command ends

controller == <<motors, task, operation, trips, since>>
clock == <<age, left, answer>>
vars == <<controller, job, pc, clock, result>>

Results == {"none", "ok", "unchanged", "error", "timeout", "interrupt"}

TypeOK ==
    /\ motors \in Motors \cup Unsafe
    /\ task \in BOOLEAN
    /\ operation \in [Clients -> Operations]
    /\ trips \in 0..MaxTrips
    /\ job \in Jobs
    /\ pc \in [Clients -> PCs]
    /\ age \in [Clients -> Ages] /\ since \in [Clients -> Ages]
    /\ left \in [Clients -> Ages]
    /\ answer \in [Clients -> Operations \cup Motors \cup Unsafe]
    /\ result \in [Clients -> Results]

Start(kind) == CASE kind = "backup"  -> "status"
                 [] kind = "program" -> "load"
                 [] kind = "motors"  -> "before"

Init ==
    /\ motors \in Motors \cup Unsafe
    /\ task \in BOOLEAN
    /\ operation = [c \in Clients |-> "none"]
    /\ trips = 0
    /\ job \in Jobs
    /\ pc = [c \in Clients |-> Start(job[c].kind)]
    /\ age = [c \in Clients |-> 0]
    /\ left = [c \in Clients |-> 0]
    /\ answer = [c \in Clients |-> "none"]
    /\ since = [c \in Clients |-> Never]
    /\ result = [c \in Clients |-> "none"]

-----------------------------------------------------------------------------
(* Control flow of one invocation.                                         *)

At(c, p) == pc[c] = p

Goto(c, p) ==
    /\ pc' = [pc EXCEPT ![c] = p]
    /\ UNCHANGED result

Finish(c, r) ==
    /\ pc' = [pc EXCEPT ![c] = "end"]
    /\ result' = [result EXCEPT ![c] = r]

Continue(c, e, p) == IF e = "none" THEN Goto(c, p) ELSE Finish(c, e)

\* The deadline is set, and the first poll follows.
Wait(c, o) == Continue(c, Raised(o), "poll")

Waiting(c) == pc[c] \in {"poll", "answer", "sleep"}

Busy == \E c \in Clients : job[c].kind = "backup" /\ operation[c] = "pending"

\* A mutating request starts an operation, or does nothing.
Begin(c, o) ==
    /\ operation' = [operation EXCEPT ![c] = IF Applied(o) THEN "pending" ELSE @]
    /\ UNCHANGED <<motors, task, trips, since>>

-----------------------------------------------------------------------------
(* BackupService.create.                                                   *)

ReadStatus(c) ==
    /\ At(c, "status")
    /\ \E o \in ReadOutcomes : Continue(c, Required(o, ~Busy), "check")
    /\ UNCHANGED <<controller, job, clock>>

\* The destination exists, and no --force.
CheckDestination(c) ==
    /\ At(c, "check")
    /\ \E o \in ReadOutcomes, refused \in BOOLEAN :
          Continue(c, Required(o, ~refused), "create")
    /\ UNCHANGED <<controller, job, clock>>

\* The controller makes one backup at a time.
CreateBackup(c) ==
    /\ At(c, "create")
    /\ \E o \in Outcomes : (Applied(o) => ~Busy) /\ Begin(c, o) /\ Wait(c, o)
    /\ UNCHANGED <<job, clock>>

-----------------------------------------------------------------------------
(* RapidService.load_program.                                              *)

\* The controller answers 204 when the program is loaded, or 202 before.
LoadProgram(c) ==
    /\ At(c, "load")
    /\ \/ \E o \in Outcomes : Begin(c, o) /\ Wait(c, o)
       \/ \E o \in Outcomes :
             /\ Applied(o)
             /\ operation' = [operation EXCEPT ![c] = "good"]
             /\ task' = TRUE
             /\ Continue(c, Raised(o), "program")
             /\ UNCHANGED <<motors, trips, since>>
    /\ UNCHANGED <<job, clock>>

GetProgram(c) ==
    /\ At(c, "program")
    /\ \E o \in ReadOutcomes :
          IF o = "done" /\ task THEN Finish(c, "ok")
          ELSE Finish(c, Required(o, FALSE))
    /\ UNCHANGED <<controller, job, clock>>

-----------------------------------------------------------------------------
(* ControllerService.set_motor_state.                                      *)

ReadMotors(c) ==
    /\ At(c, "before")
    /\ \E o \in ReadOutcomes :
          IF o = "done" /\ motors = job[c].target
          THEN Finish(c, "unchanged")
          ELSE Continue(c, Required(o, motors \in Motors), "post")
    /\ UNCHANGED <<controller, job, clock>>

PostMotors(c) ==
    /\ At(c, "post")
    /\ \E o \in Outcomes :
          /\ Applied(o) => motors \in Motors
          /\ Begin(c, o) /\ Wait(c, o)
    /\ UNCHANGED <<job, clock>>

-----------------------------------------------------------------------------
(* Polling.                                                                *)

\* A faulty variant of Expired: the motors' way for every wait.
ExpiredForAll(c) == age[c] >= Timeout

\* `while self._clock() < deadline` stands before the poll of the motors; the
\* wait for an operation polls first.
Expired(c) == job[c].kind = "motors" /\ age[c] >= Timeout

\* What an invocation knows of the time, and of its last poll.
Clock(c, a, l, w) ==
    /\ age' = [age EXCEPT ![c] = a]
    /\ left' = [left EXCEPT ![c] = l]
    /\ answer' = [answer EXCEPT ![c] = w]

\* After a wait none of it matters.
Stop(c, r) == Finish(c, r) /\ Clock(c, 0, 0, "none")

Observed(c) == IF job[c].kind = "motors" THEN motors ELSE operation[c]

\* The controller answers a poll; the client gets the answer later.
PollOnce(c) ==
    /\ At(c, "poll")
    /\ IF Expired(c) THEN Stop(c, "timeout")
       ELSE \E o \in ReadOutcomes :
              IF o = "done"
              THEN Goto(c, "answer") /\ Clock(c, age[c], Latency, Observed(c))
              ELSE Stop(c, Raised(o))
    /\ UNCHANGED <<controller, job>>

\* A faulty variant of Pause: the rest of the time is not considered.
PauseUnclipped(c) == Poll

\* min(poll_interval, max(0, deadline - now)) for an operation.
Pause(c) ==
    LET rest == IF age[c] < Timeout THEN Timeout - age[c] ELSE 0
    IN  IF job[c].kind = "motors" \/ Poll <= rest THEN Poll ELSE rest

\* A faulty variant of GivesUp: the deadline is never looked at.
NeverGivesUp(c) == FALSE

GivesUp(c) == job[c].kind # "motors" /\ age[c] >= Timeout

Pending(c) == IF job[c].kind = "motors"
              THEN answer[c] # job[c].target /\ ~(job[c].target = "motoron" /\ answer[c] \in Unsafe)
              ELSE answer[c] = "pending"

KeepWaiting(c) ==
    /\ At(c, "answer") /\ Pending(c)
    /\ IF GivesUp(c) THEN Stop(c, "timeout")
       ELSE Goto(c, "sleep") /\ Clock(c, age[c], Pause(c), "none")
    /\ UNCHANGED <<controller, job>>

\* A faulty variant of Succeeds: a backup whose operation ended in an error.
SucceedsWhenReady(c) == answer[c] \in {"good", "bad", job[c].target}

\* The code of a backup is looked at, that of a load is not.
Succeeds(c) ==
    \/ job[c].kind = "backup"  /\ answer[c] = "good"
    \/ job[c].kind = "program" /\ answer[c] \in {"good", "bad"}
    \/ job[c].kind = "motors"  /\ answer[c] = job[c].target

EndWait(c) ==
    /\ At(c, "answer") /\ ~Pending(c)
    /\ IF ~Succeeds(c) THEN Stop(c, "error")
       ELSE IF job[c].kind = "program"
       THEN Goto(c, "program") /\ Clock(c, 0, 0, "none")
       ELSE Stop(c, "ok")
    /\ UNCHANGED <<controller, job>>

\* A sleep can be interrupted.
WakeUp(c) ==
    /\ At(c, "sleep")
    /\ \/ left[c] = 0 /\ Goto(c, "poll") /\ UNCHANGED clock
       \/ Stop(c, "interrupt")
    /\ UNCHANGED <<controller, job>>

-----------------------------------------------------------------------------
(* The controller, and time.                                               *)

\* The motors reach or leave the state somebody waits for, or an operation
\* ends.  A wait that is over keeps its history.
Since(d) == IF job[d].kind = "motors" /\ motors' # job[d].target THEN Never
            ELSE IF since[d] = Never THEN age[d] ELSE since[d]

\* An operation comes to its end, well or not.
OperationEnds(c) ==
    /\ operation[c] = "pending"
    /\ \E end \in {"good", "bad", "failed"} :
          /\ operation' = [operation EXCEPT ![c] = end]
          /\ task' = (task \/ (job[c].kind = "program" /\ end = "good"))
          /\ motors' = IF job[c].kind = "motors" /\ end = "good"
                       THEN job[c].target ELSE motors
    /\ since' = [d \in Clients |->
                   IF Waiting(d) /\ (d = c \/ (job[d].kind = "motors" /\ motors' # motors))
                   THEN Since(d) ELSE since[d]]
    /\ UNCHANGED <<trips, job, pc, clock, result>>

\* A safety stop takes the power from the motors.
MotorsTrip ==
    /\ trips < MaxTrips
    /\ trips' = trips + 1
    /\ motors \in Motors
    /\ motors' = "guardstop"
    /\ since' = [c \in Clients |->
                   IF Waiting(c) /\ job[c].kind = "motors" THEN Never ELSE since[c]]
    /\ UNCHANGED <<task, operation, job, pc, clock, result>>

\* Time passes for those that wait; nobody oversleeps, no answer takes longer
\* than Latency, and a client does nothing without a request or a sleep.
Tick ==
    /\ \E c \in Clients : Waiting(c)
    /\ \A c \in Clients : Waiting(c) => ~At(c, "poll") /\ left[c] > 0
    /\ age' = [c \in Clients |-> IF Waiting(c) THEN age[c] + 1 ELSE age[c]]
    /\ left' = [c \in Clients |-> IF Waiting(c) THEN left[c] - 1 ELSE left[c]]
    /\ UNCHANGED <<controller, job, pc, answer, result>>

Step(c) ==
    \/ ReadStatus(c)  \/ CheckDestination(c) \/ CreateBackup(c)
    \/ LoadProgram(c) \/ GetProgram(c)
    \/ ReadMotors(c)  \/ PostMotors(c)
    \/ PollOnce(c)    \/ KeepWaiting(c) \/ EndWait(c) \/ WakeUp(c)

Next ==
    \/ \E c \in Clients : Step(c) \/ OperationEnds(c)
    \/ MotorsTrip
    \/ Tick

Spec == Init /\ [][Next]_vars

\* Requests and sleeps end; the operations of the controller need not.
FairSpec == Spec /\ (\A c \in Clients : WF_vars(Step(c))) /\ WF_vars(Tick)

-----------------------------------------------------------------------------
(* Properties.                                                             *)

\* A backup is reported as created only if the operation this command
\* started, and not that of somebody else, has come to a good end.
SuccessIsComplete ==
    \A c \in Clients :
        result[c] = "ok" /\ job[c].kind = "backup" => operation[c] = "good"

\* What came about before the last look at the controller is never reported
\* as a timeout: that look is at the deadline, but for the latency of its
\* request; set_motor_state may stop looking one poll_interval earlier.
InTimeIsReported ==
    \A c \in Clients :
        result[c] = "timeout" =>
            since[c] >= Timeout - Latency
                          - (IF job[c].kind = "motors" THEN Poll ELSE 0)

\* --wait-timeout is the "maximum completion wait" of a backup or a load
\* (cli.py:402): the wait is over one request after it.  The motors may
\* take a request and a poll_interval longer.
WaitIsBounded ==
    \A c \in Clients :
        Waiting(c) =>
            age[c] <= Timeout + Latency + (IF job[c].kind = "motors" THEN Poll ELSE 0)

\* Every command ends, even if the controller never finishes the operation.
EveryWaitEnds == \A c \in Clients : <>At(c, "end")

\* docs/rapid.md: exit 0 means that the operation completed successfully.
LoadIsComplete ==
    \A c \in Clients :
        result[c] = "ok" /\ job[c].kind = "program" => operation[c] = "good"
=============================================================================

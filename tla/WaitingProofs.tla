--------------------------- MODULE WaitingProofs ---------------------------
(***************************************************************************)
(* Proofs about Waiting, for any number of invocations, any deadline, any  *)
(* interval between the polls and any latency of a request.                *)
(***************************************************************************)
EXTENDS Waiting, TLAPS

Answers == Operations \cup Motors \cup Unsafe

IsMotors(c) == job[c].kind = "motors"

-----------------------------------------------------------------------------
(* What the properties rest on, for one invocation.                        *)

\* Where its clock can stand.  The sleep of an operation is cut at the
\* deadline, that of the motors is not; a poll is sent before the deadline,
\* or at it.
Paced(c) ==
    /\ ~Waiting(c) => age[c] = 0 /\ left[c] = 0
    /\ At(c, "poll") =>
          /\ left[c] = 0
          /\ age[c] <= Timeout + (IF IsMotors(c) THEN Latency + Poll ELSE 0)
    /\ At(c, "answer") => left[c] <= Latency /\ age[c] + left[c] <= Timeout + Latency
    /\ At(c, "sleep") =>
          /\ left[c] <= Poll
          /\ age[c] + left[c] <= Timeout + (IF IsMotors(c) THEN Latency + Poll ELSE 0)

\* Its next request is one of its command; it starts one operation at most,
\* and has no result before it ends.
Placed(c) ==
    /\ pc[c] \in {"status", "check", "create"} => job[c].kind = "backup"
    /\ pc[c] \in {"load", "program"} => job[c].kind = "program"
    /\ pc[c] \in {"before", "post"} => IsMotors(c)
    /\ pc[c] \in {"status", "check", "create", "load", "before", "post"} =>
          operation[c] = "none" /\ since[c] = Never
    /\ result[c] # "none" => At(c, "end")

\* The history has no date for what has not come about.
Dated(c) ==
    IF IsMotors(c) THEN Waiting(c) /\ motors # job[c].target => since[c] = Never
    ELSE operation[c] \in {"none", "pending"} => since[c] = Never

Unfinished(c) ==
    IF IsMotors(c) THEN answer[c] # job[c].target ELSE answer[c] = "pending"

\* What it waits for had not come about at its last look, which is the sleep
\* and the latency of a request ago at most.
Looked(c) ==
    /\ At(c, "answer") /\ Unfinished(c) => since[c] + Latency >= age[c] + left[c]
    /\ pc[c] \in {"poll", "sleep"} /\ IsMotors(c) =>
          since[c] + Latency + Poll >= age[c] + left[c]
    /\ result[c] = "timeout" =>
          since[c] + Latency + (IF IsMotors(c) THEN Poll ELSE 0) >= Timeout

\* A good answer is about its own operation, which stays good.
Seen(c) ==
    /\ At(c, "answer") /\ ~IsMotors(c) /\ answer[c] = "good" => operation[c] = "good"
    /\ result[c] = "ok" /\ job[c].kind = "backup" => operation[c] = "good"

Sound(c) == Paced(c) /\ Placed(c) /\ Dated(c) /\ Looked(c) /\ Seen(c)

IInv == TypeOK /\ \A c \in Clients : Sound(c)

-----------------------------------------------------------------------------
(* Types.                                                                  *)

\* What the times are.
LEMMA Times ==
  /\ Timeout \in Nat /\ Timeout > 0 /\ Poll \in Nat /\ Poll > 0 /\ Latency \in Nat
  /\ Never = Timeout + Poll + 2 * Latency + 1 /\ Never \in Nat
  /\ \A t \in Int : t \in Ages <=> 0 <= t /\ t <= Never
  BY TimeAssumption DEF Never, Ages

\* What an invocation can be asked to do.
LEMMA Asked ==
  ASSUME TypeOK, NEW c \in Clients
  PROVE  /\ job[c].kind \in {"backup", "program", "motors"}
         /\ job[c].kind = "motors" => job[c].target \in Motors
  BY JobsAssumption DEF TypeOK

\* What a request raises is a result.
LEMMA RaisedType ==
  \A o : /\ Raised(o) \in {"none", "error", "interrupt"}
         /\ \A w : Required(o, w) \in {"none", "error", "interrupt"}
  BY DEF Raised, Required

\* A pause is no longer than the interval.
LEMMA PauseType ==
  ASSUME TypeOK, NEW c \in Clients
  PROVE  /\ Pause(c) \in Nat /\ Pause(c) <= Poll
         /\ ~IsMotors(c) /\ age[c] < Timeout => age[c] + Pause(c) <= Timeout
         /\ IsMotors(c) => Pause(c) = Poll
<1>1. age[c] \in Int /\ age[c] >= 0
  BY Times DEF TypeOK, Ages
<1>2. CASE IsMotors(c) \/ age[c] + Poll <= Timeout
  BY <1>1, <1>2, Times DEF Pause, IsMotors
<1>3. CASE ~IsMotors(c) /\ ~(age[c] + Poll <= Timeout) /\ age[c] >= Timeout
  BY <1>1, <1>3, Times DEF Pause, IsMotors
<1>4. CASE ~IsMotors(c) /\ ~(age[c] + Poll <= Timeout) /\ ~(age[c] >= Timeout)
  BY <1>1, <1>4, Times DEF Pause, IsMotors
<1> QED BY <1>1, <1>2, <1>3, <1>4, Times

-----------------------------------------------------------------------------
(* The moves of one invocation.                                            *)

\* It goes to p, or ends; nothing but its own place and result changes.
Moves(c, p, r) ==
    /\ pc' = [pc EXCEPT ![c] = p]
    /\ result' = [result EXCEPT ![c] = r]

\* Its clock and its answer are set.
Sets(c, a, l, w) ==
    /\ age' = [age EXCEPT ![c] = a]
    /\ left' = [left EXCEPT ![c] = l]
    /\ answer' = [answer EXCEPT ![c] = w]

\* Every step of an invocation is a move of it alone.
StepShape(c) ==
    /\ UNCHANGED <<job, motors, since, trips>>
    /\ task' \in BOOLEAN
    /\ \E p \in PCs, r \in Results : Moves(c, p, r)
    /\ UNCHANGED clock \/ \E a \in {0, age[c]}, l \in Ages, w \in Answers : Sets(c, a, l, w)
    /\ UNCHANGED operation \/ \E e \in Operations : operation' = [operation EXCEPT ![c] = e]

\* The control flow, as moves.
LEMMA FlowMoves ==
  ASSUME TypeOK, NEW c \in Clients, NEW e \in Results, NEW p \in PCs
  PROVE  /\ Goto(c, p) => Moves(c, p, result[c])
         /\ Finish(c, e) => Moves(c, "end", e)
         /\ Continue(c, e, p) =>
               IF e = "none" THEN Moves(c, p, result[c]) ELSE Moves(c, "end", e)
         /\ Clock(c, 0, 0, "none") => Sets(c, 0, 0, "none")
         /\ Stop(c, e) => Moves(c, "end", e) /\ Sets(c, 0, 0, "none")
<1>1. result' = result => result' = [result EXCEPT ![c] = result[c]]
  BY DEF TypeOK
<1> QED BY <1>1 DEF Goto, Finish, Continue, Clock, Stop, Moves, Sets

\* What a request may begin.
LEMMA BeginMoves ==
  ASSUME TypeOK, NEW c \in Clients, NEW o, Begin(c, o)
  PROVE  /\ UNCHANGED <<motors, task, trips, since>>
         /\ operation' = IF Applied(o) THEN [operation EXCEPT ![c] = "pending"]
                                       ELSE operation
  BY DEF Begin, TypeOK

\* Before a wait the clock stands still.
LEMMA EarlyShape ==
  ASSUME TypeOK, NEW c \in Clients,
         \/ ReadStatus(c) \/ CheckDestination(c) \/ CreateBackup(c)
         \/ LoadProgram(c) \/ GetProgram(c) \/ ReadMotors(c) \/ PostMotors(c)
  PROVE  StepShape(c) /\ UNCHANGED clock
<1> USE RaisedType, FlowMoves DEF StepShape, PCs, Results
<1>1. result[c] \in Results /\ task \in BOOLEAN
  BY DEF TypeOK
<1>2. CASE ReadStatus(c)
  BY <1>1, <1>2 DEF ReadStatus, controller
<1>3. CASE CheckDestination(c)
  BY <1>1, <1>3 DEF CheckDestination, controller
<1>4. CASE CreateBackup(c)
  BY <1>1, <1>4, BeginMoves DEF CreateBackup, Wait, Operations
<1>5. CASE LoadProgram(c)
  BY <1>1, <1>5, BeginMoves DEF LoadProgram, Wait, Operations
<1>6. CASE GetProgram(c)
  BY <1>1, <1>6 DEF GetProgram, controller
<1>7. CASE ReadMotors(c)
  BY <1>1, <1>7 DEF ReadMotors, controller
<1>8. CASE PostMotors(c)
  BY <1>1, <1>8, BeginMoves DEF PostMotors, Wait, Operations
<1> QED BY <1>2, <1>3, <1>4, <1>5, <1>6, <1>7, <1>8

\* During a wait the controller is only read.
LEMMA WaitShape ==
  ASSUME TypeOK, NEW c \in Clients,
         PollOnce(c) \/ KeepWaiting(c) \/ EndWait(c) \/ WakeUp(c)
  PROVE  StepShape(c) /\ UNCHANGED controller
<1> USE RaisedType, FlowMoves, Times DEF StepShape, PCs, Results, controller
<1>1. result[c] \in Results /\ task \in BOOLEAN
  BY DEF TypeOK
<1>2. /\ 0 \in Ages /\ Latency \in Ages /\ Pause(c) \in Ages
      /\ "none" \in Answers /\ Observed(c) \in Answers
  BY PauseType DEF Answers, Operations, Observed, TypeOK
<1>3. CASE PollOnce(c)
  <2>1. UNCHANGED <<controller, job>>
    BY <1>3 DEF PollOnce
  <2>2. CASE \E e \in Results : Stop(c, e)
    BY <1>1, <1>2, <2>1, <2>2
  <2>3. CASE Goto(c, "answer") /\ Clock(c, age[c], Latency, Observed(c))
    BY <1>1, <1>2, <2>1, <2>3 DEF Clock, Sets
  <2> QED BY <1>3, <2>2, <2>3 DEF PollOnce
<1>4. CASE KeepWaiting(c)
  BY <1>1, <1>2, <1>4 DEF KeepWaiting, Clock, Sets
<1>5. CASE EndWait(c)
  BY <1>1, <1>2, <1>5 DEF EndWait
<1>6. CASE WakeUp(c)
  BY <1>1, <1>2, <1>6 DEF WakeUp
<1> QED BY <1>3, <1>4, <1>5, <1>6

\* Every step has that shape, and stays within the types.
LEMMA StepMoves ==
  ASSUME TypeOK, NEW c \in Clients, Step(c)
  PROVE  StepShape(c) /\ TypeOK'
<1>1. StepShape(c)
  BY EarlyShape, WaitShape DEF Step
<1>2. age[c] \in Ages /\ 0 \in Ages
  BY Times DEF TypeOK
<1>3. pc' \in [Clients -> PCs] /\ result' \in [Clients -> Results]
  BY <1>1 DEF StepShape, Moves, TypeOK
<1>4. /\ age' \in [Clients -> Ages] /\ left' \in [Clients -> Ages]
      /\ answer' \in [Clients -> Answers]
  BY <1>1, <1>2 DEF StepShape, Sets, clock, TypeOK, Answers
<1>5. operation' \in [Clients -> Operations]
  BY <1>1 DEF StepShape, TypeOK
<1> QED BY <1>1, <1>3, <1>4, <1>5 DEF StepShape, TypeOK, Answers

\* It leaves the others alone.
LEMMA StepLeavesOthers ==
  ASSUME TypeOK, NEW c \in Clients, Step(c), NEW d \in Clients, d # c, Sound(d)
  PROVE  Sound(d)'
<1>1. /\ UNCHANGED <<job, motors, since>>
      /\ pc'[d] = pc[d] /\ result'[d] = result[d] /\ operation'[d] = operation[d]
      /\ age'[d] = age[d] /\ left'[d] = left[d] /\ answer'[d] = answer[d]
  BY StepMoves DEF StepShape, Moves, Sets, clock, TypeOK
<1> QED
  BY <1>1 DEF Sound, Paced, Placed, Dated, Unfinished, Looked, Seen, IsMotors, Waiting, At

-----------------------------------------------------------------------------
(* The invariant, through the steps of an invocation.                      *)

\* Where a move leads.
LEMMA MovesTo ==
  ASSUME TypeOK, NEW c \in Clients, NEW p, NEW r, Moves(c, p, r)
  PROVE  pc'[c] = p /\ result'[c] = r
  BY DEF Moves, TypeOK

\* Before the wait: it begins with a clock at zero and nothing achieved.
LEMMA EarlyKeeps ==
  ASSUME TypeOK, NEW c \in Clients, Sound(c),
         \/ ReadStatus(c) \/ CheckDestination(c) \/ CreateBackup(c)
         \/ LoadProgram(c) \/ GetProgram(c) \/ ReadMotors(c) \/ PostMotors(c)
  PROVE  Sound(c)'
<1> DEFINE Fails == \E e \in {"error", "interrupt"} : Moves(c, "end", e)
           Goes(p) == Moves(c, p, "none")
<1>1. /\ UNCHANGED <<job, motors, since>> /\ ~Waiting(c)
      /\ age'[c] = 0 /\ left'[c] = 0 /\ result[c] = "none"
  BY EarlyShape
     DEF StepShape, clock, Waiting, At, ReadStatus, CheckDestination, CreateBackup,
         LoadProgram, GetProgram, ReadMotors, PostMotors, Sound, Paced, Placed
<1>2. Timeout \in Nat /\ Poll \in Nat /\ Latency \in Nat /\ since[c] \in Nat /\ Never \in Nat
  BY Times DEF TypeOK, Ages
<1> USE RaisedType, FlowMoves, MovesTo DEF PCs, Results
<1>3. CASE ReadStatus(c) \/ CheckDestination(c)
  <2>1. Fails \/ Goes("check") \/ Goes("create")
    BY <1>1, <1>3 DEF ReadStatus, CheckDestination
  <2>2. operation' = operation /\ pc[c] \in {"status", "check"}
    BY <1>3 DEF ReadStatus, CheckDestination, controller, At
  <2> QED
    BY <1>1, <1>2, <2>1, <2>2
       DEF Sound, Paced, Placed, Dated, Looked, Seen, IsMotors, Waiting, At
<1>4. CASE CreateBackup(c) \/ PostMotors(c)
  <2>1. Fails \/ Goes("poll")
    BY <1>1, <1>4 DEF CreateBackup, PostMotors, Wait
  <2>2. pc[c] \in {"create", "post"} /\ operation'[c] \in {"none", "pending"}
    BY <1>4, BeginMoves
       DEF CreateBackup, PostMotors, At, Sound, Placed, TypeOK
  <2> QED
    BY <1>1, <1>2, <2>1, <2>2
       DEF Sound, Paced, Placed, Dated, Looked, Seen, IsMotors, Waiting, At
<1>5. CASE LoadProgram(c)
  <2>1. Fails \/ Goes("poll") \/ Goes("program")
    BY <1>1, <1>5 DEF LoadProgram, Wait
  <2>2. /\ pc[c] = "load" /\ job[c].kind = "program"
        /\ operation[c] = "none" /\ since[c] = Never
    BY <1>5 DEF LoadProgram, At, Sound, Placed
  <2>3. pc'[c] = "poll" => operation'[c] \in {"none", "pending"}
    <3>1. CASE \E o \in Outcomes : Begin(c, o)
      BY <2>2, <3>1, BeginMoves DEF TypeOK
    <3>2. CASE \E o \in Outcomes : Continue(c, Raised(o), "program")
      BY <3>2
    <3> QED BY <1>5, <3>1, <3>2 DEF LoadProgram
  <2> QED
    BY <1>1, <1>2, <2>1, <2>2, <2>3
       DEF Sound, Paced, Placed, Dated, Looked, Seen, IsMotors, Waiting, At
<1>6. CASE GetProgram(c)
  <2>1. \E r \in {"ok", "error", "interrupt"} : Finish(c, r)
    BY <1>6 DEF GetProgram, Required, Raised, ReadOutcomes
  <2>2. operation' = operation /\ job[c].kind # "backup"
    BY <1>6 DEF GetProgram, controller, At, Sound, Placed
  <2> QED
    BY <1>1, <1>2, <2>1, <2>2
       DEF Sound, Paced, Placed, Dated, Looked, Seen, IsMotors, Waiting, At
<1>7. CASE ReadMotors(c)
  <2>1. Fails \/ Goes("post") \/ Moves(c, "end", "unchanged")
    BY <1>1, <1>7 DEF ReadMotors
  <2>2. /\ operation' = operation /\ IsMotors(c)
        /\ operation[c] = "none" /\ since[c] = Never
    BY <1>7 DEF ReadMotors, controller, At, Sound, Placed
  <2> QED
    BY <1>1, <1>2, <2>1, <2>2
       DEF Sound, Paced, Placed, Dated, Looked, Seen, IsMotors, Waiting, At
<1> QED BY <1>3, <1>4, <1>5, <1>6, <1>7

\* During it: a poll looks, a pause ends at the deadline, and what is reported
\* is what was seen.
LEMMA WaitKeeps ==
  ASSUME TypeOK, NEW c \in Clients, Sound(c),
         PollOnce(c) \/ KeepWaiting(c) \/ EndWait(c) \/ WakeUp(c)
  PROVE  Sound(c)'
<1>1. /\ UNCHANGED <<job, motors, since, operation>> /\ result[c] = "none"
  BY WaitShape
     DEF controller, StepShape, At, PollOnce, KeepWaiting, EndWait, WakeUp, Sound, Placed
<1>2. /\ Timeout \in Nat /\ Poll \in Nat /\ Latency \in Nat
      /\ since[c] \in Nat /\ age[c] \in Nat /\ left[c] \in Nat
      /\ Never = Timeout + Poll + 2 * Latency + 1
  BY Times DEF TypeOK, Ages
<1> USE RaisedType, FlowMoves, MovesTo DEF PCs, Results
<1>3. ASSUME NEW r \in {"error", "interrupt"}, Stop(c, r) PROVE Sound(c)'
  BY <1>1, <1>2, <1>3
     DEF Sound, Paced, Placed, Dated, Looked, Seen, IsMotors, Waiting, At, Sets, TypeOK
<1>4. CASE PollOnce(c)
  <2>1. /\ At(c, "poll") /\ left[c] = 0
        /\ age[c] <= Timeout + (IF IsMotors(c) THEN Latency + Poll ELSE 0)
        /\ IsMotors(c) => since[c] + Latency + Poll >= age[c]
    BY <1>2, <1>4 DEF PollOnce, Sound, Paced, Looked, At
  <2>2. CASE Expired(c)
    <3>1. Stop(c, "timeout")
      BY <1>4, <2>2 DEF PollOnce
    <3>2. /\ pc'[c] = "end" /\ result'[c] = "timeout"
          /\ age'[c] = 0 /\ left'[c] = 0
      BY <3>1 DEF Sets, TypeOK
    <3>3. IsMotors(c) /\ age[c] >= Timeout
      BY <2>2 DEF Expired, IsMotors
    <3> QED
      BY <1>1, <1>2, <2>1, <3>2, <3>3
         DEF Sound, Paced, Placed, Dated, Looked, Seen, IsMotors, Waiting, At
  <2>3. CASE ~Expired(c) /\ Goto(c, "answer") /\ Clock(c, age[c], Latency, Observed(c))
    <3>1. /\ pc'[c] = "answer" /\ result'[c] = "none"
          /\ age'[c] = age[c] /\ left'[c] = Latency /\ answer'[c] = Observed(c)
      BY <1>1, <2>3 DEF Clock, Goto, TypeOK
    <3>2. age[c] <= Timeout
      BY <1>2, <2>1, <2>3 DEF Expired, IsMotors
    <3>3. Unfinished(c)' => since[c] = Never
      BY <1>1, <2>1, <3>1
         DEF Unfinished, Observed, IsMotors, Sound, Dated, Waiting, At
    <3>4. Seen(c)' /\ Dated(c)'
      BY <1>1, <2>1, <3>1 DEF Seen, Dated, Sound, IsMotors, Observed, Waiting, At
    <3>5. Looked(c)' /\ Paced(c)'
      BY <1>1, <1>2, <3>1, <3>2, <3>3 DEF Looked, Paced, Waiting, At
    <3> QED BY <3>1, <3>4, <3>5 DEF Sound, Placed
  <2> QED BY <1>3, <1>4, <2>2, <2>3 DEF PollOnce, ReadOutcomes, Raised
<1>5. CASE KeepWaiting(c)
  <2>1. /\ At(c, "answer") /\ left[c] <= Latency /\ age[c] + left[c] <= Timeout + Latency
        /\ Pending(c) => Unfinished(c)
        /\ Pending(c) => since[c] + Latency >= age[c] + left[c]
    BY <1>5 DEF KeepWaiting, Pending, Unfinished, IsMotors, Sound, Paced, Looked, At
  <2>2. CASE GivesUp(c)
    <3>1. Stop(c, "timeout") /\ Pending(c)
      BY <1>5, <2>2 DEF KeepWaiting
    <3>2. /\ pc'[c] = "end" /\ result'[c] = "timeout"
          /\ age'[c] = 0 /\ left'[c] = 0
      BY <3>1 DEF Sets, TypeOK
    <3>3. ~IsMotors(c) /\ age[c] >= Timeout
      BY <2>2 DEF GivesUp, IsMotors
    <3> QED
      BY <1>1, <1>2, <2>1, <3>1, <3>2, <3>3
         DEF Sound, Paced, Placed, Dated, Looked, Seen, IsMotors, Waiting, At
  <2>3. CASE ~GivesUp(c)
    <3>1. Goto(c, "sleep") /\ Clock(c, age[c], Pause(c), "none") /\ Pending(c)
      BY <1>5, <2>3 DEF KeepWaiting
    <3>2. /\ pc'[c] = "sleep" /\ result'[c] = "none"
          /\ age'[c] = age[c] /\ left'[c] = Pause(c)
      BY <1>1, <3>1 DEF Clock, Goto, TypeOK
    <3>3. ~IsMotors(c) => age[c] < Timeout
      BY <1>2, <2>3 DEF GivesUp, IsMotors
    <3>4. Seen(c)' /\ Dated(c)'
      BY <1>1, <2>1, <3>2 DEF Seen, Dated, Sound, IsMotors, Waiting, At
    <3>5. Paced(c)'
      BY <1>1, <1>2, <2>1, <3>2, <3>3, PauseType DEF Paced, IsMotors, Waiting, At
    <3>6. Looked(c)'
      BY <1>1, <1>2, <2>1, <3>1, <3>2, PauseType DEF Looked, IsMotors, At
    <3> QED BY <3>2, <3>4, <3>5, <3>6 DEF Sound, Placed
  <2> QED BY <2>2, <2>3
<1>6. CASE EndWait(c)
  <2>1. At(c, "answer") /\ ~Pending(c)
    BY <1>6 DEF EndWait
  <2>2. CASE ~Succeeds(c)
    BY <1>3, <1>6, <2>2 DEF EndWait
  <2>3. CASE Succeeds(c) /\ job[c].kind = "program"
    <3>1. Goto(c, "program") /\ Clock(c, 0, 0, "none")
      BY <1>6, <2>3 DEF EndWait
    <3>2. pc'[c] = "program" /\ result'[c] = "none" /\ age'[c] = 0 /\ left'[c] = 0
      BY <1>1, <3>1 DEF Clock, Goto, TypeOK
    <3> QED
      BY <1>1, <1>2, <2>3, <3>2
         DEF Sound, Paced, Placed, Dated, Looked, Seen, IsMotors, Waiting, At
  <2>4. CASE Succeeds(c) /\ job[c].kind # "program"
    <3>1. Stop(c, "ok")
      BY <1>6, <2>4 DEF EndWait
    <3>2. /\ pc'[c] = "end" /\ result'[c] = "ok"
          /\ age'[c] = 0 /\ left'[c] = 0
      BY <3>1 DEF Sets, TypeOK
    <3>3. job[c].kind = "backup" => operation[c] = "good"
      BY <2>1, <2>4 DEF Succeeds, Sound, Seen, IsMotors
    <3> QED
      BY <1>1, <1>2, <3>2, <3>3
         DEF Sound, Paced, Placed, Dated, Looked, Seen, IsMotors, Waiting, At
  <2> QED BY <2>2, <2>3, <2>4
<1>7. CASE WakeUp(c)
  <2>1. CASE left[c] = 0 /\ Goto(c, "poll") /\ UNCHANGED clock
    <3>1. pc'[c] = "poll" /\ result'[c] = "none"
      BY <1>1, <2>1 DEF Goto, TypeOK
    <3> QED
      BY <1>1, <1>2, <1>7, <2>1, <3>1
         DEF WakeUp, clock, Sound, Paced, Placed, Dated, Looked, Seen, IsMotors, Waiting, At
  <2> QED BY <1>3, <1>7, <2>1 DEF WakeUp
<1> QED BY <1>4, <1>5, <1>6, <1>7

-----------------------------------------------------------------------------
(* The invariant, through the controller and the passing of time.          *)

\* The end of an operation: the history takes the time of each wait it
\* concerns, which is not before the last look.
LEMMA OperationKeeps ==
  ASSUME IInv, NEW c \in Clients, OperationEnds(c)
  PROVE  IInv'
<1>1. TypeOK /\ UNCHANGED <<trips, job, pc, age, left, answer, result>>
  BY DEF IInv, OperationEnds, clock
<1>2. PICK end \in {"good", "bad", "failed"} :
          /\ operation' = [operation EXCEPT ![c] = end]
          /\ task' = (task \/ (job[c].kind = "program" /\ end = "good"))
          /\ motors' = IF job[c].kind = "motors" /\ end = "good"
                       THEN job[c].target ELSE motors
  BY DEF OperationEnds
<1>3. motors' \in Motors \cup Unsafe
  <2>1. CASE job[c].kind = "motors" /\ end = "good"
    BY <1>1, <1>2, <2>1, Asked
  <2> QED BY <1>1, <1>2, <2>1 DEF TypeOK
<1>4. TypeOK'
  <2>1. \A d \in Clients : Since(d) \in Ages
    BY <1>1, Times DEF Since, TypeOK
  <2>2. since' \in [Clients -> Ages]
    BY <1>1, <2>1 DEF OperationEnds, TypeOK
  <2>3. operation' \in [Clients -> Operations] /\ task' \in BOOLEAN
    BY <1>1, <1>2 DEF TypeOK, Operations
  <2> QED BY <1>1, <1>3, <2>2, <2>3 DEF TypeOK
<1>5. ASSUME NEW d \in Clients PROVE Sound(d)'
  <2>1. /\ pc'[d] = pc[d] /\ age'[d] = age[d] /\ left'[d] = left[d]
        /\ answer'[d] = answer[d] /\ result'[d] = result[d] /\ job' = job
        /\ operation[c] = "pending"
        /\ operation'[d] = IF d = c THEN end ELSE operation[d]
        /\ Sound(d) /\ Sound(c)
    BY <1>1, <1>2 DEF IInv, OperationEnds, TypeOK
  <2>2. /\ ~Waiting(d) => since'[d] = since[d]
        /\ since'[d] \in {since[d], Never, age[d]}
        /\ ~IsMotors(d) /\ d # c => since'[d] = since[d]
        /\ IsMotors(d) /\ motors' = motors /\ d # c => since'[d] = since[d]
        /\ Waiting(d) /\ IsMotors(d) /\ (d = c \/ motors' # motors)
              /\ motors' # job[d].target => since'[d] = Never
    BY DEF OperationEnds, Since, IsMotors
  <2>3. /\ since[d] \in Nat /\ age[d] \in Nat /\ left[d] \in Nat
        /\ Timeout \in Nat /\ Poll \in Nat /\ Latency \in Nat
        /\ Never = Timeout + Poll + 2 * Latency + 1
    BY <1>1, Times DEF TypeOK, Ages
  <2>4. Paced(d)' /\ Placed(d)'
    BY <2>1, <2>2 DEF Sound, Paced, Placed, Waiting, At, IsMotors
  <2>5. Dated(d)' /\ Seen(d)'
    BY <2>1, <2>2 DEF Sound, Dated, Seen, Waiting, At, IsMotors
  <2>6. Looked(d)'
    <3>1. At(d, "answer") /\ Unfinished(d) => since'[d] + Latency >= age[d] + left[d]
      BY <2>1, <2>2, <2>3 DEF Sound, Looked, Paced
    <3>2. pc[d] \in {"poll", "sleep"} /\ IsMotors(d) =>
             since'[d] + Latency + Poll >= age[d] + left[d]
      BY <2>1, <2>2, <2>3 DEF Sound, Looked, Paced, At
    <3>3. result[d] = "timeout" => ~Waiting(d)
      BY <2>1 DEF Sound, Placed, Waiting, At
    <3> QED
      BY <2>1, <2>2, <3>1, <3>2, <3>3
         DEF Sound, Looked, Unfinished, At, IsMotors
  <2> QED BY <2>4, <2>5, <2>6 DEF Sound
<1> QED BY <1>4, <1>5 DEF IInv

\* A safety stop takes back what the motors had reached.
LEMMA TripKeeps ==
  ASSUME IInv, MotorsTrip
  PROVE  IInv'
<1>1. TypeOK /\ UNCHANGED <<task, operation, job, pc, age, left, answer, result>>
  BY DEF IInv, MotorsTrip, clock
<1>2. TypeOK'
  <2>1. trips' \in 0..MaxTrips
    BY <1>1, TimeAssumption DEF MotorsTrip, TypeOK
  <2>2. since' \in [Clients -> Ages] /\ motors' \in Motors \cup Unsafe
    BY <1>1, Times DEF MotorsTrip, TypeOK, Unsafe
  <2> QED BY <1>1, <2>1, <2>2 DEF TypeOK
<1>3. ASSUME NEW d \in Clients PROVE Sound(d)'
  <2>1. since'[d] = IF Waiting(d) /\ IsMotors(d) THEN Never ELSE since[d]
    BY DEF MotorsTrip, IsMotors
  <2>2. Sound(d)
    BY DEF IInv
  <2>3. /\ since[d] \in Nat /\ age[d] \in Nat /\ left[d] \in Nat
        /\ Timeout \in Nat /\ Poll \in Nat /\ Latency \in Nat
        /\ Never = Timeout + Poll + 2 * Latency + 1
    BY <1>1, Times DEF TypeOK, Ages
  <2>4. Paced(d)' /\ Placed(d)' /\ Dated(d)' /\ Seen(d)'
    BY <1>1, <2>1, <2>2
       DEF Sound, Paced, Placed, Dated, Seen, Waiting, At, IsMotors
  <2>5. Looked(d)'
    BY <1>1, <2>1, <2>2, <2>3
       DEF Sound, Paced, Placed, Looked, Unfinished, Waiting, At, IsMotors
  <2> QED BY <2>4, <2>5 DEF Sound
<1> QED BY <1>2, <1>3 DEF IInv

\* Time passes for a sleep or an answer that still has some left.
LEMMA TickKeeps ==
  ASSUME IInv, Tick
  PROVE  IInv'
<1>1. TypeOK /\ UNCHANGED <<motors, task, operation, trips, since, job, pc, answer, result>>
  BY DEF IInv, Tick, controller
<1>2. ASSUME NEW d \in Clients
      PROVE  /\ age'[d] \in Ages /\ left'[d] \in Ages
             /\ Sound(d)'
  <2>1. /\ age'[d] = IF Waiting(d) THEN age[d] + 1 ELSE age[d]
        /\ left'[d] = IF Waiting(d) THEN left[d] - 1 ELSE left[d]
        /\ Waiting(d) => pc[d] \in {"answer", "sleep"} /\ left[d] > 0
    BY DEF Tick, Waiting, At
  <2>2. Sound(d)
    BY DEF IInv
  <2>3. /\ since[d] \in Nat /\ age[d] \in Nat /\ left[d] \in Nat
        /\ Timeout \in Nat /\ Poll \in Nat /\ Latency \in Nat
        /\ Never = Timeout + Poll + 2 * Latency + 1
    BY <1>1, Times DEF TypeOK, Ages
  <2>4. age'[d] + left'[d] = age[d] + left[d] /\ left'[d] <= left[d]
    BY <2>1, <2>3
  <2>5. Paced(d)'
    BY <1>1, <2>1, <2>2, <2>3, <2>4 DEF Sound, Paced, Waiting, At, IsMotors
  <2>6. Placed(d)' /\ Dated(d)' /\ Seen(d)' /\ Looked(d)'
    BY <1>1, <2>1, <2>2, <2>4
       DEF Sound, Placed, Dated, Seen, Looked, Unfinished, Waiting, At, IsMotors
  <2>7. age'[d] \in Ages /\ left'[d] \in Ages
    <3>1. CASE ~Waiting(d)
      BY <1>1, <2>1, <3>1 DEF TypeOK
    <3>2. CASE Waiting(d)
      <4>1. age[d] + left[d] <= Timeout + Latency + Poll
        BY <2>1, <2>2, <2>3, <3>2 DEF Sound, Paced, At
      <4> QED BY <2>1, <2>3, <3>2, <4>1, Times
    <3> QED BY <3>1, <3>2
  <2> QED BY <2>2, <2>5, <2>6, <2>7 DEF Sound
<1>3. age' \in [Clients -> Ages] /\ left' \in [Clients -> Ages]
  BY <1>2 DEF Tick
<1> QED BY <1>1, <1>2, <1>3 DEF IInv, TypeOK

-----------------------------------------------------------------------------
(* The theorems.                                                           *)

\* The invariant that the properties follow from.
THEOREM SoundAlways == Spec => []IInv
<1>1. Init => IInv
  <2> SUFFICES ASSUME Init PROVE IInv
    OBVIOUS
  <2>1. TypeOK
    <3>1. pc \in [Clients -> PCs]
      <4>1. \A c \in Clients : job[c].kind \in {"backup", "program", "motors"}
        BY JobsAssumption DEF Init
      <4> QED BY <4>1 DEF Init, Start, PCs
    <3>2. 0 \in Ages /\ Never \in Ages
      BY Times
    <3> QED BY <3>1, <3>2, TimeAssumption DEF Init, TypeOK, Operations, Results
  <2>2. ASSUME NEW c \in Clients PROVE Sound(c)
    <3>1. /\ age[c] = 0 /\ left[c] = 0 /\ since[c] = Never /\ operation[c] = "none"
          /\ result[c] = "none" /\ pc[c] = Start(job[c].kind)
      BY DEF Init
    <3>2. pc[c] \in {"status", "load", "before"}
          /\ (pc[c] = "status" => job[c].kind = "backup")
          /\ (pc[c] = "load" => job[c].kind = "program")
          /\ (pc[c] = "before" => job[c].kind = "motors")
      BY <2>1, <3>1, Asked DEF Start
    <3> QED
      BY <3>1, <3>2
         DEF Sound, Paced, Placed, Dated, Looked, Seen, IsMotors, Waiting, At
  <2> QED BY <2>1, <2>2 DEF IInv
<1>2. IInv /\ [Next]_vars => IInv'
  <2> SUFFICES ASSUME IInv, [Next]_vars PROVE IInv'
    OBVIOUS
  <2>1. ASSUME NEW c \in Clients, Step(c) PROVE IInv'
    <3>1. TypeOK' /\ \A d \in Clients : d # c => Sound(d)'
      BY <2>1, StepMoves, StepLeavesOthers DEF IInv
    <3>2. Sound(c)'
      BY <2>1, EarlyKeeps, WaitKeeps DEF IInv, Step
    <3> QED BY <3>1, <3>2 DEF IInv
  <2>2. CASE UNCHANGED vars
    BY <2>2
       DEF vars, controller, clock, IInv, TypeOK, Sound, Paced, Placed, Dated, Looked,
           Seen, Unfinished, IsMotors, Waiting, At
  <2> QED BY <2>1, <2>2, OperationKeeps, TripKeeps, TickKeeps DEF Next
<1> QED BY <1>1, <1>2, PTL DEF Spec

\* The state of the waiting commands stays within its types; in particular no
\* clock runs past Never.
THEOREM TypeCorrect == Spec => []TypeOK
<1>1. IInv => TypeOK
  BY DEF IInv
<1> QED BY <1>1, SoundAlways, PTL

\* A backup is reported as created only if its own operation has come to a
\* good end.
THEOREM SuccessIsCompleteHolds == Spec => []SuccessIsComplete
<1>1. IInv => SuccessIsComplete
  BY DEF IInv, Sound, Seen, SuccessIsComplete
<1> QED BY <1>1, SoundAlways, PTL

\* For any deadline, interval and latency, what came about before the last
\* look at the controller is not reported as a timeout.
THEOREM InTimeIsReportedHolds == Spec => []InTimeIsReported
<1>1. IInv => InTimeIsReported
  <2> SUFFICES ASSUME IInv, NEW c \in Clients, result[c] = "timeout"
               PROVE  since[c] >= Timeout - Latency
                                    - (IF job[c].kind = "motors" THEN Poll ELSE 0)
    BY DEF InTimeIsReported
  <2>1. since[c] \in Nat /\ Timeout \in Nat /\ Poll \in Nat /\ Latency \in Nat
    BY Times DEF IInv, TypeOK, Ages
  <2>2. since[c] + Latency + (IF IsMotors(c) THEN Poll ELSE 0) >= Timeout
    BY DEF IInv, Sound, Looked
  <2> QED BY <2>1, <2>2 DEF IsMotors
<1> QED BY <1>1, SoundAlways, PTL

\* A wait is over one request after its deadline, that for the motors a
\* request and an interval after it.
THEOREM WaitIsBoundedHolds == Spec => []WaitIsBounded
<1>1. IInv => WaitIsBounded
  <2> SUFFICES ASSUME IInv, NEW c \in Clients, Waiting(c)
               PROVE  age[c] <= Timeout + Latency
                                  + (IF job[c].kind = "motors" THEN Poll ELSE 0)
    BY DEF WaitIsBounded
  <2>1. /\ age[c] \in Nat /\ left[c] \in Nat
        /\ Timeout \in Nat /\ Poll \in Nat /\ Latency \in Nat
    BY Times DEF IInv, TypeOK, Ages
  <2>2. Paced(c)
    BY DEF IInv, Sound
  <2> QED BY <2>1, <2>2 DEF Paced, Waiting, At, IsMotors
<1> QED BY <1>1, SoundAlways, PTL
=============================================================================

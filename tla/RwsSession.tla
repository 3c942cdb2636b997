---------------------------- MODULE RwsSession ----------------------------
(***************************************************************************)
(* The HTTP session of one command (RwsClient, rws/client.py): requests    *)
(* follow each other at least an interval apart, the first one that is     *)
(* answered brings a session cookie, and the client logs out at the end,   *)
(* whatever became of the command.  The controller's pool of sessions is   *)
(* finite: a request without a cookie is refused when there is no room.    *)
(*                                                                         *)
(* What the command asks for is left to the module that extends this one:  *)
(* it has one action per request, built from Request and Leave.            *)
(***************************************************************************)
EXTENDS Naturals, RwsRequest

CONSTANTS Invocations,   \* invocations of the program
          Interval       \* ticks between two requests of one client

ASSUME IntervalAssumption == Interval \in Nat \ {0}

Tasks == {"command", "logout", "ended"}
Phases == {"throttle", "sleep", "request"}

VARIABLES
    task,      \* what each invocation is at
    phase,     \* the part of a request it is at
    nap,       \* ticks its sleep still lasts at least
    age,       \* ticks since _last_request_at, Interval at most
    gap,       \* history: ticks since it last passed the throttle, likewise
    exc,       \* the exception in flight
    cookie,    \* the invocations whose client holds the session cookie
    pool,      \* controller: the invocations it keeps a session for
    excused    \* history: the invocations that cannot have closed theirs

clocks == <<nap, age, gap>>
session == <<cookie, pool, excused>>
clientVars == <<task, phase, clocks, exc, session>>

SessionTypeOK ==
    /\ task \in [Invocations -> Tasks]
    /\ phase \in [Invocations -> Phases]
    /\ {nap, age, gap} \subseteq [Invocations -> 0..Interval]
    /\ exc \in [Invocations -> Exceptions]
    /\ {cookie, pool, excused} \subseteq SUBSET Invocations

\* The clocks start at Interval: there is no request to stay clear of yet.
SessionInit ==
    /\ task = [i \in Invocations |-> "command"]
    /\ phase = [i \in Invocations |-> "throttle"]
    /\ nap = [i \in Invocations |-> 0]
    /\ age = [i \in Invocations |-> Interval]
    /\ gap = [i \in Invocations |-> Interval]
    /\ exc = [i \in Invocations |-> "none"]
    /\ cookie = {} /\ pool = {} /\ excused = {}

At(i, t, p) == task[i] = t /\ phase[i] = p

-----------------------------------------------------------------------------
(* _throttle.                                                              *)

\* A faulty variant of Stamp: the clock is not read again after the sleep.
StampEarly(i) == age

\* _last_request_at is the time at which the throttle is passed.
Stamp(i) == [age EXCEPT ![i] = 0]

Pass(i) ==
    /\ phase' = [phase EXCEPT ![i] = "request"]
    /\ age' = Stamp(i)
    /\ gap' = [gap EXCEPT ![i] = 0]

Throttle(i) ==
    /\ phase[i] = "throttle"
    /\ task[i] # "ended"
    /\ \/ age[i] = Interval /\ Pass(i) /\ UNCHANGED nap
       \/ /\ age[i] < Interval
          /\ nap' = [nap EXCEPT ![i] = Interval - age[i]]
          /\ phase' = [phase EXCEPT ![i] = "sleep"]
          /\ UNCHANGED <<age, gap>>
    /\ UNCHANGED <<task, exc, session>>

\* A sleep may last longer than asked for, never shorter.
Wake(i) ==
    /\ phase[i] = "sleep"
    /\ task[i] # "ended"
    /\ nap[i] = 0
    /\ Pass(i)
    /\ UNCHANGED <<task, nap, exc, session>>

\* Time passes for every client.
Later(t) == IF t < Interval THEN t + 1 ELSE t

Tick ==
    /\ nap' = [i \in Invocations |-> IF nap[i] > 0 THEN nap[i] - 1 ELSE 0]
    /\ age' = [i \in Invocations |-> Later(age[i])]
    /\ gap' = [i \in Invocations |-> Later(gap[i])]
    /\ clocks' # clocks
    /\ UNCHANGED <<task, phase, exc, session>>

-----------------------------------------------------------------------------
(* A request, and the end of the command.                                  *)

\* A request with outcome o, "failed" when the pool is full.  The cookie comes
\* with the head of the answer, so that a client may hold it although the
\* answer was lost.
Request(i, o) ==
    /\ phase[i] = "request"
    /\ pool' = IF Applied(o) THEN pool \cup {i} ELSE pool
    /\ \/ /\ Applied(o)
          /\ cookie' = cookie \cup {i}
          /\ UNCHANGED excused
       \/ /\ o # "done"
          /\ UNCHANGED cookie
          /\ excused' = IF Applied(o) /\ i \notin cookie THEN excused \cup {i} ELSE excused

\* A faulty variant of AfterCommand: only a command that succeeds logs out.
AfterSuccess(e) == IF e = "none" THEN "logout" ELSE "ended"

\* __exit__ closes the client whatever the command raised.
AfterCommand(e) == "logout"

\* The command ends, with exception e or a value.
Leave(i, e) ==
    /\ task' = [task EXCEPT ![i] = AfterCommand(e)]
    /\ phase' = [phase EXCEPT ![i] = "throttle"]
    /\ exc' = [exc EXCEPT ![i] = e]

\* Ctrl-C during a sleep ends the command, or the logout; no time is stamped.
InterruptSleep(i) ==
    /\ phase[i] = "sleep"
    /\ \/ task[i] = "command" /\ Leave(i, "interrupt") /\ UNCHANGED session
       \/ /\ task[i] = "logout"
          /\ task' = [task EXCEPT ![i] = "ended"]
          /\ exc' = [exc EXCEPT ![i] = "interrupt"]
          /\ excused' = excused \cup {i}
          /\ UNCHANGED <<phase, cookie, pool>>
    /\ nap' = [nap EXCEPT ![i] = 0]
    /\ UNCHANGED <<age, gap>>

\* close: an error of the logout is swallowed, an interrupt is not.  Without
\* the cookie the controller cannot tell which session to close.
Logout(i) ==
    /\ At(i, "logout", "request")
    /\ \E o \in Outcomes :
          /\ exc' = [exc EXCEPT ![i] = IF Raised(o) = "interrupt" THEN "interrupt" ELSE @]
          /\ IF Applied(o) /\ i \in cookie
             THEN pool' = pool \ {i} /\ UNCHANGED excused
             ELSE excused' = excused \cup {i} /\ UNCHANGED pool
    /\ task' = [task EXCEPT ![i] = "ended"]
    /\ cookie' = cookie \ {i}
    /\ UNCHANGED <<phase, clocks>>

\* The process is killed; none of its clean-up runs.
Kill(i) ==
    /\ task[i] # "ended"
    /\ task' = [task EXCEPT ![i] = "ended"]
    /\ exc' = [exc EXCEPT ![i] = "interrupt"]
    /\ cookie' = cookie \ {i}
    /\ excused' = excused \cup {i}
    /\ UNCHANGED <<phase, clocks, pool>>

-----------------------------------------------------------------------------
(* Properties.                                                             *)

Passes(i) == phase[i] # "request" /\ phase'[i] = "request"

\* Two requests of one client leave at least the interval apart, the logout
\* and a request that follows an interrupted sleep included.  (_throttle and
\* its callers; docs/architecture.md: "the documented request-rate limit".)
RequestsSpaced ==
    [][\A i \in Invocations : Passes(i) => gap[i] = Interval]_clientVars

\* A command that has ended keeps no session on the controller, however it
\* ended, unless the answer that opened the session was lost, the logout did
\* not get through, or the process was killed.  (close: "Releasing the
\* server-side session avoids exhausting the controller's finite session
\* pool".)
NoSessionLeft ==
    \A i \in Invocations : task[i] = "ended" /\ i \in pool => i \in excused
=============================================================================

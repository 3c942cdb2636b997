---------------------------- MODULE WriteAccess ----------------------------
(***************************************************************************)
(* What the write-access lifecycle promises to the operations it protects: *)
(* a lock the controller grants to a station.  A client is inside while    *)
(* its operation may run, that is, while write_access has yielded.  Nobody *)
(* can be kept from leaving, the lock is let go only when no client of its *)
(* station is inside, and the one thing that breaks the promise is the     *)
(* local operator, who may take the lock away.                             *)
(*                                                                         *)
(* ControlStation implements this module; RapidEdit and Deploy rest on     *)
(* Exclusion.                                                              *)
(***************************************************************************)

CONSTANTS Clients,     \* invocations that need the lock
          StationOf,   \* the station each one asks for
          Pendant,     \* the local operator's station
          NoStation    \* nobody holds the lock

Stations == {StationOf[c] : c \in Clients}

VARIABLES
    holder,   \* the station that holds the lock
    inside,   \* the clients whose operation may run
    revoked   \* the operator has taken the lock away before

vars == <<holder, inside, revoked>>

Init ==
    /\ holder = NoStation
    /\ inside = {}
    /\ revoked = FALSE

Grant(c) ==
    /\ holder = NoStation
    /\ holder' = StationOf[c]
    /\ UNCHANGED <<inside, revoked>>

Enter(c) ==
    /\ holder = StationOf[c]
    /\ inside' = inside \cup {c}
    /\ UNCHANGED <<holder, revoked>>

\* The operation may end the lock itself: a restart of the controller.
Leave(c) ==
    /\ c \in inside
    /\ inside' = inside \ {c}
    /\ holder' \in IF holder = StationOf[c] THEN {holder, NoStation} ELSE {holder}
    /\ UNCHANGED revoked

\* Released by its holder, or taken back from a holder that is gone.
LetGo ==
    /\ holder \in Stations
    /\ \A c \in inside : StationOf[c] # holder
    /\ holder' = NoStation
    /\ UNCHANGED <<inside, revoked>>

PendantMoves ==
    /\ holder \in {Pendant, NoStation}
    /\ holder' \in {Pendant, NoStation}
    /\ UNCHANGED <<inside, revoked>>

Revoke ==
    /\ holder \in Stations
    /\ holder' = Pendant
    /\ revoked' = TRUE
    /\ UNCHANGED inside

Next ==
    \/ \E c \in Clients : Grant(c) \/ Enter(c) \/ Leave(c)
    \/ LetGo
    \/ PendantMoves
    \/ Revoke

Spec == Init /\ [][Next]_vars

-----------------------------------------------------------------------------

\* Every client has a station of its own, which is not the pendant's.
OwnStations ==
    /\ Pendant \notin Stations /\ NoStation \notin Stations
    /\ \A c, d \in Clients : StationOf[c] = StationOf[d] => c = d

\* Until the operator intervenes, a client is inside alone, under its own
\* lock.  (This is what `Exclusive` stands for in RapidEdit and Deploy.)
Exclusion ==
    ~revoked => /\ \A c \in inside : holder = StationOf[c]
                /\ \A c, d \in inside : c = d
=============================================================================

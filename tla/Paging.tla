------------------------------ MODULE Paging ------------------------------
(***************************************************************************)
(* The paged lists: CFG instances and I/O signals, which advance by the    *)
(* page size (cfg.py list_instances, io.py list_signals), and breakpoints  *)
(* and build errors, which advance by what the page held (rapid_debug.py   *)
(* list_breakpoints, rapid.py get_build_errors).  A reader follows the     *)
(* pages until one has no next link, every page is a request of its        *)
(* session (RwsSession), and other clients change the list meanwhile.      *)
(***************************************************************************)
EXTENDS RwsSession, Sequences, SequencesExt

CONSTANTS Own,          \* entries of the type that is asked for
          Foreign,      \* entries of another type, which a reader skips
          PageSize,     \* the limit a reader sends
          MaxLength,    \* bound: how many entries the list ever holds
          MaxChanges    \* bound: how often the list changes

ASSUME PageAssumption == PageSize \in Nat \ {0}
ASSUME ChangesAssumption == MaxChanges \in Nat
ASSUME LengthAssumption == MaxLength \in Nat

\* "offset": list_instances, list_signals.  "length": list_breakpoints,
\* get_build_errors.
Kinds == {"offset", "length"}

Entries == Own \cup Foreign

VARIABLES
    kind,      \* which of the two ways each reader advances in
    list,      \* controller: the list that is read
    changes,   \* how often it has changed
    pos,       \* how many entries come before the next page, by the reader's count
    got,       \* the entries it has collected
    shown,     \* history: the list as it was for the last page of each reader
    shifted    \* history: readers whose pos is not where their last page ended

reader == <<pos, got, shown>>
vars == <<clientVars, kind, list, changes, reader, shifted>>

\* A list holds every entry once at most.
Lists == {s \in SeqOf(Entries, MaxLength) : IsInjective(s)}

TypeOK ==
    /\ SessionTypeOK
    /\ kind \in [Invocations -> Kinds]
    /\ list \in Seq(Entries) /\ IsInjective(list) /\ Len(list) <= MaxLength
    /\ changes \in 0..MaxChanges
    /\ pos \in [Invocations -> Nat]
    /\ got \in [Invocations -> Seq(Own)]
    /\ shown \in [Invocations -> Seq(Entries)]
    /\ shifted \in SUBSET Invocations

Init ==
    /\ SessionInit
    /\ kind \in [Invocations -> Kinds]
    /\ list \in Lists
    /\ changes = 0
    /\ pos = [i \in Invocations |-> 0]
    /\ got = [i \in Invocations |-> <<>>]
    /\ shown = [i \in Invocations |-> <<>>]
    /\ shifted = {}

-----------------------------------------------------------------------------
(* One page.                                                               *)

AtMost(n, limit) == IF n < limit THEN n ELSE limit

\* What the controller can send from the entries `rest` after pos: how many,
\* and whether it links to a next page.  No page without a link leaves entries
\* behind, and nothing else is taken for granted, whichever list it is: a page
\* may be short or empty, and its link may lead past the end.
Pages(rest) ==
    {p \in [size : 0..AtMost(rest, PageSize), next : BOOLEAN] :
        p.size < rest => p.next}

Rest(i) == IF pos[i] < Len(list) THEN Len(list) - pos[i] ELSE 0

\* What a reader makes of a page: its entries of the type, in order.  (This is
\* SelectSeq, written as a function over its beginnings, about which there are
\* proofs.)
OfType(s) ==
    LET own[n \in 0..Len(s)] ==
            IF n = 0 THEN <<>>
            ELSE IF s[n] \in Own THEN Append(own[n - 1], s[n]) ELSE own[n - 1]
    IN  own[Len(s)]

\* A faulty variant of Advance: every list advances by what the page held.
AdvanceByLength(i, own) == pos[i] + Len(own)

\* Where the next page starts.  (No list reaches beyond MaxLength, where the
\* count of a reader that is led past the end is left.)
Advance(i, own) ==
    IF kind[i] = "offset" THEN AtMost(pos[i] + PageSize, MaxLength)
    ELSE pos[i] + Len(own)

\* The next page of an offset list is not the one after a short page, nor that
\* of the others the one after foreign entries.
Skips(i, page, own) ==
    IF kind[i] = "offset" THEN page.size < AtMost(Rest(i), PageSize)
    ELSE Len(own) # page.size

\* A faulty variant of Stuck: an empty page is followed like any other.
NeverStuck(i, own) == FALSE

\* "next link did not advance".
Stuck(i, own) == kind[i] = "length" /\ own = <<>>

\* A page that was answered is parsed, and then the next link is looked at.
ReadPage(i) ==
    /\ At(i, "command", "request")
    /\ Request(i, "done")
    /\ \E page \in Pages(Rest(i)) :
          LET own == OfType(SubSeq(list, pos[i] + 1, pos[i] + page.size))
          IN  /\ got' = [got EXCEPT ![i] = @ \o own]
              /\ shown' = [shown EXCEPT ![i] = list]
              /\ IF ~page.next THEN Leave(i, "none") /\ UNCHANGED <<pos, shifted>>
                 ELSE IF Stuck(i, own) THEN Leave(i, "error") /\ UNCHANGED <<pos, shifted>>
                 ELSE /\ pos' = [pos EXCEPT ![i] = Advance(i, own)]
                      /\ shifted' = IF Skips(i, page, own) THEN shifted \cup {i}
                                    ELSE shifted
                      /\ phase' = [phase EXCEPT ![i] = "throttle"]
                      /\ UNCHANGED <<task, exc>>
    /\ UNCHANGED <<clocks, kind, list, changes>>

\* A page that is refused, lost, malformed or interrupted ends the command.
LosePage(i) ==
    /\ At(i, "command", "request")
    /\ \E o \in Outcomes \ {"done"} : Request(i, o) /\ Leave(i, Raised(o))
    /\ UNCHANGED <<clocks, kind, list, changes, reader, shifted>>

-----------------------------------------------------------------------------
(* Other clients, with any of the list's operations.                       *)

\* Readers that have the entry at k behind them.
Past(k) == {i \in Invocations : k <= pos[i]}

\* cfg create, rapid breakpoint set: a new entry becomes the k-th.
AddEntry ==
    /\ changes < MaxChanges /\ Len(list) < MaxLength
    /\ \E e \in Entries \ ToSet(list), k \in 1..Len(list) + 1 :
          /\ list' = InsertAt(list, k, e)
          /\ shifted' = shifted \cup Past(k)
    /\ changes' = changes + 1
    /\ UNCHANGED <<clientVars, kind, reader>>

\* cfg delete, rapid breakpoint clear: of one entry, or of all.
DropEntry ==
    /\ changes < MaxChanges
    /\ \/ \E k \in 1..Len(list) : list' = RemoveAt(list, k) /\ shifted' = shifted \cup Past(k)
       \/ list # <<>> /\ list' = <<>> /\ shifted' = shifted \cup Past(1)
    /\ changes' = changes + 1
    /\ UNCHANGED <<clientVars, kind, reader>>

-----------------------------------------------------------------------------
SessionStep(i) ==
    /\ Throttle(i) \/ Wake(i) \/ InterruptSleep(i) \/ Logout(i)
    /\ UNCHANGED <<kind, list, changes, reader, shifted>>

Step(i) == SessionStep(i) \/ ReadPage(i) \/ LosePage(i)

Death(i) == Kill(i) /\ UNCHANGED <<kind, list, changes, reader, shifted>>

TimePasses == Tick /\ UNCHANGED <<kind, list, changes, reader, shifted>>

Next ==
    \/ \E i \in Invocations : Step(i) \/ Death(i)
    \/ TimePasses \/ AddEntry \/ DropEntry

\* A command is not suspended for ever, its requests time out, and time passes.
Fairness == WF_vars(TimePasses) /\ \A i \in Invocations : WF_vars(Step(i))

Spec == Init /\ [][Next]_vars /\ Fairness

-----------------------------------------------------------------------------
(* Properties.                                                             *)

\* The command has been given the list.
Listed(i) == task[i] # "command" /\ exc[i] = "none"

\* A reader that returns has every entry of the type once and in order, as
\* the list was for its last page, unless an entry it had already passed came
\* or went, a list that advances by length held foreign entries, or a page of
\* one that advances by the limit was shorter than that.
\* (list_instances, list_signals, list_breakpoints, get_build_errors;
\* tests/test_cfg.py: test_lists_all_instance_pages.)
ListedIsTheList ==
    \A i \in Invocations : Listed(i) /\ i \notin shifted => got[i] = OfType(shown[i])

\* Led past the end of a list that it reads by the limit.
Misled(i) == kind[i] = "offset" /\ pos[i] >= Len(list)

\* Every reader ends, whatever the list and its next links do, but one: a
\* reader of instances or signals, who does not check that the next link
\* advanced, goes on as long as the controller links on past the end.
EveryReadEnds ==
    \A i \in Invocations : <>(task[i] = "ended") \/ <>[]Misled(i)
=============================================================================

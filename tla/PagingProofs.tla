--------------------------- MODULE PagingProofs ---------------------------
(***************************************************************************)
(* The session of a paged list, for any interval, page size and number of  *)
(* invocations: its requests keep their distance, and it is closed.  And   *)
(* what a list read in pages amounts to, for lists of any length.          *)
(***************************************************************************)
EXTENDS Paging, SequenceTheorems, WellFoundedInduction, TLAPS

\* The requests of a reader leave its clocks alone, and either keep its place
\* or end the command.
LEMMA RequestSteps ==
  ASSUME NEW i \in Invocations, ReadPage(i) \/ LosePage(i)
  PROVE  /\ At(i, "command", "request")
         /\ UNCHANGED clocks
         /\ \E o \in Outcomes : Request(i, o)
         /\ \/ /\ phase' = [phase EXCEPT ![i] = "throttle"]
               /\ UNCHANGED <<task, exc>>
            \/ \E e \in Exceptions : Leave(i, e)
<1>1. CASE ReadPage(i)
  <2>1. At(i, "command", "request") /\ UNCHANGED clocks /\ Request(i, "done")
    BY <1>1 DEF ReadPage
  <2>2. "done" \in Outcomes /\ {"none", "error"} \subseteq Exceptions
    BY DEF Outcomes, Exceptions
  <2>3. \/ /\ phase' = [phase EXCEPT ![i] = "throttle"]
           /\ UNCHANGED <<task, exc>>
        \/ Leave(i, "none") \/ Leave(i, "error")
    BY <1>1 DEF ReadPage
  <2> QED BY <2>1, <2>2, <2>3
<1>2. CASE LosePage(i)
  <2>1. PICK o \in Outcomes \ {"done"} : Request(i, o) /\ Leave(i, Raised(o))
    BY <1>2 DEF LosePage
  <2>2. Raised(o) \in Exceptions
    BY DEF Raised, Exceptions
  <2> QED BY <1>2, <2>1, <2>2 DEF LosePage
<1> QED BY <1>1, <1>2

-----------------------------------------------------------------------------
(* Types.                                                                  *)

\* The state of the session stays within its types.
LEMMA SessionTypeStep ==
  ASSUME SessionTypeOK, [Next]_vars
  PROVE  SessionTypeOK'
<1> USE IntervalAssumption
<1>1. ASSUME NEW i \in Invocations, Throttle(i)
      PROVE  SessionTypeOK'
  BY <1>1 DEF Throttle, Pass, Stamp, SessionTypeOK, Phases, session
<1>2. ASSUME NEW i \in Invocations, Wake(i)
      PROVE  SessionTypeOK'
  BY <1>2 DEF Wake, Pass, Stamp, SessionTypeOK, Phases, session
<1>3. ASSUME NEW i \in Invocations, InterruptSleep(i)
      PROVE  SessionTypeOK'
  BY <1>3 DEF InterruptSleep, Leave, AfterCommand, SessionTypeOK, Phases, Tasks,
              Exceptions, session
<1>4. ASSUME NEW i \in Invocations, Logout(i)
      PROVE  SessionTypeOK'
  BY <1>4 DEF Logout, SessionTypeOK, Tasks, Exceptions, clocks
<1>5. ASSUME NEW i \in Invocations, ReadPage(i) \/ LosePage(i)
      PROVE  SessionTypeOK'
  <2>1. PICK o \in Outcomes : Request(i, o)
    BY <1>5, RequestSteps
  <2>2. {cookie', pool', excused'} \subseteq SUBSET Invocations
    BY <2>1 DEF Request, SessionTypeOK
  <2>3. /\ task' \in [Invocations -> Tasks]
        /\ phase' \in [Invocations -> Phases]
        /\ exc' \in [Invocations -> Exceptions]
    BY <1>5, RequestSteps DEF Leave, AfterCommand, SessionTypeOK, Tasks, Phases
  <2>4. UNCHANGED clocks
    BY <1>5, RequestSteps
  <2> QED BY <2>2, <2>3, <2>4 DEF SessionTypeOK, clocks
<1>6. ASSUME NEW i \in Invocations, Kill(i)
      PROVE  SessionTypeOK'
  BY <1>6 DEF Kill, SessionTypeOK, Tasks, Exceptions, clocks
<1>7. CASE Tick
  <2>1. \A t \in 0..Interval : Later(t) \in 0..Interval
    BY DEF Later
  <2>2. /\ nap' \in [Invocations -> 0..Interval]
        /\ age' \in [Invocations -> 0..Interval]
        /\ gap' \in [Invocations -> 0..Interval]
    BY <1>7, <2>1 DEF Tick, SessionTypeOK
  <2> QED BY <1>7, <2>2 DEF Tick, SessionTypeOK, session
<1>8. CASE UNCHANGED clientVars
  BY <1>8 DEF clientVars, SessionTypeOK, clocks, session
<1> QED
  BY <1>1, <1>2, <1>3, <1>4, <1>5, <1>6, <1>7, <1>8
     DEF Next, Step, SessionStep, Death, TimePasses, AddEntry, DropEntry, vars

\* The session is within its types, whatever the command reads.
THEOREM SessionTypeCorrect == Spec => []SessionTypeOK
<1>1. Init => SessionTypeOK
  BY IntervalAssumption
     DEF Init, SessionInit, SessionTypeOK, Tasks, Phases, Exceptions
<1>2. SessionTypeOK /\ [Next]_vars => SessionTypeOK'
  BY SessionTypeStep
<1> QED BY <1>1, <1>2, PTL DEF Spec

-----------------------------------------------------------------------------
(* The distance of the requests.                                           *)

\* The time that is stamped is the one at which the throttle was passed, and a
\* sleeper still lacks at most what is left of its sleep.
Measured ==
    /\ gap = age
    /\ \A i \in Invocations :
          phase[i] = "sleep" /\ task[i] # "ended" => nap[i] + age[i] >= Interval

\* Measured is inductive.
LEMMA MeasuredStep ==
  ASSUME SessionTypeOK, Measured, [Next]_vars
  PROVE  Measured'
<1> USE IntervalAssumption
<1>1. ASSUME NEW i \in Invocations, Throttle(i)
      PROVE  Measured'
  BY <1>1 DEF Throttle, Pass, Stamp, SessionTypeOK, Measured
<1>2. ASSUME NEW i \in Invocations, Wake(i)
      PROVE  Measured'
  BY <1>2 DEF Wake, Pass, Stamp, SessionTypeOK, Measured
<1>3. ASSUME NEW i \in Invocations, InterruptSleep(i)
      PROVE  Measured'
  BY <1>3 DEF InterruptSleep, Leave, AfterCommand, SessionTypeOK, Measured
<1>4. ASSUME NEW i \in Invocations, Logout(i) \/ Kill(i)
      PROVE  Measured'
  BY <1>4 DEF Logout, Kill, SessionTypeOK, Measured, clocks
<1>5. ASSUME NEW i \in Invocations, ReadPage(i) \/ LosePage(i)
      PROVE  Measured'
  BY <1>5, RequestSteps DEF Leave, AfterCommand, SessionTypeOK, Measured, clocks
<1>6. CASE Tick
  <2>1. gap' = age'
    BY <1>6 DEF Tick, Measured
  <2>2. ASSUME NEW i \in Invocations, phase'[i] = "sleep", task'[i] # "ended"
        PROVE  nap'[i] + age'[i] >= Interval
    <3>1. nap[i] + age[i] >= Interval
      BY <1>6, <2>2 DEF Tick, Measured
    <3>2. nap[i] \in 0..Interval /\ age[i] \in 0..Interval
      BY DEF SessionTypeOK
    <3>3. /\ nap'[i] = IF nap[i] > 0 THEN nap[i] - 1 ELSE 0
          /\ age'[i] = IF age[i] < Interval THEN age[i] + 1 ELSE age[i]
      BY <1>6 DEF Tick, Later
    <3> QED BY <3>1, <3>2, <3>3
  <2> QED BY <2>1, <2>2 DEF Measured
<1>7. CASE UNCHANGED clientVars
  BY <1>7 DEF clientVars, Measured, clocks
<1> QED
  BY <1>1, <1>2, <1>3, <1>4, <1>5, <1>6, <1>7
     DEF Next, Step, SessionStep, Death, TimePasses, AddEntry, DropEntry, vars

\* Only Throttle and Wake pass the throttle.
LEMMA WhoPasses ==
  ASSUME SessionTypeOK, Next, NEW i \in Invocations, Passes(i)
  PROVE  Throttle(i) \/ Wake(i)
<1>1. ASSUME NEW j \in Invocations, Throttle(j) \/ Wake(j)
      PROVE  i = j
  BY <1>1 DEF Throttle, Wake, Pass, Passes, SessionTypeOK
<1>2. ASSUME NEW j \in Invocations, InterruptSleep(j) \/ Logout(j) \/ Kill(j)
      PROVE  FALSE
  BY <1>2 DEF InterruptSleep, Logout, Kill, Leave, Passes, SessionTypeOK
<1>3. ASSUME NEW j \in Invocations, ReadPage(j) \/ LosePage(j)
      PROVE  FALSE
  BY <1>3, RequestSteps DEF Leave, Passes, SessionTypeOK
<1>4. CASE UNCHANGED phase
  BY <1>4 DEF Passes
<1> QED
  BY <1>1, <1>2, <1>3, <1>4
     DEF Next, Step, SessionStep, Death, TimePasses, Tick, AddEntry, DropEntry,
         clientVars

\* Two requests of one client, the logout included, pass the throttle at least
\* the interval apart, for any interval and any oversleeping.
THEOREM RequestsSpacedHolds == Spec => RequestsSpaced
<1>1. Init => Measured
  BY DEF Init, SessionInit, Measured
<1>2. SessionTypeOK /\ Measured /\ [Next]_vars => Measured'
  BY MeasuredStep
<1>3. SessionTypeOK /\ Measured /\ [Next]_vars =>
        [\A i \in Invocations : Passes(i) => gap[i] = Interval]_clientVars
  <2> SUFFICES ASSUME SessionTypeOK, Measured, Next,
                      NEW i \in Invocations, Passes(i)
               PROVE  gap[i] = Interval
    BY DEF vars
  <2>1. nap[i] \in 0..Interval /\ age[i] \in 0..Interval /\ gap[i] = age[i]
    BY DEF SessionTypeOK, Measured
  <2>2. CASE Throttle(i)
    BY <2>1, <2>2, IntervalAssumption DEF Throttle, Passes, SessionTypeOK
  <2>3. CASE Wake(i)
    <3>1. nap[i] = 0 /\ nap[i] + age[i] >= Interval
      BY <2>3 DEF Wake, Measured
    <3> QED BY <2>1, <3>1, IntervalAssumption
  <2> QED BY <2>2, <2>3, WhoPasses
<1> QED BY <1>1, <1>2, <1>3, SessionTypeCorrect, PTL DEF Spec, RequestsSpaced

-----------------------------------------------------------------------------
(* The session on the controller.                                          *)

\* A session that can still be closed belongs to a client that knows it and
\* that has not ended.
Closable ==
    \A i \in Invocations :
        i \in pool /\ i \notin excused => i \in cookie /\ task[i] # "ended"

\* Closable is inductive.
LEMMA ClosableStep ==
  ASSUME SessionTypeOK, Closable, [Next]_vars
  PROVE  Closable'
<1>1. ASSUME NEW i \in Invocations, Throttle(i) \/ Wake(i)
      PROVE  Closable'
  BY <1>1 DEF Throttle, Wake, session, Closable
<1>2. ASSUME NEW i \in Invocations, InterruptSleep(i)
      PROVE  Closable'
  BY <1>2 DEF InterruptSleep, Leave, AfterCommand, session, SessionTypeOK, Closable
<1>3. ASSUME NEW i \in Invocations, Logout(i)
      PROVE  Closable'
  BY <1>3 DEF Logout, SessionTypeOK, Closable
<1>4. ASSUME NEW i \in Invocations, Kill(i)
      PROVE  Closable'
  BY <1>4 DEF Kill, SessionTypeOK, Closable
<1>5. ASSUME NEW i \in Invocations, ReadPage(i) \/ LosePage(i)
      PROVE  Closable'
  <2>1. PICK o \in Outcomes : Request(i, o)
    BY <1>5, RequestSteps
  <2>2. \A j \in Invocations : task'[j] = "ended" => task[j] = "ended"
    BY <1>5, RequestSteps DEF Leave, AfterCommand, SessionTypeOK
  <2>3. task[i] # "ended"
    BY <1>5, RequestSteps DEF At
  <2>4. \A j \in Invocations :
           j \in pool' /\ j \notin excused' => j \in cookie' /\ task[j] # "ended"
    BY <2>1, <2>3 DEF Request, Applied, Closable
  <2> QED BY <2>2, <2>4 DEF Closable
<1>6. CASE UNCHANGED <<task, session>>
  BY <1>6 DEF session, Closable
<1> QED
  BY <1>1, <1>2, <1>3, <1>4, <1>5, <1>6
     DEF Next, Step, SessionStep, Death, TimePasses, Tick, AddEntry, DropEntry,
         clientVars, vars

\* A command that ended keeps no session on the controller, unless it could
\* not know or could not reach it.
THEOREM NoSessionLeftHolds == Spec => []NoSessionLeft
<1>1. Init => Closable
  BY DEF Init, SessionInit, Closable
<1>2. SessionTypeOK /\ Closable /\ [Next]_vars => Closable'
  BY ClosableStep
<1>3. Closable => NoSessionLeft
  BY DEF Closable, NoSessionLeft
<1> QED BY <1>1, <1>2, <1>3, SessionTypeCorrect, PTL DEF Spec

-----------------------------------------------------------------------------
(* Induction.  The library's theorems that take an operator cannot be used *)
(* here; these take a set instead, and rest on well-foundedness alone.     *)

\* A set with 0 and every successor has all numbers.
LEMMA Induct ==
  ASSUME NEW S, 0 \in S, \A n \in Nat : n \in S => n + 1 \in S
  PROVE  Nat \subseteq S
<1> DEFINE T == Nat \ S
<1> SUFFICES ASSUME T # {} PROVE FALSE
  OBVIOUS
<1>1. \E x \in T : \A y \in T : ~ (<<y, x>> \in OpToRel(<,Nat))
  <2> HIDE DEF T
  <2>1. T \subseteq Nat
    BY DEF T
  <2> QED BY NatLessThanWellFounded, WFMin, <2>1, Zenon
<1>2. PICK x \in T : \A y \in T : ~ (<<y, x>> \in OpToRel(<,Nat))
  BY <1>1
<1>3. x # 0 /\ x \in Nat
  OBVIOUS
<1>4. x - 1 \in Nat /\ x - 1 < x /\ (x - 1) + 1 = x
  BY <1>3
<1>5. x - 1 \in S
  BY <1>2, <1>4, <1>3 DEF OpToRel
<1>6. x \in S
  BY <1>5, <1>4
<1> QED BY <1>6

\* A set with the empty sequence and every longer one has all sequences.
LEMMA SeqInduct ==
  ASSUME NEW E, NEW S, <<>> \in S,
         \A s \in Seq(E), e \in E : s \in S => Append(s, e) \in S
  PROVE  Seq(E) \subseteq S
<1> DEFINE N == {n \in Nat : \A s \in Seq(E) : Len(s) = n => s \in S}
<1>1. 0 \in N
  <2>1. \A s \in Seq(E) : Len(s) = 0 => s = <<>>
    BY EmptySeq
  <2> QED BY <2>1
<1>2. ASSUME NEW n \in Nat, n \in N PROVE n + 1 \in N
  <2> SUFFICES ASSUME NEW s \in Seq(E), Len(s) = n + 1 PROVE s \in S
    OBVIOUS
  <2>1. s # <<>>
    BY EmptySeq
  <2>2. PICK t \in Seq(E), e \in E : s = Append(t, e)
    BY <2>1, SequenceEmptyOrAppend
  <2>3. Len(t) = n
    BY <2>2, AppendProperties, LenProperties
  <2> QED BY <1>2, <2>2, <2>3
<1>3. Nat \subseteq N
  <2> HIDE DEF N
  <2> QED BY <1>1, <1>2, Induct
<1> QED BY <1>3, LenProperties

-----------------------------------------------------------------------------
(* What a reader makes of a page, as its recursion says.                   *)

\* g gives what comes of each beginning of s.
Collects(g, s) ==
    g = [n \in 0..Len(s) |->
            IF n = 0 THEN <<>>
            ELSE IF s[n] \in Own THEN Append(g[n - 1], s[n]) ELSE g[n - 1]]

\* There is such a function, whatever the length of the list.
LEMMA CollectsExists ==
  ASSUME NEW s \in Seq(Entries)
  PROVE  \E g : Collects(g, s)
<1> DEFINE S == {t \in Seq(Entries) : \E g : Collects(g, t)}
<1>1. <<>> \in S
  <2>1. Collects([n \in 0..0 |-> <<>>], <<>>)
    BY DEF Collects
  <2> QED BY <2>1
<1>2. ASSUME NEW u \in Seq(Entries), NEW e \in Entries, u \in S PROVE Append(u, e) \in S
  <2>1. PICK t : t = Append(u, e)
    OBVIOUS
  <2>2. PICK m : m = Len(u)
    OBVIOUS
  <2>3. /\ t \in Seq(Entries) /\ Len(t) = m + 1 /\ m \in Nat
        /\ \A k \in 1..m : t[k] = u[k]
    BY <2>1, <2>2, AppendProperties
  <2>4. PICK g : Collects(g, u)
    BY <1>2
  <2> DEFINE last == IF t[m + 1] \in Own THEN Append(g[m], t[m + 1]) ELSE g[m]
             h == [n \in 0..m + 1 |-> IF n <= m THEN g[n] ELSE last]
  <2>5. \A n \in 0..m : g[n] = IF n = 0 THEN <<>>
                               ELSE IF t[n] \in Own THEN Append(g[n - 1], t[n]) ELSE g[n - 1]
    <3>1. \A n \in 0..m : g[n] = IF n = 0 THEN <<>>
                                 ELSE IF u[n] \in Own THEN Append(g[n - 1], u[n]) ELSE g[n - 1]
      BY <2>2, <2>4 DEF Collects
    <3>2. \A n \in 0..m : n # 0 => n \in 1..m
      BY <2>3
    <3> QED BY <2>3, <3>1, <3>2
  <2>6. \A n \in 0..m + 1 :
           h[n] = IF n = 0 THEN <<>>
                  ELSE IF t[n] \in Own THEN Append(h[n - 1], t[n]) ELSE h[n - 1]
    <3> SUFFICES ASSUME NEW n \in 0..m + 1
                 PROVE  h[n] = IF n = 0 THEN <<>>
                               ELSE IF t[n] \in Own THEN Append(h[n - 1], t[n]) ELSE h[n - 1]
      OBVIOUS
    <3>1. CASE n <= m
      <4>1. n # 0 => n - 1 \in 0..m /\ n - 1 <= m
        BY <2>3, <3>1
      <4> QED BY <2>3, <2>5, <3>1, <4>1
    <3>2. CASE n = m + 1
      <4>1. h[n] = last /\ h[n - 1] = g[m] /\ n # 0
        BY <2>3, <3>2
      <4> QED BY <3>2, <4>1
    <3> QED BY <2>3, <3>1, <3>2
  <2>7. h = [n \in 0..m + 1 |->
               IF n = 0 THEN <<>>
               ELSE IF t[n] \in Own THEN Append(h[n - 1], t[n]) ELSE h[n - 1]]
    <3>1. h = [n \in 0..m + 1 |-> h[n]]
      OBVIOUS
    <3> HIDE DEF h
    <3> QED BY <2>6, <3>1
  <2>8. Collects(h, t)
    BY <2>3, <2>7 DEF Collects
  <2> HIDE DEF h
  <2> QED BY <2>1, <2>3, <2>8
<1>3. Seq(Entries) \subseteq S
  <2> HIDE DEF S
  <2> QED BY <1>1, <1>2, SeqInduct
<1> QED BY <1>3

\* What comes of the first n entries depends on them alone.
LEMMA CollectsPrefix ==
  ASSUME NEW s \in Seq(Entries), NEW t \in Seq(Entries), Len(s) <= Len(t),
         \A k \in 1..Len(s) : s[k] = t[k],
         NEW g, Collects(g, s), NEW h, Collects(h, t)
  PROVE  \A n \in 0..Len(s) : g[n] = h[n]
<1> DEFINE S == {n \in Nat : n <= Len(s) => g[n] = h[n]}
<1>1. /\ \A n \in 0..Len(s) :
            g[n] = IF n = 0 THEN <<>>
                   ELSE IF s[n] \in Own THEN Append(g[n - 1], s[n]) ELSE g[n - 1]
      /\ \A n \in 0..Len(t) :
            h[n] = IF n = 0 THEN <<>>
                   ELSE IF t[n] \in Own THEN Append(h[n - 1], t[n]) ELSE h[n - 1]
  BY DEF Collects
<1>2. 0 \in S
  BY <1>1
<1>3. ASSUME NEW m \in Nat, m \in S PROVE m + 1 \in S
  <2> SUFFICES ASSUME m + 1 <= Len(s) PROVE g[m + 1] = h[m + 1]
    OBVIOUS
  <2>1. /\ g[m] = h[m] /\ s[m + 1] = t[m + 1]
        /\ m + 1 \in 0..Len(s) /\ m + 1 \in 0..Len(t) /\ m + 1 # 0 /\ (m + 1) - 1 = m
    BY <1>3
  <2> QED BY <1>1, <2>1
<1>4. Nat \subseteq S
  <2> HIDE DEF S
  <2> QED BY <1>2, <1>3, Induct
<1> QED BY <1>4

\* OfType is that function, of the whole list.
LEMMA OfTypeCollects ==
  ASSUME NEW s \in Seq(Entries), NEW g, Collects(g, s)
  PROVE  OfType(s) = g[Len(s)]
<1> DEFINE h == CHOOSE h : Collects(h, s)
<1>1. Collects(h, s)
  OBVIOUS
<1>2. OfType(s) = h[Len(s)]
  BY DEF OfType, Collects
<1> HIDE DEF h
<1>3. h[Len(s)] = g[Len(s)]
  BY <1>1, CollectsPrefix
<1> QED BY <1>2, <1>3

\* An entry of the type comes after what came of those before it.
LEMMA OfTypeAppend ==
  ASSUME NEW s \in Seq(Entries), NEW e \in Entries
  PROVE  OfType(Append(s, e)) = IF e \in Own THEN Append(OfType(s), e) ELSE OfType(s)
<1> DEFINE t == Append(s, e)
<1>1. /\ t \in Seq(Entries) /\ Len(t) = Len(s) + 1 /\ Len(s) \in Nat /\ t[Len(t)] = e
      /\ \A k \in 1..Len(s) : t[k] = s[k]
  BY AppendProperties
<1> HIDE DEF t
<1>2. PICK g : Collects(g, s)
  BY CollectsExists
<1>3. PICK h : Collects(h, t)
  BY <1>1, CollectsExists
<1>4. g[Len(s)] = h[Len(s)]
  BY <1>1, <1>2, <1>3, CollectsPrefix
<1>5. h[Len(t)] = IF e \in Own THEN Append(h[Len(s)], e) ELSE h[Len(s)]
  <2>1. Len(t) \in 0..Len(t) /\ Len(t) # 0 /\ Len(t) - 1 = Len(s)
    BY <1>1
  <2> QED BY <1>1, <1>3, <2>1 DEF Collects
<1>6. OfType(s) = g[Len(s)] /\ OfType(t) = h[Len(t)]
  BY <1>1, <1>2, <1>3, OfTypeCollects
<1> QED BY <1>4, <1>5, <1>6 DEF t

\* Nothing comes of nothing.
LEMMA OfTypeEmpty == OfType(<<>>) = <<>>
<1>1. <<>> \in Seq(Entries) /\ Len(<<>>) = 0
  OBVIOUS
<1>2. PICK g : Collects(g, <<>>)
  BY <1>1, CollectsExists
<1>3. g[0] = <<>>
  BY <1>1, <1>2 DEF Collects
<1> QED BY <1>1, <1>2, <1>3, OfTypeCollects

\* What comes of two parts of a list is what comes of the whole.
LEMMA OfTypeConcat ==
  ASSUME NEW s \in Seq(Entries), NEW t \in Seq(Entries)
  PROVE  OfType(t) \in Seq(Own) /\ OfType(s \o t) = OfType(s) \o OfType(t)
<1>1. \A u \in Seq(Entries) : OfType(u) \in Seq(Own)
  <2> DEFINE S == {u \in Seq(Entries) : OfType(u) \in Seq(Own)}
  <2>1. <<>> \in S
    BY OfTypeEmpty, EmptySeq
  <2>2. ASSUME NEW u \in Seq(Entries), NEW e \in Entries, u \in S PROVE Append(u, e) \in S
    <3>1. OfType(u) \in Seq(Own)
      BY <2>2
    <3>2. e \in Own => Append(OfType(u), e) \in Seq(Own)
      BY <3>1, AppendProperties
    <3>3. OfType(Append(u, e)) \in Seq(Own)
      BY <3>1, <3>2, OfTypeAppend
    <3> QED BY <3>3, AppendProperties
  <2>3. Seq(Entries) \subseteq S
    <3> HIDE DEF S
    <3> QED BY <2>1, <2>2, SeqInduct
  <2> QED BY <2>3
<1>2. \A u \in Seq(Entries) : OfType(s \o u) = OfType(s) \o OfType(u)
  <2> DEFINE S == {u \in Seq(Entries) : OfType(s \o u) = OfType(s) \o OfType(u)}
  <2>1. <<>> \in S
    BY <1>1, OfTypeEmpty, ConcatEmptySeq, EmptySeq
  <2>2. ASSUME NEW u \in Seq(Entries), NEW e \in Entries, u \in S PROVE Append(u, e) \in S
    <3>1. s \o Append(u, e) = Append(s \o u, e)
      <4>1. /\ Append(u, e) = u \o <<e>> /\ <<e>> \in Seq(Entries)
            /\ s \o u \in Seq(Entries) /\ Append(s \o u, e) = (s \o u) \o <<e>>
        BY AppendIsConcat, ConcatProperties
      <4> QED BY <4>1, ConcatAssociative
    <3>2. OfType(s \o u) = OfType(s) \o OfType(u) /\ s \o u \in Seq(Entries)
      BY <2>2, ConcatProperties
    <3>3. CASE e \in Own
      <4>1. /\ OfType(s \o Append(u, e)) = Append(OfType(s) \o OfType(u), e)
            /\ OfType(Append(u, e)) = Append(OfType(u), e)
        BY <3>1, <3>2, <3>3, OfTypeAppend
      <4>2. OfType(s) \in Seq(Own) /\ OfType(u) \in Seq(Own) /\ <<e>> \in Seq(Own)
        BY <1>1, <3>3
      <4>3. /\ OfType(s) \o OfType(u) \in Seq(Own)
            /\ Append(OfType(s) \o OfType(u), e) = (OfType(s) \o OfType(u)) \o <<e>>
            /\ Append(OfType(u), e) = OfType(u) \o <<e>>
        BY <3>3, <4>2, ConcatProperties, AppendIsConcat
      <4>4. (OfType(s) \o OfType(u)) \o <<e>> = OfType(s) \o (OfType(u) \o <<e>>)
        BY <4>2, ConcatAssociative
      <4> QED BY <4>1, <4>3, <4>4, AppendProperties
    <3>4. CASE e \notin Own
      <4>1. /\ OfType(s \o Append(u, e)) = OfType(s) \o OfType(u)
            /\ OfType(Append(u, e)) = OfType(u)
        BY <3>1, <3>2, <3>4, OfTypeAppend
      <4> QED BY <4>1, AppendProperties
    <3> QED BY <3>3, <3>4
  <2>3. Seq(Entries) \subseteq S
    <3> HIDE DEF S
    <3> QED BY <2>1, <2>2, SeqInduct
  <2> QED BY <2>3
<1> QED BY <1>1, <1>2

-----------------------------------------------------------------------------
(* The list, and the beginning of it that a reader has behind itself.      *)

Before(p) == SubSeq(list, 1, p)

\* A page adds what comes of it to what came of the pages before.
LEMMA PageAdds ==
  ASSUME list \in Seq(Entries), NEW p \in Nat, NEW n \in Nat, p + n <= Len(list)
  PROVE  LET sent == SubSeq(list, p + 1, p + n)
         IN  /\ sent \in Seq(Entries) /\ Len(sent) = n
             /\ OfType(sent) \in Seq(Own)
             /\ OfType(Before(p + n)) = OfType(Before(p)) \o OfType(sent)
<1>1. Len(list) \in Nat
  BY LenProperties
<1>2. Before(p) \in Seq(Entries)
  <2>1. \A k \in 1..p : list[k] \in Entries
    BY <1>1, ElementOfSeq
  <2> QED BY <2>1, SubSeqProperties DEF Before
<1>3. SubSeq(list, p + 1, p + n) \in Seq(Entries) /\ Len(SubSeq(list, p + 1, p + n)) = n
  <2>1. \A k \in p + 1..p + n : list[k] \in Entries
    BY <1>1, ElementOfSeq
  <2> QED BY <2>1, SubSeqProperties
<1>4. Before(p) \o SubSeq(list, p + 1, p + n) = Before(p + n)
  BY <1>1, ConcatAdjacentSubSeq DEF Before
<1> QED BY <1>2, <1>3, <1>4, OfTypeConcat

\* A change of the list behind its first p entries leaves them alone.
LEMMA InsertAtLeaves ==
  ASSUME list \in Seq(Entries), NEW e \in Entries, NEW k \in 1..Len(list) + 1
  PROVE  /\ InsertAt(list, k, e) \in Seq(Entries)
         /\ Len(InsertAt(list, k, e)) = Len(list) + 1
         /\ \A j \in 1..Len(list) + 1 :
               InsertAt(list, k, e)[j] =
                  IF j < k THEN list[j] ELSE IF j = k THEN e ELSE list[j - 1]
<1> DEFINE a == SubSeq(list, 1, k - 1)
           b == SubSeq(list, k, Len(list))
<1>1. Len(list) \in Nat /\ \A j \in 1..Len(list) : list[j] \in Entries
  BY LenProperties, ElementOfSeq
<1>2. /\ a \in Seq(Entries) /\ Len(a) = k - 1 /\ \A j \in 1..k - 1 : a[j] = list[j]
  BY <1>1, SubSeqProperties
<1>3. /\ b \in Seq(Entries) /\ Len(b) = Len(list) - k + 1
      /\ \A j \in 1..Len(list) - k + 1 : b[j] = list[k + j - 1]
  BY <1>1, SubSeqProperties
<1> HIDE DEF a, b
<1>4. <<e>> \in Seq(Entries) /\ Len(<<e>>) = 1 /\ <<e>>[1] = e
  OBVIOUS
<1>5. /\ a \o <<e>> \in Seq(Entries) /\ Len(a \o <<e>>) = k
      /\ \A j \in 1..k : (a \o <<e>>)[j] = IF j < k THEN list[j] ELSE e
  BY <1>2, <1>4, ConcatProperties
<1>6. /\ (a \o <<e>>) \o b \in Seq(Entries)
      /\ Len((a \o <<e>>) \o b) = Len(list) + 1
      /\ \A j \in 1..Len(list) + 1 :
            ((a \o <<e>>) \o b)[j] = IF j <= k THEN (a \o <<e>>)[j] ELSE b[j - k]
  <2> DEFINE c == a \o <<e>>
  <2>1. c \in Seq(Entries) /\ Len(c) = k
    BY <1>5
  <2> HIDE DEF c
  <2>2. /\ c \o b \in Seq(Entries) /\ Len(c \o b) = Len(c) + Len(b)
        /\ \A j \in 1..Len(c) + Len(b) : (c \o b)[j] = IF j <= Len(c) THEN c[j] ELSE b[j - Len(c)]
    BY <1>3, <2>1, ConcatProperties
  <2>3. Len(c) + Len(b) = Len(list) + 1
    BY <1>1, <1>3, <2>1
  <2>4. /\ c \o b \in Seq(Entries) /\ Len(c \o b) = Len(list) + 1
        /\ \A j \in 1..Len(list) + 1 : (c \o b)[j] = IF j <= k THEN c[j] ELSE b[j - k]
    BY <2>1, <2>2, <2>3
  <2> QED BY <2>4 DEF c
<1>7. InsertAt(list, k, e) = (a \o <<e>>) \o b
  BY DEF InsertAt, a, b
<1> QED BY <1>1, <1>3, <1>5, <1>6, <1>7

\* Likewise for an entry that goes.
LEMMA RemoveAtLeaves ==
  ASSUME list \in Seq(Entries), NEW k \in 1..Len(list)
  PROVE  /\ RemoveAt(list, k) \in Seq(Entries)
         /\ Len(RemoveAt(list, k)) = Len(list) - 1
         /\ \A j \in 1..Len(list) - 1 :
               RemoveAt(list, k)[j] = IF j < k THEN list[j] ELSE list[j + 1]
<1> DEFINE a == SubSeq(list, 1, k - 1)
           b == SubSeq(list, k + 1, Len(list))
<1>1. Len(list) \in Nat /\ \A j \in 1..Len(list) : list[j] \in Entries
  BY LenProperties, ElementOfSeq
<1>2. /\ a \in Seq(Entries) /\ Len(a) = k - 1 /\ \A j \in 1..k - 1 : a[j] = list[j]
  BY <1>1, SubSeqProperties
<1>3. /\ b \in Seq(Entries) /\ Len(b) = Len(list) - k
      /\ \A j \in 1..Len(list) - k : b[j] = list[k + j]
  BY <1>1, SubSeqProperties
<1> HIDE DEF a, b
<1>4. /\ a \o b \in Seq(Entries) /\ Len(a \o b) = Len(list) - 1
      /\ \A j \in 1..Len(list) - 1 : (a \o b)[j] = IF j <= k - 1 THEN a[j] ELSE b[j - (k - 1)]
  <2>1. /\ a \o b \in Seq(Entries) /\ Len(a \o b) = Len(a) + Len(b)
        /\ \A j \in 1..Len(a) + Len(b) : (a \o b)[j] = IF j <= Len(a) THEN a[j] ELSE b[j - Len(a)]
    BY <1>2, <1>3, ConcatProperties
  <2>2. Len(a) + Len(b) = Len(list) - 1
    BY <1>1, <1>2, <1>3
  <2> QED BY <1>2, <2>1, <2>2
<1>5. RemoveAt(list, k) = a \o b
  BY DEF RemoveAt, a, b
<1>6. ASSUME NEW j \in 1..Len(list) - 1
      PROVE  (a \o b)[j] = IF j < k THEN list[j] ELSE list[j + 1]
  <2>1. CASE j < k
    <3>1. j \in 1..k - 1 /\ j <= k - 1
      BY <1>1, <2>1
    <3> QED BY <1>2, <1>4, <2>1, <3>1
  <2>2. CASE ~(j < k)
    <3>1. j - (k - 1) \in 1..Len(list) - k /\ k + (j - (k - 1)) = j + 1 /\ ~(j <= k - 1)
      BY <1>1, <2>2
    <3>2. (a \o b)[j] = b[j - (k - 1)]
      BY <1>4, <3>1
    <3>3. b[j - (k - 1)] = list[k + (j - (k - 1))]
      BY <1>3, <3>1
    <3> QED BY <2>2, <3>1, <3>2, <3>3
  <2> QED BY <2>1, <2>2
<1> QED BY <1>4, <1>5, <1>6

-----------------------------------------------------------------------------
(* What a reader has collected.                                            *)

\* The entries it has passed: all of them, when it was led past the end.
Passed(i) == AtMost(pos[i], Len(list))

\* As long as nothing moved behind its back, what comes of the entries it has
\* passed; and when it is done, what comes of the list of its last page.
Read(i) ==
    i \notin shifted =>
       IF task[i] = "command" THEN got[i] = OfType(Before(Passed(i)))
       ELSE exc[i] = "none" => got[i] = OfType(shown[i])

\* The inductive invariant.
IInv == TypeOK /\ \A i \in Invocations : Read(i)

\* A page holds entries that are there, and the last one all that are left.
LEMMA PageSent ==
  ASSUME TypeOK, NEW i \in Invocations, NEW page \in Pages(Rest(i))
  PROVE  LET sent == SubSeq(list, pos[i] + 1, pos[i] + page.size)
         IN  /\ page.size \in Nat /\ page.next \in BOOLEAN
             /\ page.size <= Rest(i)
             /\ sent \in Seq(Entries) /\ Len(sent) = page.size
             /\ OfType(sent) \in Seq(Own)
             /\ ~page.next => page.size = Rest(i)
<1> DEFINE rest == Rest(i)
           full == AtMost(rest, PageSize)
<1>1. pos[i] \in Nat /\ Len(list) \in Nat /\ PageSize \in Nat \ {0}
  BY LenProperties, PageAssumption DEF TypeOK
<1>2. /\ rest \in Nat /\ full \in Nat /\ full <= rest
      /\ rest # 0 => pos[i] + rest = Len(list)
  BY <1>1 DEF Rest, AtMost
<1>3. /\ page.size \in 0..full /\ page.next \in BOOLEAN
      /\ ~page.next => page.size = rest
  <2>1. page \in {q \in [size : 0..full, next : BOOLEAN] : q.size < rest => q.next}
    BY DEF Pages
  <2> HIDE DEF full, rest
  <2> QED BY <1>2, <2>1
<1> HIDE DEF full, rest
<1>4. \A k \in pos[i] + 1..pos[i] + page.size : list[k] \in Entries
  <2> SUFFICES ASSUME NEW k \in pos[i] + 1..pos[i] + page.size PROVE k \in 1..Len(list)
    BY ElementOfSeq DEF TypeOK
  <2> QED BY <1>1, <1>2, <1>3
<1>5. LET sent == SubSeq(list, pos[i] + 1, pos[i] + page.size)
      IN  sent \in Seq(Entries) /\ Len(sent) = page.size
  BY <1>1, <1>2, <1>3, <1>4, SubSeqProperties
<1>6. OfType(SubSeq(list, pos[i] + 1, pos[i] + page.size)) \in Seq(Own)
  BY <1>5, OfTypeConcat
<1> QED BY <1>2, <1>3, <1>5, <1>6 DEF rest

\* The smaller of the two.
LEMMA AtMostIs ==
  \A n, m \in Nat : /\ AtMost(n, m) \in Nat
                    /\ n <= m => AtMost(n, m) = n
                    /\ ~(n <= m) => AtMost(n, m) = m
  BY DEF AtMost

\* What a page holds comes to what comes before the page, in the list or past
\* its end.
LEMMA PagePasses ==
  ASSUME TypeOK, NEW i \in Invocations, i \notin shifted, task[i] = "command", Read(i),
         NEW page \in Pages(Rest(i))
  PROVE  got[i] \o OfType(SubSeq(list, pos[i] + 1, pos[i] + page.size))
            = OfType(Before(AtMost(pos[i] + page.size, Len(list))))
<1> DEFINE sent == SubSeq(list, pos[i] + 1, pos[i] + page.size)
<1>1. /\ pos[i] \in Nat /\ Len(list) \in Nat /\ list \in Seq(Entries) /\ got[i] \in Seq(Own)
      /\ got[i] = OfType(Before(AtMost(pos[i], Len(list))))
  BY LenProperties DEF TypeOK, Read, Passed
<1>2. /\ page.size \in Nat /\ page.size <= Rest(i)
      /\ sent \in Seq(Entries) /\ Len(sent) = page.size
  BY PageSent
<1> HIDE DEF sent
<1>3. CASE pos[i] <= Len(list)
  <2>1. pos[i] + page.size <= Len(list)
    <3>1. Rest(i) = Len(list) - pos[i]
      BY <1>1, <1>3 DEF Rest
    <3> QED BY <1>1, <1>2, <1>3, <3>1
  <2>2. /\ AtMost(pos[i], Len(list)) = pos[i]
        /\ AtMost(pos[i] + page.size, Len(list)) = pos[i] + page.size
    <3>1. pos[i] + page.size \in Nat
      BY <1>1, <1>2
    <3> QED BY <1>1, <1>3, <2>1, <3>1, AtMostIs
  <2>3. OfType(Before(pos[i] + page.size)) = OfType(Before(pos[i])) \o OfType(sent)
    BY <1>1, <1>2, <2>1, PageAdds DEF sent
  <2> QED BY <1>1, <2>2, <2>3 DEF sent
<1>4. CASE ~(pos[i] <= Len(list))
  <2>1. page.size = 0
    <3>1. Rest(i) = 0
      BY <1>1, <1>4 DEF Rest
    <3> QED BY <1>2, <3>1
  <2>2. /\ AtMost(pos[i], Len(list)) = Len(list)
        /\ AtMost(pos[i] + page.size, Len(list)) = Len(list)
    BY <1>1, <1>4, <2>1 DEF AtMost
  <2>3. OfType(sent) = <<>>
    BY <1>2, <2>1, EmptySeq, OfTypeEmpty
  <2>4. got[i] \o <<>> = got[i]
    BY <1>1, ConcatEmptySeq
  <2> QED BY <1>1, <2>2, <2>3, <2>4 DEF sent
<1> QED BY <1>3, <1>4

\* A page that is not short leaves no entries between it and the next one.
LEMMA NextPlace ==
  ASSUME NEW p \in Nat, NEW len \in Nat, len <= MaxLength,
         NEW n, n = AtMost(IF p < len THEN len - p ELSE 0, PageSize)
  PROVE  AtMost(AtMost(p + PageSize, MaxLength), len) = AtMost(p + n, len)
<1> USE PageAssumption, LengthAssumption DEF AtMost
<1>1. CASE ~(p < len)
  OBVIOUS
<1>2. CASE p < len /\ len - p < PageSize
  <2>1. n = len - p /\ p + n = len
    BY <1>2
  <2>2. AtMost(p + PageSize, MaxLength) >= len /\ AtMost(p + PageSize, MaxLength) \in Nat
    BY <1>2
  <2> QED BY <2>1, <2>2
<1>3. CASE p < len /\ ~(len - p < PageSize)
  <2>1. n = PageSize /\ p + PageSize <= len
    BY <1>3
  <2> QED BY <2>1
<1> QED BY <1>1, <1>2, <1>3

\* A page read: the reader's own part.
LEMMA ReadPageKeeps ==
  ASSUME TypeOK, NEW i \in Invocations, Read(i), ReadPage(i)
  PROVE  /\ pos' \in [Invocations -> Nat]
         /\ got' \in [Invocations -> Seq(Own)]
         /\ shown' \in [Invocations -> Seq(Entries)]
         /\ shifted' \subseteq Invocations
         /\ Read(i)'
         /\ \A d \in Invocations : d # i =>
               /\ task'[d] = task[d] /\ exc'[d] = exc[d] /\ pos'[d] = pos[d]
               /\ got'[d] = got[d] /\ shown'[d] = shown[d]
               /\ (d \in shifted') = (d \in shifted)
<1>1. /\ TypeOK /\ SessionTypeOK /\ task[i] = "command" /\ UNCHANGED <<kind, list, changes>>
  BY DEF ReadPage, At, TypeOK
<1>2. PICK page \in Pages(Rest(i)) :
        LET own == OfType(SubSeq(list, pos[i] + 1, pos[i] + page.size))
        IN  /\ got' = [got EXCEPT ![i] = @ \o own]
            /\ shown' = [shown EXCEPT ![i] = list]
            /\ IF ~page.next THEN Leave(i, "none") /\ UNCHANGED <<pos, shifted>>
               ELSE IF Stuck(i, own) THEN Leave(i, "error") /\ UNCHANGED <<pos, shifted>>
               ELSE /\ pos' = [pos EXCEPT ![i] = Advance(i, own)]
                    /\ shifted' = IF Skips(i, page, own) THEN shifted \cup {i}
                                  ELSE shifted
                    /\ phase' = [phase EXCEPT ![i] = "throttle"]
                    /\ UNCHANGED <<task, exc>>
  BY DEF ReadPage
<1> DEFINE own == OfType(SubSeq(list, pos[i] + 1, pos[i] + page.size))
<1>3. /\ page.size \in Nat /\ page.next \in BOOLEAN
      /\ page.size <= Rest(i) /\ own \in Seq(Own)
      /\ ~page.next => page.size = Rest(i)
  BY PageSent
<1>4. /\ got' = [got EXCEPT ![i] = got[i] \o own]
      /\ shown' = [shown EXCEPT ![i] = list]
      /\ \/ ~page.next /\ Leave(i, "none") /\ UNCHANGED <<pos, shifted>>
         \/ Leave(i, "error") /\ UNCHANGED <<pos, shifted>>
         \/ /\ page.next
            /\ pos' = [pos EXCEPT ![i] = Advance(i, own)]
            /\ shifted' = IF Skips(i, page, own) THEN shifted \cup {i} ELSE shifted
            /\ UNCHANGED <<task, exc>>
  BY <1>2
<1>5. i \notin shifted =>
        got[i] \o own = OfType(Before(AtMost(pos[i] + page.size, Len(list))))
  BY <1>1, PagePasses
<1> HIDE DEF own
<1>6. pos[i] \in Nat /\ Len(list) \in Nat /\ list \in Seq(Entries) /\ got[i] \in Seq(Own)
      /\ Len(own) \in Nat /\ PageSize \in Nat /\ kind[i] \in {"offset", "length"}
  BY <1>3, LenProperties, PageAssumption DEF TypeOK, Kinds
<1>7. got[i] \o own \in Seq(Own) /\ Advance(i, own) \in Nat
  BY <1>3, <1>6, LengthAssumption, ConcatProperties DEF Advance, AtMost
<1>8. /\ pos' \in [Invocations -> Nat]
      /\ got' \in [Invocations -> Seq(Own)]
      /\ shown' \in [Invocations -> Seq(Entries)]
      /\ shifted' \subseteq Invocations
      /\ got'[i] = got[i] \o own /\ shown'[i] = list
  BY <1>4, <1>6, <1>7 DEF TypeOK
<1>9. \A d \in Invocations : d # i =>
         /\ task'[d] = task[d] /\ exc'[d] = exc[d] /\ pos'[d] = pos[d]
         /\ got'[d] = got[d] /\ shown'[d] = shown[d]
         /\ (d \in shifted') = (d \in shifted)
  BY <1>4 DEF Leave, TypeOK, SessionTypeOK
<1>10. Read(i)'
  <2>1. CASE ~page.next /\ Leave(i, "none") /\ UNCHANGED <<pos, shifted>>
    <3>1. task'[i] # "command" /\ exc'[i] = "none"
      BY <1>1, <2>1 DEF Leave, AfterCommand, SessionTypeOK
    <3>2. AtMost(pos[i] + page.size, Len(list)) = Len(list)
      BY <1>3, <1>6, <2>1 DEF Rest, AtMost
    <3>3. Before(Len(list)) = list
      BY <1>6, SubSeqFull DEF Before
    <3> QED BY <1>5, <1>8, <2>1, <3>1, <3>2, <3>3 DEF Read
  <2>2. CASE Leave(i, "error") /\ UNCHANGED <<pos, shifted>>
    BY <1>1, <2>2 DEF Leave, AfterCommand, SessionTypeOK, Read
  <2>3. CASE /\ page.next
             /\ pos' = [pos EXCEPT ![i] = Advance(i, own)]
             /\ shifted' = IF Skips(i, page, own) THEN shifted \cup {i} ELSE shifted
             /\ UNCHANGED <<task, exc>>
    <3>1. i \notin shifted' => i \notin shifted /\ ~Skips(i, page, own)
      BY <2>3
    <3>2. pos'[i] = Advance(i, own) /\ list' = list /\ task'[i] = "command"
      BY <1>1, <2>3 DEF TypeOK
    <3>3. ~Skips(i, page, own) =>
            AtMost(Advance(i, own), Len(list)) = AtMost(pos[i] + page.size, Len(list))
      <4>1. CASE kind[i] = "offset"
        <5>1. ~Skips(i, page, own) => page.size = AtMost(Rest(i), PageSize)
          <6>1. page.size <= AtMost(Rest(i), PageSize) /\ AtMost(Rest(i), PageSize) \in Nat
            BY <1>3, <1>6 DEF Pages, Rest, AtMost
          <6> QED BY <1>3, <4>1, <6>1 DEF Skips
        <5>2. Len(list) <= MaxLength
          BY DEF TypeOK
        <5> QED BY <1>6, <4>1, <5>1, <5>2, NextPlace DEF Rest, Advance
      <4>2. CASE kind[i] # "offset"
        BY <1>3, <1>6, <4>2 DEF Skips, Advance
      <4> QED BY <4>1, <4>2
    <3>4. i \notin shifted' => got'[i] = OfType(SubSeq(list', 1, AtMost(pos'[i], Len(list'))))
      BY <1>5, <1>8, <3>1, <3>2, <3>3 DEF Before
    <3> QED BY <3>2, <3>4 DEF Read, Before, Passed
  <2> QED BY <1>4, <2>1, <2>2, <2>3
<1> QED BY <1>8, <1>9, <1>10

\* Every other step of an invocation leaves what was read alone, and none
\* makes a success of a command that was not one.
LEMMA OthersKeep ==
  ASSUME IInv, NEW i \in Invocations, SessionStep(i) \/ LosePage(i) \/ Death(i)
  PROVE  /\ UNCHANGED <<kind, list, changes, reader, shifted>>
         /\ \A d \in Invocations : Read(d)'
<1>1. TypeOK /\ SessionTypeOK
  BY DEF IInv, TypeOK
<1>2. UNCHANGED <<kind, list, changes, reader, shifted>>
  BY DEF SessionStep, LosePage, Death
<1>3. ASSUME NEW d \in Invocations
      PROVE  /\ task'[d] = "command" => task[d] = "command"
             /\ task'[d] # "command" /\ exc'[d] = "none" =>
                  task[d] # "command" /\ exc[d] = "none"
  <2>1. CASE Throttle(i) \/ Wake(i)
    BY <2>1 DEF Throttle, Wake
  <2>2. CASE InterruptSleep(i)
    BY <1>1, <2>2 DEF InterruptSleep, Leave, AfterCommand, SessionTypeOK
  <2>3. CASE Logout(i)
    BY <1>1, <2>3 DEF Logout, At, SessionTypeOK
  <2>4. CASE Kill(i)
    BY <1>1, <2>4 DEF Kill, SessionTypeOK
  <2>5. CASE LosePage(i)
    <3>1. PICK o \in Outcomes \ {"done"} : Leave(i, Raised(o))
      BY <2>5 DEF LosePage
    <3>2. Raised(o) # "none"
      BY DEF Raised, Outcomes
    <3> QED BY <1>1, <3>1, <3>2 DEF Leave, AfterCommand, SessionTypeOK
  <2> QED BY <2>1, <2>2, <2>3, <2>4, <2>5 DEF SessionStep, Death
<1>4. ASSUME NEW d \in Invocations PROVE Read(d)'
  BY <1>2, <1>3 DEF IInv, Read, reader, Before, Passed
<1> QED BY <1>2, <1>4

\* The beginning of a list that changes behind it.
LEMMA BeforeSame ==
  ASSUME list \in Seq(Entries), list' \in Seq(Entries), NEW p \in Nat,
         p <= Len(list), p <= Len(list'), \A j \in 1..p : list'[j] = list[j]
  PROVE  SubSeq(list', 1, p) = Before(p)
<1>1. \A j \in 1..p : list[j] \in Entries /\ list'[j] \in Entries
  <2>1. Len(list) \in Nat
    BY LenProperties
  <2> QED BY <2>1, ElementOfSeq
<1>2. /\ SubSeq(list', 1, p) \in Seq(Entries) /\ SubSeq(list, 1, p) \in Seq(Entries)
      /\ Len(SubSeq(list', 1, p)) = p /\ Len(SubSeq(list, 1, p)) = p
      /\ \A j \in 1..p : SubSeq(list', 1, p)[j] = list'[j] /\ SubSeq(list, 1, p)[j] = list[j]
  BY <1>1, SubSeqProperties
<1> HIDE DEF Before
<1> QED BY <1>2, SeqEqual DEF Before

\* A change of the list is none for the readers that have yet to reach it.
LEMMA ChangeKeeps ==
  ASSUME IInv, AddEntry \/ DropEntry
  PROVE  IInv'
<1>1. /\ TypeOK /\ SessionTypeOK /\ changes' \in 0..MaxChanges
      /\ UNCHANGED <<task, phase, nap, age, gap, exc, cookie, pool, excused, kind, pos, got, shown>>
  BY ChangesAssumption
     DEF IInv, TypeOK, AddEntry, DropEntry, clientVars, clocks, session, reader
<1>2. PICK k \in Nat \ {0} :
         /\ list' \in Seq(Entries) /\ IsInjective(list')
         /\ shifted' = shifted \cup Past(k)
         /\ Len(list') <= MaxLength
         /\ k <= Len(list) + 1 /\ k <= Len(list') + 1
         /\ \A j \in 1..k - 1 : list'[j] = list[j]
  <2>1. /\ list \in Seq(Entries) /\ Len(list) \in Nat /\ Len(list) <= MaxLength /\ MaxLength \in Nat
        /\ \A a, b \in 1..Len(list) : list[a] = list[b] => a = b
    BY <1>1, LenProperties, LengthAssumption DEF TypeOK, IsInjective
  <2>2. CASE AddEntry
    <3>1. PICK e \in Entries \ ToSet(list), k \in 1..Len(list) + 1 :
             list' = InsertAt(list, k, e) /\ shifted' = shifted \cup Past(k)
      BY <2>2 DEF AddEntry
    <3>2. /\ list' \in Seq(Entries) /\ Len(list') = Len(list) + 1
          /\ \A j \in 1..Len(list) + 1 :
                list'[j] = IF j < k THEN list[j] ELSE IF j = k THEN e ELSE list[j - 1]
      BY <2>1, <3>1, InsertAtLeaves
    <3>3. \A j \in 1..Len(list) : list[j] # e
      BY <2>1, <3>1, LenProperties DEF ToSet
    <3>4. \A a, b \in 1..Len(list) + 1 : list'[a] = list'[b] => a = b
      <4> DEFINE Old(j) == IF j < k THEN j ELSE j - 1
      <4>1. \A j \in 1..Len(list) + 1 : j # k => Old(j) \in 1..Len(list) /\ list'[j] = list[Old(j)]
        BY <2>1, <3>2
      <4>2. list'[k] = e /\ \A j \in 1..Len(list) + 1 : j # k => list'[j] # e
        BY <3>2, <3>3, <4>1
      <4>3. \A a, b \in 1..Len(list) + 1 : a # k /\ b # k /\ Old(a) = Old(b) => a = b
        BY <2>1
      <4> HIDE DEF Old
      <4> QED BY <2>1, <4>1, <4>2, <4>3
    <3>5. IsInjective(list')
      BY <3>2, <3>4, LenProperties DEF IsInjective
    <3>6. Len(list') <= MaxLength
      <4>1. Len(list) < MaxLength
        BY <2>2 DEF AddEntry
      <4> QED BY <2>1, <3>2, <4>1
    <3> QED BY <2>1, <3>1, <3>2, <3>5, <3>6
  <2>3. ASSUME NEW k \in 1..Len(list),
               list' = RemoveAt(list, k), shifted' = shifted \cup Past(k)
        PROVE  /\ list' \in Seq(Entries) /\ IsInjective(list') /\ Len(list') <= MaxLength
               /\ k <= Len(list) + 1 /\ k <= Len(list') + 1
               /\ \A j \in 1..k - 1 : list'[j] = list[j]
    <3>1. /\ list' \in Seq(Entries) /\ Len(list') = Len(list) - 1
          /\ \A j \in 1..Len(list) - 1 :
                list'[j] = IF j < k THEN list[j] ELSE list[j + 1]
      BY <2>1, <2>3, RemoveAtLeaves
    <3>2. \A a, b \in 1..Len(list) - 1 : list'[a] = list'[b] => a = b
      BY <2>1, <3>1
    <3>3. IsInjective(list')
      BY <3>1, <3>2, LenProperties DEF IsInjective
    <3> QED BY <2>1, <3>1, <3>3
  <2>4. CASE list # <<>> /\ list' = <<>> /\ shifted' = shifted \cup Past(1)
    <3>1. list' \in Seq(Entries) /\ Len(list') = 0 /\ IsInjective(list')
      BY <2>4 DEF IsInjective
    <3> QED BY <2>1, <2>4, <3>1
  <2>5. CASE DropEntry
    <3>1. \/ \E k \in 1..Len(list) : list' = RemoveAt(list, k) /\ shifted' = shifted \cup Past(k)
          \/ list # <<>> /\ list' = <<>> /\ shifted' = shifted \cup Past(1)
      BY <2>5 DEF DropEntry
    <3>2. \A k \in 1..Len(list) : k \in Nat \ {0}
      BY <2>1
    <3> QED BY <2>3, <2>4, <3>1, <3>2
  <2> QED BY <2>2, <2>5
<1>3. ASSUME NEW d \in Invocations PROVE Read(d)'
  <2>1. d \notin shifted' => d \notin shifted /\ ~(k <= pos[d])
    BY <1>2 DEF Past
  <2>2. pos[d] \in Nat /\ list \in Seq(Entries) /\ Len(list) \in Nat /\ Len(list') \in Nat
    BY <1>1, <1>2, LenProperties DEF TypeOK
  <2>3. d \notin shifted' =>
          /\ pos[d] <= Len(list) /\ pos[d] <= Len(list')
          /\ \A j \in 1..pos[d] : list'[j] = list[j]
    BY <1>2, <2>1, <2>2
  <2>4. d \notin shifted' => SubSeq(list', 1, pos[d]) = Before(pos[d])
    BY <1>2, <2>2, <2>3, BeforeSame
  <2>5. Read(d)
    BY DEF IInv
  <2>6. d \notin shifted' => Passed(d) = pos[d] /\ AtMost(pos[d], Len(list')) = pos[d]
    BY <2>2, <2>3 DEF Passed, AtMost
  <2> QED BY <1>1, <2>1, <2>4, <2>5, <2>6 DEF Read, Before, Passed
<1>4. TypeOK'
  <2>1. SessionTypeOK'
    BY <1>1 DEF SessionTypeOK
  <2>2. shifted' \subseteq Invocations
    BY <1>1, <1>2 DEF Past, TypeOK
  <2> QED BY <1>1, <1>2, <2>1, <2>2 DEF TypeOK
<1> QED BY <1>3, <1>4 DEF IInv

\* The invariant is one.
THEOREM ReadAlways == Spec => []IInv
<1>1. Init => IInv
  <2> SUFFICES ASSUME Init PROVE IInv
    OBVIOUS
  <2>1. SessionTypeOK
    BY IntervalAssumption
       DEF Init, SessionInit, SessionTypeOK, Tasks, Phases, Exceptions
  <2>2. list \in Seq(Entries) /\ IsInjective(list) /\ Len(list) <= MaxLength
    <3>1. list \in SeqOf(Entries, MaxLength) /\ IsInjective(list)
      BY DEF Init, Lists
    <3>2. PICK m \in 0..MaxLength : list \in [1..m -> Entries]
      BY <3>1 DEF SeqOf
    <3>3. m \in Nat /\ m <= MaxLength
      BY <3>2, LengthAssumption
    <3>4. list \in Seq(Entries) /\ Len(list) = m
      BY <3>2, <3>3, SeqDef, LenProperties
    <3> QED BY <3>1, <3>3, <3>4
  <2>3. <<>> \in Seq(Own) /\ <<>> \in Seq(Entries)
    OBVIOUS
  <2>4. TypeOK
    BY <2>1, <2>2, <2>3, ChangesAssumption DEF Init, TypeOK
  <2>5. ASSUME NEW d \in Invocations PROVE Read(d)
    <3>1. task[d] = "command" /\ pos[d] = 0 /\ got[d] = <<>>
      BY DEF Init, SessionInit
    <3>2. Before(0) = <<>> /\ AtMost(0, Len(list)) = 0
      BY <2>2, SubSeqEmpty, LenProperties DEF Before, AtMost
    <3> QED BY <3>1, <3>2, OfTypeEmpty DEF Read, Passed
  <2> QED BY <2>4, <2>5 DEF IInv
<1>2. IInv /\ [Next]_vars => IInv'
  <2> SUFFICES ASSUME IInv, [Next]_vars PROVE IInv'
    OBVIOUS
  <2>1. SessionTypeOK'
    BY SessionTypeStep DEF IInv, TypeOK
  <2>2. ASSUME NEW i \in Invocations, ReadPage(i) PROVE IInv'
    <3>1. TypeOK /\ Read(i) /\ UNCHANGED <<kind, list, changes>>
      BY <2>2 DEF IInv, ReadPage
    <3>2. TypeOK'
      BY <2>1, <2>2, <3>1, ReadPageKeeps DEF TypeOK
    <3>3. ASSUME NEW d \in Invocations, d # i PROVE Read(d)'
      <4>1. /\ task'[d] = task[d] /\ exc'[d] = exc[d] /\ pos'[d] = pos[d]
            /\ got'[d] = got[d] /\ shown'[d] = shown[d]
            /\ (d \in shifted') = (d \in shifted)
        BY <2>2, <3>1, <3>3, ReadPageKeeps
      <4>2. Read(d)
        BY DEF IInv
      <4> QED BY <3>1, <4>1, <4>2 DEF Read, Before, Passed
    <3>4. Read(i)'
      BY <2>2, <3>1, ReadPageKeeps
    <3> QED BY <3>2, <3>3, <3>4 DEF IInv
  <2>3. ASSUME NEW i \in Invocations, SessionStep(i) \/ LosePage(i) \/ Death(i) PROVE IInv'
    <3>1. /\ UNCHANGED <<kind, list, changes, reader, shifted>>
          /\ \A d \in Invocations : Read(d)'
      BY <2>3, OthersKeep
    <3>2. TypeOK'
      BY <2>1, <3>1 DEF IInv, TypeOK, reader
    <3> QED BY <3>1, <3>2 DEF IInv
  <2>4. CASE TimePasses \/ UNCHANGED vars
    <3>1. UNCHANGED <<task, exc, kind, list, changes, pos, got, shown, shifted>>
      BY <2>4 DEF TimePasses, Tick, vars, clientVars, reader
    <3>2. TypeOK'
      BY <2>1, <3>1 DEF IInv, TypeOK
    <3> QED BY <3>1, <3>2 DEF IInv, Read, Before, Passed
  <2> QED BY <2>2, <2>3, <2>4, ChangeKeeps DEF Next, Step
<1> QED BY <1>1, <1>2, PTL DEF Spec

\* The state of the readers stays within its types, and the list holds no
\* entry twice.
THEOREM TypeCorrect == Spec => []TypeOK
<1>1. IInv => TypeOK
  BY DEF IInv
<1> QED BY <1>1, ReadAlways, PTL

\* What a reader returns is the list, entry by entry, for lists of any length
\* and pages of any size, unless an entry it had passed came or went or foreign
\* entries were counted out.
THEOREM ListedIsTheListHolds == Spec => []ListedIsTheList
<1>1. IInv => ListedIsTheList
  BY DEF IInv, Read, ListedIsTheList, Listed
<1> QED BY <1>1, ReadAlways, PTL
=============================================================================

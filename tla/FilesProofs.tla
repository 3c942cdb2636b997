---------------------------- MODULE FilesProofs ----------------------------
(***************************************************************************)
(* Proofs about Files, for any number of invocations, any versions of any  *)
(* sizes and any number of changes by other programs.                      *)
(***************************************************************************)
EXTENDS Files, SequenceTheorems, TLAPS

Contents == Seq(Blocks)
Results  == {"none", "ok", "error", "interrupt"}

Downloads == {"check", "get", "receive", "publish", "unlink", "clean"}
Uploads   == {"open", "send", "put"}

-----------------------------------------------------------------------------
(* What the properties rest on, for one invocation.                        *)

\* Its next step is one of its command, and a result is the end of it.
Placed(c) ==
    /\ pc[c] \in Downloads => job[c].kind = "download"
    /\ pc[c] \in Uploads => job[c].kind = "upload"
    /\ pc[c] = "list" => job[c].kind \in {"upload", "delete"}
    /\ pc[c] = "delete" => job[c].kind = "delete"
    /\ result[c] # "none" => pc[c] \in {"clean", "exited", "killed"}
    /\ result[c] = "ok" => pc[c] = "exited"

\* A download has a temporary file only on its way: as much as has arrived,
\* and all of it where it is published.
Tidy(c) ==
    /\ pc[c] \notin {"receive", "publish", "unlink", "clean", "killed"} => temp[c] = Absent
    /\ pc[c] = "receive" =>
          /\ temp[c] \in Contents /\ Len(temp[c]) <= Len(incoming[c])
          /\ \A k \in 1..Len(temp[c]) : temp[c][k] = incoming[c][k]
    /\ pc[c] = "publish" => temp[c] = incoming[c]

\* The one content is a beginning of the other.
Begins(s, t) == Len(s) <= Len(t) /\ \A k \in 1..Len(s) : s[k] = t[k]

\* What was sent is a beginning of the version opened, or no longer than the
\* one that came over it.
Traced(c) ==
    \/ Begins(sent[c], seen[c][1])
    \/ Len(seen[c]) = 2 /\ Len(sent[c]) <= Len(seen[c][2])

\* An upload knows the length of the version it opened, and reads to the end
\* of the file as it then is; the property, one invocation at a time.
Counted(c) ==
    /\ pc[c] \in {"list", "open"} => sent[c] = <<>>
    /\ pc[c] \in {"send", "put"} =>
          /\ seen[c] # <<>> /\ size[c] = Len(seen[c][1])
          /\ Telling(seen[c]) => Traced(c)
    /\ pc[c] = "send" => source = seen[c][Len(seen[c])]
    /\ pc[c] = "put" => Len(sent[c]) >= Len(seen[c][Len(seen[c])])
    /\ result[c] = "ok" /\ job[c].kind = "upload" /\ Telling(seen[c]) =>
          sent[c] = seen[c][1]

\* What was listed is still there, as long as nobody else changed it.
Current(c) ==
    c \notin disturbed =>
       /\ pc[c] = "delete" => Removable
       /\ pc[c] \in Uploads /\ ~job[c].force => remote = Absent

Sound(c) == Placed(c) /\ Tidy(c) /\ Counted(c) /\ Current(c)

IInv == TypeOK /\ \A c \in Clients : Sound(c)

-----------------------------------------------------------------------------
(* Contents.                                                               *)

\* A version is a content.
LEMMA WholeType ==
  ASSUME NEW v \in Versions
  PROVE  Whole(v) \in Contents
<1>1. Size[v] \in Nat /\ v \in Blocks
  BY SizeAssumption DEF Blocks
<1>2. Whole(v) \in [1..Size[v] -> Blocks]
  BY <1>1 DEF Whole
<1> QED BY <1>1, <1>2, SeqDef DEF Contents

\* So are the listing of a directory, and nothing at all.
LEMMA ListingType == <<>> \in Contents /\ <<Listing>> \in Contents
<1>1. Listing \in Blocks
  BY DEF Blocks
<1> QED BY <1>1 DEF Contents

\* What arrives next makes a content longer by one block.
LEMMA AppendNext ==
  ASSUME NEW t \in Contents, NEW s \in Contents, Len(t) < Len(s)
  PROVE  LET u == Append(t, s[Len(t) + 1])
         IN  /\ u \in Contents /\ Len(u) = Len(t) + 1
             /\ \A k \in 1..Len(u) :
                   u[k] = IF k <= Len(t) THEN t[k] ELSE s[Len(t) + 1]
<1>1. Len(t) \in Nat /\ Len(s) \in Nat
  BY LenProperties DEF Contents
<1>2. s[Len(t) + 1] \in Blocks
  BY <1>1, ElementOfSeq DEF Contents
<1> QED BY <1>1, <1>2, AppendProperties DEF Contents

\* Equal where there is something, and as long: equal.
LEMMA SameContent ==
  ASSUME NEW t \in Contents, NEW s \in Contents, Len(t) = Len(s),
         \A k \in 1..Len(t) : t[k] = s[k]
  PROVE  t = s
  BY SeqEqual DEF Contents

\* A GET answers a content.
LEMMA AnswerType ==
  ASSUME TypeOK, remote # Absent
  PROVE  Answer \in Contents
  BY ListingType DEF Answer, TypeOK, Contents

-----------------------------------------------------------------------------
(* The moves of one invocation.                                            *)

\* Its next step is p, and r its result.
Moves(c, p, r) ==
    /\ pc' = [pc EXCEPT ![c] = p]
    /\ result' = [result EXCEPT ![c] = r]

\* The control flow, as moves.
LEMMA FlowMoves ==
  ASSUME TypeOK, NEW c \in Clients, NEW e, NEW p
  PROVE  /\ Goto(c, p) => Moves(c, p, result[c])
         /\ Finish(c, e, p) => Moves(c, p, e)
         /\ Fails(c, e) => Moves(c, "clean", e)
         /\ Continue(c, e, p) =>
               IF e = "none" THEN Moves(c, p, result[c]) ELSE Moves(c, "exited", e)
  BY DEF TypeOK, Goto, Finish, Fails, Cleans, Continue, Moves

\* Where a move leads.
LEMMA MovesTo ==
  ASSUME TypeOK, NEW c \in Clients, NEW p \in PCs, NEW r \in Results, Moves(c, p, r)
  PROVE  /\ pc'[c] = p /\ result'[c] = r
         /\ pc' \in [Clients -> PCs] /\ result' \in [Clients -> Results]
  BY DEF Moves, TypeOK, Results

\* What a request raises is a result.
LEMMA RaisedType ==
  \A o : /\ Raised(o) \in {"none", "error", "interrupt"}
         /\ \A w : Required(o, w) \in {"none", "error", "interrupt"}
  BY DEF Raised, Required

-----------------------------------------------------------------------------
(* The steps of a download: none of them touches the controller, and only  *)
(* the last the destination.                                               *)

\* An invocation that touches its own download at most.
Local(c) ==
    /\ UNCHANGED <<entry, source, foreign, job, upload>>
    /\ \E p \in PCs, r \in Results : Moves(c, p, r)
    /\ UNCHANGED temp \/ \E t \in Contents \cup {Absent} : temp' = [temp EXCEPT ![c] = t]
    /\ UNCHANGED incoming \/ \E m \in Contents : incoming' = [incoming EXCEPT ![c] = m]

\* Up to the stream: a temporary file is created with the request.
LEMMA DownloadBegins ==
  ASSUME TypeOK, NEW c \in Clients, Sound(c), CheckDestination(c) \/ StartDownload(c)
  PROVE  Local(c) /\ UNCHANGED dest /\ Sound(c)'
<1> USE FlowMoves, MovesTo, RaisedType, ListingType DEF PCs, Results
<1>1. result[c] = "none" /\ job[c].kind = "download"
  BY DEF CheckDestination, StartDownload, At, Sound, Placed, Downloads
<1>2. CASE CheckDestination(c)
  <2>1. Moves(c, "exited", "error") \/ Moves(c, "get", "none")
    BY <1>1, <1>2 DEF CheckDestination
  <2>2. UNCHANGED <<entry, source, foreign, job, upload, temp, incoming, dest>>
    BY <1>2 DEF CheckDestination, download
  <2>3. temp[c] = Absent
    BY <1>2 DEF CheckDestination, At, Sound, Tidy
  <2> QED
    BY <1>1, <2>1, <2>2, <2>3
       DEF Local, Sound, Placed, Tidy, Counted, Current, Downloads, Uploads
<1>3. CASE StartDownload(c)
  <2>1. /\ UNCHANGED <<entry, dest, source, foreign, job, upload>>
        /\ temp' = [temp EXCEPT ![c] = <<>>]
    BY <1>3 DEF StartDownload
  <2>2. CASE /\ remote # Absent
             /\ incoming' = [incoming EXCEPT ![c] = Answer] /\ Goto(c, "receive")
    <3>1. Answer \in Contents /\ Moves(c, "receive", "none")
      BY <1>1, <2>2, AnswerType
    <3>2. pc'[c] = "receive" /\ temp'[c] = <<>> /\ incoming'[c] \in Contents
      BY <2>1, <2>2, <3>1 DEF TypeOK
    <3>3. Len(temp'[c]) = 0 /\ Len(incoming'[c]) \in Nat
      BY <3>2, LenProperties DEF Contents
    <3>4. Tidy(c)'
      BY <3>2, <3>3 DEF Tidy
    <3> QED
      BY <1>1, <2>1, <2>2, <3>1, <3>4
         DEF Local, Sound, Placed, Counted, Current, Downloads, Uploads
  <2>3. CASE \E o \in ReadOutcomes : UNCHANGED incoming /\ Fails(c, Required(o, FALSE))
    <3>1. PICK r \in {"none", "error", "interrupt"} : Moves(c, "clean", r)
      BY <2>3
    <3>2. pc'[c] = "clean" /\ result'[c] = r
      BY <3>1
    <3>3. Sound(c)'
      BY <1>1, <2>1, <3>2
         DEF Sound, Placed, Tidy, Counted, Current, Downloads, Uploads
    <3> QED BY <2>1, <2>3, <3>1, <3>3 DEF Local
  <2> QED BY <1>3, <2>2, <2>3 DEF StartDownload
<1> QED BY <1>2, <1>3

\* The stream: what has arrived is the beginning of what was sent.
LEMMA DownloadReceives ==
  ASSUME TypeOK, NEW c \in Clients, Sound(c), Receive(c)
  PROVE  Local(c) /\ UNCHANGED dest /\ Sound(c)'
<1> USE FlowMoves, MovesTo, RaisedType DEF PCs, Results
<1>1. /\ result[c] = "none" /\ job[c].kind = "download" /\ pc[c] = "receive"
      /\ UNCHANGED <<entry, dest, source, incoming, foreign, job, upload>>
  BY DEF Receive, At, Sound, Placed, Downloads
<1>2. /\ temp[c] \in Contents /\ incoming[c] \in Contents
      /\ Len(temp[c]) <= Len(incoming[c])
      /\ \A k \in 1..Len(temp[c]) : temp[c][k] = incoming[c][k]
      /\ Len(temp[c]) \in Nat /\ Len(incoming[c]) \in Nat
  BY <1>1, LenProperties DEF Sound, Tidy, TypeOK, Contents
<1>3. CASE /\ Len(temp[c]) < Len(incoming[c])
           /\ temp' = [temp EXCEPT ![c] = Append(@, incoming[c][Len(@) + 1])]
           /\ UNCHANGED <<pc, result>>
  <2> DEFINE u == Append(temp[c], incoming[c][Len(temp[c]) + 1])
  <2>1. /\ u \in Contents /\ Len(u) = Len(temp[c]) + 1
        /\ \A k \in 1..Len(u) :
              u[k] = IF k <= Len(temp[c]) THEN temp[c][k]
                     ELSE incoming[c][Len(temp[c]) + 1]
    BY <1>2, <1>3, AppendNext
  <2>2. temp' = [temp EXCEPT ![c] = u] /\ temp'[c] = u
    BY <1>3 DEF TypeOK
  <2> HIDE DEF u
  <2>3. Moves(c, "receive", "none")
    BY <1>1, <1>3 DEF Moves, TypeOK
  <2>4. \A k \in 1..Len(u) : u[k] = incoming[c][k]
    BY <1>2, <2>1
  <2>5. Tidy(c)'
    <3>1. pc'[c] = "receive" /\ incoming'[c] = incoming[c]
      BY <1>1, <1>3
    <3>2. Len(u) <= Len(incoming[c])
      BY <1>2, <1>3, <2>1
    <3> QED BY <2>1, <2>2, <2>4, <3>1, <3>2 DEF Tidy
  <2> QED
    BY <1>1, <1>3, <2>1, <2>2, <2>3, <2>5
       DEF Local, Sound, Placed, Counted, Current, Downloads, Uploads
<1>4. CASE Len(temp[c]) = Len(incoming[c]) /\ Goto(c, "publish") /\ UNCHANGED temp
  <2>1. temp[c] = incoming[c]
    BY <1>2, <1>4, SameContent
  <2>2. Moves(c, "publish", "none")
    BY <1>1, <1>4
  <2> QED
    BY <1>1, <1>4, <2>1, <2>2
       DEF Local, Sound, Placed, Tidy, Counted, Current, Downloads, Uploads
<1>5. CASE Broken(c) /\ UNCHANGED temp
  <2>1. \E r \in Failures : Moves(c, "clean", r)
    BY <1>5 DEF Broken
  <2> QED
    BY <1>1, <1>5, <2>1
       DEF Failures, Local, Sound, Placed, Tidy, Counted, Current, Downloads, Uploads
<1> QED BY <1>3, <1>4, <1>5 DEF Receive

\* The end of it: the destination becomes all that was sent, or stays.
LEMMA DownloadEnds ==
  ASSUME TypeOK, NEW c \in Clients, Sound(c), Publish(c) \/ Unlink(c) \/ Clean(c)
  PROVE  /\ Local(c) /\ Sound(c)'
         /\ \/ UNCHANGED dest
            \/ dest' = incoming[c] /\ (dest = Absent \/ job[c].force)
<1> USE FlowMoves, MovesTo DEF PCs, Results
<1>1. /\ job[c].kind = "download" /\ pc[c] \in {"publish", "unlink", "clean"}
      /\ result[c] # "ok" /\ result[c] \in Results
      /\ UNCHANGED <<entry, source, incoming, foreign, job, upload>>
  BY DEF Publish, Unlink, Clean, At, Sound, Placed, Downloads, TypeOK
<1>2. CASE Publish(c)
  <2>1. temp[c] = incoming[c] /\ pc[c] = "publish" /\ result[c] = "none"
    BY <1>2 DEF Publish, At, Sound, Tidy, Placed
  <2>2. /\ \/ UNCHANGED dest
           \/ dest' = incoming[c] /\ (dest = Absent \/ job[c].force)
        /\ UNCHANGED temp \/ temp' = [temp EXCEPT ![c] = Absent]
    BY <1>2, <2>1 DEF Publish, Overwrites
  <2>3. \/ Moves(c, "exited", "ok") /\ temp' = [temp EXCEPT ![c] = Absent]
        \/ Moves(c, "unlink", "none")
        \/ \E r \in Failures : Moves(c, "clean", r)
    BY <1>2, <2>1 DEF Publish, Failures
  <2>4. Sound(c)'
    BY <1>1, <2>1, <2>2, <2>3
       DEF Failures, Sound, Placed, Tidy, Counted, Current, Downloads, Uploads, TypeOK
  <2> QED BY <1>1, <2>2, <2>3, <2>4 DEF Local, Failures
<1>3. CASE Unlink(c) \/ Clean(c)
  <2>1. \/ /\ Moves(c, "exited", "ok") \/ Moves(c, "exited", result[c])
           /\ temp' = [temp EXCEPT ![c] = Absent]
        \/ Moves(c, "clean", "interrupt") /\ UNCHANGED temp
    BY <1>3 DEF Unlink, Clean
  <2>2. UNCHANGED dest
    BY <1>3 DEF Unlink, Clean
  <2> QED
    BY <1>1, <2>1, <2>2
       DEF Local, Sound, Placed, Tidy, Counted, Current, Downloads, Uploads, TypeOK
<1> QED BY <1>2, <1>3

-----------------------------------------------------------------------------
(* The steps of an upload or a delete: the controller file changes with    *)
(* the last request alone, and as it was listed.                           *)

\* An invocation that touches its own upload, and the controller file.
Remote(c) ==
    /\ UNCHANGED <<dest, source, download, foreign, job>>
    /\ \E p \in PCs, r \in Results : Moves(c, p, r)
    /\ UNCHANGED sent \/ \E t \in Contents : sent' = [sent EXCEPT ![c] = t]
    /\ UNCHANGED size \/ \E n \in Nat : size' = [size EXCEPT ![c] = n]
    /\ UNCHANGED seen \/ \E h \in Seq(Wholes) : seen' = [seen EXCEPT ![c] = h]
    /\ UNCHANGED entry \/ \E e \in Contents \cup {Absent, Directory} : Becomes(e, {c})

\* What may be done to the controller file once it was listed.
Asked(c) ==
    IF job[c].kind = "delete" THEN remote # Directory
    ELSE remote = Absent \/ job[c].force

\* Reading on: the next block is of the version the file now has.
LEMMA SendCounted ==
  ASSUME TypeOK, NEW c \in Clients, Counted(c), SendBlock(c), result[c] = "none"
  PROVE  Counted(c)'
<1> DEFINE t == sent[c]
           h == seen[c]
           n == Len(seen[c])
<1>1. /\ pc[c] = "send" /\ size' = size /\ seen' = seen /\ source' = source
      /\ h # <<>> /\ size[c] = Len(h[1]) /\ source = h[n]
      /\ Telling(h) => Traced(c)
  BY DEF SendBlock, At, Counted
<1>2. /\ t \in Contents /\ source \in Contents
      /\ Len(t) \in Nat /\ Len(source) \in Nat
  BY WholeType, LenProperties DEF TypeOK, Wholes, Contents
<1>3. CASE /\ Len(t) < Len(source)
           /\ sent' = [sent EXCEPT ![c] = Append(@, source[Len(@) + 1])]
           /\ UNCHANGED <<pc, result>>
  <2> DEFINE u == Append(t, source[Len(t) + 1])
  <2>1. /\ u \in Contents /\ Len(u) = Len(t) + 1
        /\ \A k \in 1..Len(u) :
              u[k] = IF k <= Len(t) THEN t[k] ELSE source[Len(t) + 1]
    BY <1>2, <1>3, AppendNext
  <2>2. sent'[c] = u
    BY <1>3 DEF TypeOK
  <2> HIDE DEF u
  <2>3. Len(u) <= Len(source)
    BY <1>2, <1>3, <2>1
  <2>4. ASSUME Telling(h) PROVE Traced(c)'
    <3>1. CASE n = 1
      <4>1. source = h[1] /\ Begins(t, source)
        BY <1>1, <2>4, <3>1 DEF Traced
      <4>2. \A k \in 1..Len(u) : u[k] = source[k]
        BY <1>2, <2>1, <4>1 DEF Begins
      <4>3. Begins(u, h[1])
        BY <2>3, <4>1, <4>2 DEF Begins
      <4> QED BY <1>1, <2>2, <4>3 DEF Traced
    <3>2. CASE n = 2
      BY <1>1, <2>2, <2>3, <3>2 DEF Traced
    <3> QED BY <2>4, <3>1, <3>2 DEF Telling
  <2> QED BY <1>1, <1>3, <2>4 DEF Counted
<1>4. CASE /\ ~(Len(t) < Len(source)) /\ Goto(c, "put") /\ UNCHANGED sent
  <2>1. pc'[c] = "put" /\ result'[c] = "none"
    BY <1>4 DEF Goto, TypeOK
  <2>2. Len(t) >= Len(h[n])
    BY <1>1, <1>2, <1>4
  <2> QED BY <1>1, <1>4, <2>1, <2>2 DEF Counted, Traced
<1> QED BY <1>3, <1>4 DEF SendBlock

\* Up to the request: the file was listed, or need not be.
LEMMA UploadBegins ==
  ASSUME TypeOK, NEW c \in Clients, Sound(c),
         ListParent(c) \/ OpenSource(c) \/ SendBlock(c)
  PROVE  Remote(c) /\ UNCHANGED entry /\ Sound(c)'
<1> USE FlowMoves, MovesTo, RaisedType DEF PCs, Results
<1>1. /\ result[c] = "none" /\ pc[c] \in {"list", "open", "send"} /\ temp[c] = Absent
      /\ UNCHANGED <<entry, dest, source, download, foreign, job>>
  BY DEF ListParent, OpenSource, SendBlock, At, Sound, Placed, Tidy, upload
<1>2. source \in Contents /\ Len(source) \in Nat /\ sent[c] \in Contents /\ Len(sent[c]) \in Nat
  BY WholeType, LenProperties DEF TypeOK, Wholes, Contents
<1>3. CASE ListParent(c)
  <2>1. pc[c] = "list" /\ UNCHANGED <<sent, size, seen>>
    BY <1>3 DEF ListParent, At, upload
  <2>2. \/ \E e \in {"error", "interrupt"} : Moves(c, "exited", e)
        \/ Moves(c, "open", "none") /\ job[c].kind = "upload" /\ remote = Absent
        \/ Moves(c, "delete", "none") /\ job[c].kind # "upload" /\ Removable
    <3>1. PICK o \in ReadOutcomes :
             IF job[c].kind = "upload"
             THEN Continue(c, Required(o, remote = Absent), "open")
             ELSE Continue(c, Required(o, Removable), "delete")
      BY <1>3 DEF ListParent
    <3>2. \A w \in BOOLEAN : Required(o, w) = "none" => w
      BY DEF Required, Raised, ReadOutcomes
    <3>3. Removable \in BOOLEAN
      BY DEF Removable
    <3>4. CASE job[c].kind = "upload"
      <4> DEFINE e == Required(o, remote = Absent)
      <4>1. Continue(c, e, "open") /\ e \in {"none", "error", "interrupt"}
        BY <3>1, <3>4
      <4>2. e = "none" => remote = Absent
        BY <3>2
      <4> HIDE DEF e
      <4> QED BY <1>1, <3>4, <4>1, <4>2
    <3>5. CASE job[c].kind # "upload"
      <4> DEFINE e == Required(o, Removable)
      <4>1. Continue(c, e, "delete") /\ e \in {"none", "error", "interrupt"}
        BY <3>1, <3>5
      <4>2. e = "none" => Removable
        BY <3>2, <3>3
      <4> HIDE DEF e
      <4> QED BY <1>1, <3>5, <4>1, <4>2
    <3> QED BY <3>4, <3>5
  <2>3. job[c].kind \in {"upload", "delete"}
    BY <2>1 DEF Sound, Placed
  <2>4. Sound(c)'
    BY <1>1, <2>1, <2>2, <2>3
       DEF Sound, Placed, Tidy, Counted, Current, Downloads, Uploads, Removable,
           entry, download
  <2> QED BY <1>1, <2>1, <2>2, <2>4 DEF Remote
<1>4. CASE OpenSource(c)
  <2>1. pc[c] = "open" /\ UNCHANGED sent /\ sent[c] = <<>>
    BY <1>4 DEF OpenSource, At, Sound, Counted
  <2>2. CASE \E e \in Failures : UNCHANGED <<size, seen>> /\ Finish(c, e, "exited")
    <3>1. \E e \in Failures : Moves(c, "exited", e)
      BY <2>2
    <3>2. Sound(c)'
      BY <1>1, <2>1, <3>1
         DEF Failures, Sound, Placed, Tidy, Counted, Current, Downloads, Uploads,
             entry, download
    <3> QED BY <1>1, <2>1, <2>2, <3>1, <3>2 DEF Remote, Failures
  <2>3. CASE /\ size' = [size EXCEPT ![c] = Len(source)]
             /\ seen' = [seen EXCEPT ![c] = <<source>>]
             /\ Goto(c, "send")
    <3>1. Moves(c, "send", "none") /\ pc'[c] = "send" /\ result'[c] = "none"
      BY <1>1, <2>3
    <3>2. <<source>> \in Seq(Wholes)
      BY DEF TypeOK
    <3>3. /\ size'[c] = Len(source) /\ seen'[c] = <<source>> /\ sent'[c] = <<>>
          /\ source' = source
      BY <1>1, <2>1, <2>3 DEF TypeOK
    <3>4. Begins(<<>>, source)
      BY <1>2 DEF Begins
    <3>5. Counted(c)'
      BY <3>1, <3>3, <3>4 DEF Counted, Traced
    <3>6. Placed(c)' /\ Tidy(c)' /\ Current(c)'
      BY <1>1, <2>1, <3>1
         DEF Sound, Placed, Tidy, Current, Downloads, Uploads, entry, download
    <3> QED BY <1>1, <1>2, <2>1, <2>3, <3>1, <3>2, <3>5, <3>6 DEF Remote, Sound
  <2> QED BY <1>4, <2>2, <2>3 DEF OpenSource
<1>5. CASE SendBlock(c)
  <2>1. pc[c] = "send" /\ UNCHANGED <<size, seen>>
    BY <1>5 DEF SendBlock, At
  <2>2. UNCHANGED sent \/ \E t \in Contents : sent' = [sent EXCEPT ![c] = t]
    <3>1. CASE Len(sent[c]) < Len(source)
      <4>1. Append(sent[c], source[Len(sent[c]) + 1]) \in Contents
        BY <1>2, <3>1, AppendNext
      <4> QED BY <1>5, <3>1, <4>1 DEF SendBlock
    <3> QED BY <1>5, <3>1 DEF SendBlock
  <2>3. Moves(c, "send", "none") \/ Moves(c, "put", "none")
    <3>1. UNCHANGED <<pc, result>> => Moves(c, "send", "none")
      BY <1>1, <2>1 DEF Moves, TypeOK
    <3> QED BY <1>1, <1>5, <3>1 DEF SendBlock
  <2>4. Placed(c)' /\ Tidy(c)' /\ Current(c)'
    BY <1>1, <2>1, <2>3
       DEF Sound, Placed, Tidy, Current, Downloads, Uploads, entry, download
  <2>5. Counted(c)'
    BY <1>1, <1>5, SendCounted DEF Sound
  <2> QED BY <1>1, <2>1, <2>2, <2>3, <2>4, <2>5 DEF Remote, Sound
<1> QED BY <1>3, <1>4, <1>5

\* At the end of the file, the count tells whose blocks were sent.
LEMMA SizedIsWhole ==
  ASSUME TypeOK, NEW c \in Clients, Counted(c), pc[c] = "put", Sized(c), Telling(seen[c])
  PROVE  sent[c] = seen[c][1]
<1> DEFINE t == sent[c]
           h == seen[c]
<1>1. /\ Len(t) = Len(h[1]) /\ Len(t) >= Len(h[Len(h)]) /\ Traced(c)
      /\ h # <<>> /\ t \in Contents /\ h \in Seq(Wholes)
  BY DEF Counted, Sized, TypeOK, Contents
<1>2. h[1] \in Wholes /\ (Len(h) = 2 => h[2] \in Wholes)
  BY <1>1, ElementOfSeq DEF Telling
<1>3. /\ h[1] \in Contents /\ Len(t) \in Nat
      /\ Len(h) = 2 => Len(h[2]) \in Nat
  BY <1>1, <1>2, WholeType, LenProperties DEF Wholes, Contents
<1>4. Begins(t, h[1])
  BY <1>1, <1>3 DEF Traced, Telling
<1> QED BY <1>1, <1>3, <1>4, SameContent DEF Begins

\* The request: whatever comes of it, it ends the command.
LEMMA UploadEnds ==
  ASSUME TypeOK, NEW c \in Clients, Sound(c),
         UploadBreaks(c) \/ EndUpload(c) \/ DeleteFile(c)
  PROVE  /\ Remote(c) /\ Sound(c)'
         /\ remote' # remote /\ c \notin disturbed => Asked(c)
<1> USE FlowMoves, MovesTo, RaisedType DEF PCs, Results
<1>1. /\ result[c] = "none" /\ pc[c] \in {"send", "put", "delete"} /\ temp[c] = Absent
      /\ UNCHANGED <<dest, source, download, foreign, job, sent, size, seen>>
      /\ sent[c] \in Contents
  BY DEF UploadBreaks, EndUpload, DeleteFile, At, Sound, Placed, Tidy, upload, TypeOK, Contents
<1>2. \E e \in Contents \cup {Absent, Directory} : Becomes(e, {c})
  <2>1. remote \in Contents \cup {Absent, Directory}
    BY DEF TypeOK, Contents
  <2>2. CASE UploadBreaks(c)
    BY <1>1, <2>1, <2>2 DEF UploadBreaks
  <2>3. CASE EndUpload(c)
    BY <1>1, <2>1, <2>3 DEF EndUpload
  <2>4. CASE DeleteFile(c)
    BY <2>1, <2>4 DEF DeleteFile
  <2> QED BY <2>2, <2>3, <2>4
<1>3. /\ \E r \in Results : Moves(c, "exited", r)
      /\ result'[c] = "ok" /\ job[c].kind = "upload" /\ Telling(seen[c]) =>
            sent[c] = seen[c][1]
  <2>1. CASE UploadBreaks(c)
    BY <2>1 DEF UploadBreaks, Failures
  <2>2. CASE EndUpload(c)
    <3>1. \/ Moves(c, "exited", "ok") /\ Sized(c)
          \/ \E r \in {"none", "error", "interrupt"} : Moves(c, "exited", r)
      <4>1. PICK o \in Outcomes :
               IF o = "done" /\ Sized(c) THEN Finish(c, "ok", "exited")
               ELSE Finish(c, Required(o, FALSE), "exited")
        BY <2>2 DEF EndUpload
      <4>2. CASE o = "done" /\ Sized(c)
        BY <4>1, <4>2
      <4>3. CASE ~(o = "done" /\ Sized(c))
        <5>1. Finish(c, Required(o, FALSE), "exited")
          BY <4>1, <4>3
        <5>2. Moves(c, "exited", Required(o, FALSE))
          BY <5>1
        <5> QED BY <5>2
      <4> QED BY <4>2, <4>3
    <3>2. Sized(c) /\ Telling(seen[c]) => sent[c] = seen[c][1]
      BY <2>2, SizedIsWhole DEF EndUpload, At, Sound
    <3> QED BY <3>1, <3>2
  <2>3. CASE DeleteFile(c)
    <3>1. job[c].kind = "delete"
      BY <2>3 DEF DeleteFile, At, Sound, Placed
    <3> QED BY <2>3, <3>1 DEF DeleteFile
  <2> QED BY <2>1, <2>2, <2>3
<1>4. pc'[c] = "exited" /\ Sound(c)'
  BY <1>1, <1>3
     DEF Sound, Placed, Tidy, Counted, Current, Downloads, Uploads, download
<1>5. remote' # remote /\ c \notin disturbed => Asked(c)
  <2>1. CASE UploadBreaks(c) \/ EndUpload(c)
    <3>1. pc[c] \in {"send", "put"}
      BY <2>1 DEF UploadBreaks, EndUpload, At
    <3> QED BY <3>1 DEF Sound, Placed, Current, Uploads, Asked
  <2>2. CASE DeleteFile(c)
    <3>1. pc[c] = "delete"
      BY <2>2 DEF DeleteFile, At
    <3> QED BY <3>1 DEF Sound, Placed, Current, Removable, Asked
  <2> QED BY <2>1, <2>2
<1> QED BY <1>1, <1>2, <1>3, <1>4, <1>5 DEF Remote

-----------------------------------------------------------------------------
(* One step of one invocation.                                             *)

\* A step is of a download or of an upload, and leaves its own in order.
LEMMA StepShape ==
  ASSUME TypeOK, NEW c \in Clients, Sound(c), Step(c)
  PROVE  /\ Local(c) \/ Remote(c)
         /\ Sound(c)'
  BY DownloadBegins, DownloadReceives, DownloadEnds, UploadBegins, UploadEnds DEF Step

\* Every step keeps the state within its types.
LEMMA StepTypes ==
  ASSUME TypeOK, NEW c \in Clients, Sound(c), Step(c)
  PROVE  TypeOK'
<1>1. /\ pc' \in [Clients -> PCs]
      /\ result' \in [Clients -> {"none", "ok", "error", "interrupt"}]
  <2>1. \E p \in PCs, r \in Results : Moves(c, p, r)
    BY StepShape DEF Local, Remote
  <2> QED BY <2>1, MovesTo DEF Results
<1>2. CASE Local(c)
  <2>1. dest' \in Contents \cup {Absent}
    <3>1. UNCHANGED dest \/ dest' = incoming[c]
      BY DownloadBegins, DownloadReceives, DownloadEnds DEF Step, ListParent, OpenSource,
         SendBlock, UploadBreaks, EndUpload, DeleteFile
    <3> QED BY <3>1 DEF TypeOK, Contents
  <2>2. UNCHANGED <<remote, disturbed, source, foreign, job, sent, size, seen>>
    BY <1>2 DEF Local, entry, upload
  <2>3. temp' \in [Clients -> Contents \cup {Absent}] /\ incoming' \in [Clients -> Contents]
    BY <1>2 DEF Local, TypeOK, Contents
  <2> QED BY <1>1, <2>1, <2>2, <2>3 DEF TypeOK, Contents
<1>3. CASE Remote(c)
  <2>1. UNCHANGED <<dest, source, temp, incoming, foreign, job>>
    BY <1>3 DEF Remote, download
  <2>2. /\ sent' \in [Clients -> Contents] /\ size' \in [Clients -> Nat]
        /\ seen' \in [Clients -> Seq(Wholes)]
    BY <1>3 DEF Remote, TypeOK, Contents
  <2>3. remote' \in Contents \cup {Absent, Directory} /\ disturbed' \subseteq Clients
    BY <1>3 DEF Remote, Becomes, entry, TypeOK, Contents
  <2> QED BY <1>1, <2>1, <2>2, <2>3 DEF TypeOK, Contents
<1> QED BY <1>2, <1>3, StepShape

\* Who has listed the file knows when it becomes another.
LEMMA BecomesKeeps ==
  ASSUME TypeOK, NEW e, NEW Who, Becomes(e, Who), NEW d \in Clients \ Who, Current(d),
         pc'[d] = pc[d], job'[d] = job[d]
  PROVE  Current(d)'
<1>1. CASE e = remote
  BY <1>1 DEF Becomes, Current, Removable
<1>2. CASE e # remote
  <2>1. disturbed' = disturbed \cup {c \in Clients \ Who : Listed(c)}
    BY <1>2 DEF Becomes
  <2>2. CASE Listed(d)
    BY <2>1, <2>2 DEF Current
  <2>3. CASE ~Listed(d)
    BY <2>3 DEF Listed, Current, Uploads
  <2> QED BY <2>2, <2>3
<1> QED BY <1>1, <1>2

\* A step leaves the invocations of the others in order.
LEMMA StepLeavesOthers ==
  ASSUME TypeOK, NEW c \in Clients, Sound(c), Step(c), NEW d \in Clients, d # c, Sound(d)
  PROVE  Sound(d)'
<1>1. /\ pc'[d] = pc[d] /\ result'[d] = result[d] /\ temp'[d] = temp[d]
      /\ incoming'[d] = incoming[d] /\ sent'[d] = sent[d] /\ size'[d] = size[d]
      /\ seen'[d] = seen[d] /\ job' = job /\ source' = source
  <2>1. CASE Local(c)
    BY <2>1 DEF Local, Moves, upload, TypeOK
  <2>2. CASE Remote(c)
    BY <2>2 DEF Remote, Moves, download, TypeOK
  <2> QED BY <2>1, <2>2, StepShape
<1>2. Current(d)'
  <2>1. CASE UNCHANGED entry
    BY <1>1, <2>1 DEF entry, Sound, Current, Removable
  <2>2. CASE \E e : Becomes(e, {c})
    <3>1. PICK e : Becomes(e, {c})
      BY <2>2
    <3>2. d \in Clients \ {c} /\ Current(d)
      BY DEF Sound
    <3> QED BY <1>1, <3>1, <3>2, BecomesKeeps
  <2> QED BY <2>1, <2>2, StepShape DEF Local, Remote
<1>3. Placed(d)' /\ Tidy(d)' /\ Counted(d)'
  BY <1>1 DEF Sound, Placed, Tidy, Counted, Traced
<1> QED BY <1>2, <1>3 DEF Sound

-----------------------------------------------------------------------------
(* Everybody else.                                                         *)

\* A killed invocation leaves all as it was.
LEMMA KillKeeps ==
  ASSUME IInv, NEW c \in Clients, Kill(c)
  PROVE  IInv'
<1>1. /\ TypeOK /\ Moves(c, "killed", result[c]) /\ result[c] # "ok"
      /\ UNCHANGED <<remote, disturbed, dest, source, temp, incoming, foreign, job, sent, size,
                     seen>>
      /\ UNCHANGED result
  BY FlowMoves DEF IInv, Kill, entry, download, upload, Sound, Placed, Goto
<1>2. TypeOK' /\ pc'[c] = "killed"
  <2>1. pc' \in [Clients -> PCs] /\ pc'[c] = "killed"
    BY <1>1 DEF Moves, TypeOK, PCs
  <2> QED BY <1>1, <2>1 DEF TypeOK
<1>3. ASSUME NEW d \in Clients PROVE Sound(d)'
  <2>1. Sound(d) /\ (d # c => pc'[d] = pc[d])
    BY <1>1 DEF IInv, Moves, TypeOK
  <2>2. CASE d = c
    BY <1>1, <1>2, <2>1, <2>2
       DEF Sound, Placed, Tidy, Counted, Current, Downloads, Uploads
  <2>3. CASE d # c
    BY <1>1, <2>1, <2>3
       DEF Sound, Placed, Tidy, Counted, Traced, Current, Removable
  <2> QED BY <2>2, <2>3
<1> QED BY <1>2, <1>3 DEF IInv

\* A version written over the file is the last an upload has seen, and as long
\* as it is the only one, what was sent is of the version opened.
LEMMA SourceCounted ==
  ASSUME TypeOK, ForeignSource, NEW d \in Clients, Counted(d), Placed(d),
         UNCHANGED <<job, pc, sent, size, result>>
  PROVE  Counted(d)'
<1> DEFINE h == seen[d]
<1>1. h \in Seq(Wholes) /\ source' \in Wholes
  BY DEF TypeOK, ForeignSource
<1>2. CASE pc[d] = "send"
  <2>1. seen'[d] = Append(h, source')
    BY <1>2 DEF ForeignSource, At
  <2>2. h # <<>> /\ size[d] = Len(h[1]) /\ (Telling(h) => Traced(d))
    BY <1>2 DEF Counted
  <2>3. Len(h) \in Nat /\ Len(h) >= 1
    BY <1>1, <2>2, EmptySeq, LenProperties
  <2>4. /\ Len(seen'[d]) = Len(h) + 1 /\ seen'[d][1] = h[1]
        /\ seen'[d][Len(seen'[d])] = source' /\ seen'[d] # <<>>
    BY <1>1, <2>1, <2>3, AppendProperties
  <2>5. ASSUME Telling(seen'[d]) PROVE Traced(d)'
    <3>1. Len(h) = 1
      <4>1. Len(h) + 1 = 1 \/ Len(h) + 1 = 2
        BY <2>4, <2>5 DEF Telling
      <4>2. ASSUME NEW n \in Nat, n >= 1, n + 1 = 1 \/ n + 1 = 2 PROVE n = 1
        BY <4>2
      <4> QED BY <2>3, <4>1, <4>2
    <3>2. Begins(sent[d], h[1])
      BY <2>2, <3>1 DEF Telling, Traced
    <3> QED BY <2>4, <3>2 DEF Traced
  <2>6. result[d] # "ok"
    BY <1>2 DEF Placed
  <2> QED BY <1>2, <2>2, <2>4, <2>5, <2>6 DEF Counted
<1>3. CASE pc[d] # "send"
  <2>1. seen'[d] = h
    BY <1>3 DEF ForeignSource, At
  <2> QED BY <1>3, <2>1 DEF Counted, Traced
<1> QED BY <1>2, <1>3

\* Other programs leave the invocations alone, and what they do to the
\* controller file is known to those who have listed it.
LEMMA ForeignKeeps ==
  ASSUME IInv, ForeignRemote \/ ForeignDestination \/ ForeignSource
  PROVE  IInv'
<1>1. /\ TypeOK /\ foreign' \in 0..MaxForeign
      /\ UNCHANGED <<temp, incoming, job, pc, sent, size, result>>
  BY ForeignAssumption
     DEF IInv, TypeOK, ForeignRemote, ForeignDestination, ForeignSource, Foreign,
         download, upload
<1>2. Wholes \subseteq Contents
  BY WholeType DEF Wholes
<1>3. \/ UNCHANGED entry
      \/ \E e \in Contents \cup {Absent, Directory} : Becomes(e, {})
  BY <1>2 DEF ForeignRemote, ForeignDestination, ForeignSource
<1>4. remote' \in Contents \cup {Absent, Directory} /\ disturbed' \subseteq Clients
  BY <1>1, <1>3 DEF Becomes, entry, TypeOK, Contents
<1>5. dest' \in Contents \cup {Absent} /\ source' \in Wholes
  BY <1>1, <1>2 DEF ForeignRemote, ForeignDestination, ForeignSource, TypeOK, Contents
<1>6. ASSUME NEW d \in Clients PROVE Sound(d)'
  <2>1. Sound(d)
    BY DEF IInv
  <2>2. Current(d)'
    <3>1. CASE UNCHANGED entry
      BY <1>1, <2>1, <3>1 DEF entry, Sound, Current, Removable
    <3>2. CASE \E e \in Contents \cup {Absent, Directory} : Becomes(e, {})
      BY <1>1, <2>1, <3>2, BecomesKeeps DEF Sound
    <3> QED BY <1>3, <3>1, <3>2
  <2>3. Counted(d)'
    <3>1. CASE ForeignSource
      BY <1>1, <2>1, <3>1, SourceCounted DEF Sound
    <3>2. CASE ForeignRemote \/ ForeignDestination
      <4>1. UNCHANGED <<source, seen>>
        BY <3>2 DEF ForeignRemote, ForeignDestination
      <4> QED BY <1>1, <2>1, <4>1 DEF Sound, Counted, Traced
    <3> QED BY <3>1, <3>2
  <2> QED BY <1>1, <2>1, <2>2, <2>3 DEF Sound, Placed, Tidy
<1>7. seen' \in [Clients -> Seq(Wholes)]
  <2>1. CASE ForeignSource
    <3>1. \A c \in Clients : Append(seen[c], source') \in Seq(Wholes)
      BY <1>1, <1>5, AppendProperties DEF TypeOK
    <3>2. \A c \in Clients : seen[c] \in Seq(Wholes)
      BY <1>1 DEF TypeOK
    <3> QED BY <2>1, <3>1, <3>2 DEF ForeignSource
  <2>2. CASE ForeignRemote \/ ForeignDestination
    BY <1>1, <2>2 DEF ForeignRemote, ForeignDestination, TypeOK
  <2> QED BY <2>1, <2>2
<1>8. TypeOK'
  BY <1>1, <1>4, <1>5, <1>7 DEF TypeOK, Contents
<1> QED BY <1>6, <1>8 DEF IInv

-----------------------------------------------------------------------------
(* The theorems.                                                           *)

\* The invariant holds at the beginning.
LEMMA InitSound == Init => IInv
<1> SUFFICES ASSUME Init PROVE IInv
  OBVIOUS
<1>1. Wholes \subseteq Contents
  BY WholeType DEF Wholes
<1>2. ASSUME NEW c \in Clients
      PROVE  /\ job[c].kind \in {"download", "upload", "delete"}
             /\ pc[c] \in {"check", "open", "list"} /\ pc[c] \in PCs
             /\ pc[c] = "check" => job[c].kind = "download"
             /\ pc[c] = "open" => job[c].kind = "upload" /\ job[c].force
             /\ pc[c] = "list" => job[c].kind \in {"upload", "delete"}
  <2>1. job[c] \in [kind : {"download", "upload", "delete"}, force : BOOLEAN]
    BY JobsAssumption DEF Init
  <2>2. pc[c] = FirstPC(job[c])
    BY DEF Init
  <2> QED BY <2>1, <2>2 DEF FirstPC, PCs
<1>3. TypeOK
  <2>1. pc \in [Clients -> PCs]
    BY <1>2 DEF Init
  <2> QED BY <1>1, <2>1, ListingType, ForeignAssumption DEF Init, TypeOK, Contents
<1>4. ASSUME NEW c \in Clients PROVE Sound(c)
  <2>1. temp[c] = Absent /\ result[c] = "none" /\ sent[c] = <<>>
    BY DEF Init
  <2> QED
    BY <1>2, <2>1 DEF Sound, Placed, Tidy, Counted, Current, Downloads, Uploads
<1> QED BY <1>3, <1>4 DEF IInv

\* Every step keeps it.
LEMMA NextSound == IInv /\ [Next]_vars => IInv'
<1> SUFFICES ASSUME IInv, [Next]_vars PROVE IInv'
  OBVIOUS
<1>1. ASSUME NEW c \in Clients, Step(c) PROVE IInv'
  <2>1. TypeOK' /\ Sound(c)'
    BY <1>1, StepShape, StepTypes DEF IInv
  <2>2. \A d \in Clients : d # c => Sound(d)'
    BY <1>1, StepLeavesOthers DEF IInv
  <2> QED BY <2>1, <2>2 DEF IInv
<1>2. CASE UNCHANGED vars
  BY <1>2
     DEF vars, entry, download, upload, IInv, TypeOK, Sound, Placed, Tidy, Counted,
         Traced, Current, Removable
<1> QED BY <1>1, <1>2, KillKeeps, ForeignKeeps DEF Next

\* The invariant that the properties follow from.
THEOREM SoundAlways == Spec => []IInv
  BY InitSound, NextSound, PTL DEF Spec

\* The state of the file commands stays within its types.
THEOREM TypeCorrect == Spec => []TypeOK
<1>1. IInv => TypeOK
  BY DEF IInv
<1> QED BY <1>1, SoundAlways, PTL

\* A download that ends leaves no temporary file, wherever it failed.
THEOREM NoTemporaryLeftHolds == Spec => []NoTemporaryLeft
<1>1. IInv => NoTemporaryLeft
  BY DEF IInv, Sound, Tidy, NoTemporaryLeft, At
<1> QED BY <1>1, SoundAlways, PTL

\* An upload that succeeds has sent the whole version it opened, for versions
\* of any length, written over by any other length at any block.
THEOREM UploadIsWholeHolds == Spec => []UploadIsWhole
<1>1. IInv => UploadIsWhole
  BY DEF IInv, Sound, Counted, UploadIsWhole
<1> QED BY <1>1, SoundAlways, PTL

\* What the destination may become by a step, and when.
LEMMA DestinationMoves ==
  ASSUME IInv, NEW c \in Clients, Step(c), dest' # dest
  PROVE  dest' = incoming[c] /\ (dest = Absent \/ job[c].force)
<1>1. TypeOK /\ Sound(c)
  BY DEF IInv
<1>2. Publish(c) \/ Unlink(c) \/ Clean(c)
  BY DEF Step, CheckDestination, StartDownload, Receive, ListParent, OpenSource,
         SendBlock, UploadBreaks, EndUpload, DeleteFile
<1> QED BY <1>1, <1>2, DownloadEnds

\* The destination of a download is its old self or all that was answered,
\* for files of any length.
THEOREM DownloadIsAtomicHolds == Spec => DownloadIsAtomic
<1>1. IInv /\ [Next]_vars =>
        [\A c \in Clients : Step(c) /\ dest' # dest => dest' = incoming[c]]_vars
  BY DestinationMoves
<1> QED BY <1>1, SoundAlways, PTL DEF Spec, DownloadIsAtomic

\* Without --force no destination is replaced, whenever it appeared.
THEOREM KeepsUnforcedHolds == Spec => KeepsUnforced
<1>1. IInv /\ [Next]_vars =>
        [\A c \in Clients :
            Step(c) /\ dest' # dest => dest = Absent \/ job[c].force]_vars
  BY DestinationMoves
<1> QED BY <1>1, SoundAlways, PTL DEF Spec, KeepsUnforced

\* An upload without --force replaces nothing and a delete removes no
\* directory, as long as nobody changes the entry after it was listed.
THEOREM ChangesOnlyWhatItListedHolds == Spec => ChangesOnlyWhatItListed
<1>1. ASSUME IInv, NEW c \in Clients, Step(c), remote' # remote, c \notin disturbed
      PROVE  Asked(c)
  <2>1. TypeOK /\ Sound(c)
    BY <1>1 DEF IInv
  <2>2. UploadBreaks(c) \/ EndUpload(c) \/ DeleteFile(c)
    BY <1>1 DEF Step, CheckDestination, StartDownload, Receive, Publish, Unlink, Clean,
           ListParent, OpenSource, SendBlock, entry
  <2> QED BY <1>1, <2>1, <2>2, UploadEnds
<1>2. IInv /\ [Next]_vars =>
        [\A c \in Clients :
            Step(c) /\ remote' # remote /\ c \notin disturbed =>
                CASE job[c].kind = "delete" -> remote # Directory
                  [] OTHER -> remote = Absent \/ job[c].force]_vars
  BY <1>1 DEF Asked
<1> QED BY <1>2, SoundAlways, PTL DEF Spec, ChangesOnlyWhatItListed
=============================================================================

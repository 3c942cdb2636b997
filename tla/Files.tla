------------------------------- MODULE Files -------------------------------
(***************************************************************************)
(* file download, file upload and file delete: services/files.py with the  *)
(* streams of rws/client.py, on one controller file and one local file.    *)
(*                                                                         *)
(* The content of a file is a sequence of blocks, each of the version it   *)
(* was written from.  Other programs change the controller file, the local *)
(* destination and the file being uploaded at any time, and a command may  *)
(* be killed between any two steps.  The write access is left out: it does *)
(* not keep other tools away from files, so disturbed says who met them.   *)
(***************************************************************************)
EXTENDS Naturals, Sequences, RwsRequest

CONSTANTS Clients,
          Versions,
          Size,        \* how many blocks each version has
          Absent,      \* no such file
          Directory,   \* a directory of that name
          Listing,     \* what a GET of a directory answers
          Jobs,        \* what an invocation may be asked to do
          MaxForeign   \* bound: changes by other programs

ASSUME SizeAssumption == Size \in [Versions -> Nat \ {0}]
ASSUME EntriesAssumption == Listing \notin Versions /\ Absent # Directory
ASSUME JobsAssumption ==
    Jobs \subseteq [kind : {"download", "upload", "delete"}, force : BOOLEAN]
ASSUME ForeignAssumption == MaxForeign \in Nat

Blocks == Versions \cup {Listing}

Whole(v) == [i \in 1..Size[v] |-> v]

Wholes == {Whole(v) : v \in Versions}

PCs == {"check", "get", "receive", "publish", "unlink", "clean",
        "list", "open", "send", "put", "delete", "exited", "killed"}

VARIABLES
    remote,    \* controller: the file
    dest,      \* local: the destination of the downloads
    source,    \* local: the file the uploads read
    temp,      \* local: the temporary file of each download
    foreign,   \* how many changes other programs made
    job,       \* what each invocation was asked to do
    pc,        \* its next step
    incoming,  \* what the controller sends to a download
    sent,      \* what an upload has read and sent
    size,      \* `size`: blocks of the local file when it was opened
    seen,      \* history: what that file has been since, in order
    disturbed, \* history: for whom the file changed after it was listed
    result     \* how the command ends

vars == <<remote, dest, source, temp, foreign, job, pc, incoming, sent, size,
          seen, disturbed, result>>
entry == <<remote, disturbed>>
download == <<temp, incoming>>
upload == <<sent, size, seen>>

TypeOK ==
    /\ remote \in Seq(Blocks) \cup {Absent, Directory}
    /\ dest \in Seq(Blocks) \cup {Absent}
    /\ source \in Wholes
    /\ temp \in [Clients -> Seq(Blocks) \cup {Absent}]
    /\ foreign \in 0..MaxForeign
    /\ job \in [Clients -> Jobs]
    /\ pc \in [Clients -> PCs]
    /\ incoming \in [Clients -> Seq(Blocks)] /\ sent \in [Clients -> Seq(Blocks)]
    /\ size \in [Clients -> Nat]
    /\ seen \in [Clients -> Seq(Wholes)]
    /\ disturbed \subseteq Clients
    /\ result \in [Clients -> {"none", "ok", "error", "interrupt"}]

\* An upload with --force does not list the directory first.
FirstPC(j) == CASE j.kind = "download" -> "check"
                [] j.kind = "upload" /\ j.force -> "open"
                [] OTHER -> "list"

Init ==
    /\ remote \in Wholes \cup {Absent, Directory}
    /\ dest \in Wholes \cup {Absent}
    /\ source \in Wholes
    /\ temp = [c \in Clients |-> Absent]
    /\ foreign = 0
    /\ job \in [Clients -> Jobs]
    /\ pc = [c \in Clients |-> FirstPC(job[c])]
    /\ incoming = [c \in Clients |-> <<>>]
    /\ sent = [c \in Clients |-> <<>>]
    /\ size = [c \in Clients |-> 0]
    /\ seen = [c \in Clients |-> <<>>]
    /\ disturbed = {}
    /\ result = [c \in Clients |-> "none"]

-----------------------------------------------------------------------------
(* Control flow of one invocation.                                         *)

At(c, p) == pc[c] = p

Goto(c, p) ==
    /\ pc' = [pc EXCEPT ![c] = p]
    /\ UNCHANGED result

Finish(c, r, p) ==
    /\ pc' = [pc EXCEPT ![c] = p]
    /\ result' = [result EXCEPT ![c] = r]

Continue(c, e, p) == IF e = "none" THEN Goto(c, p) ELSE Finish(c, e, "exited")

\* What a local step can come to, besides working: an OSError, or Ctrl-C.
Failures == {"error", "interrupt"}

\* Between the listing and the request that follows it.
Listed(c) == pc[c] \in {"open", "send", "put", "delete"}

\* The controller file becomes e, by whom or what is not in Who.
Becomes(e, Who) ==
    /\ remote' = e
    /\ disturbed' = IF e = remote THEN disturbed
                    ELSE disturbed \cup {c \in Clients \ Who : Listed(c)}

-----------------------------------------------------------------------------
(* download_file.                                                          *)

\* The faulty variant of Cleans: only an error is cleaned up after.
CleansErrors(r) == IF r = "error" THEN "clean" ELSE "exited"

\* The finally block, whatever is raised.
Cleans(r) == "clean"

Fails(c, r) == Finish(c, r, Cleans(r))

CheckDestination(c) ==
    /\ At(c, "check")
    /\ IF dest # Absent /\ ~job[c].force
       THEN Finish(c, "error", "exited") ELSE Goto(c, "get")
    /\ UNCHANGED <<entry, dest, source, download, foreign, job, upload>>

\* The answer to a GET: the same resource lists a directory.
Answer == IF remote = Directory THEN <<Listing>> ELSE remote

\* The temporary file is created, and the stream begins.
StartDownload(c) ==
    /\ At(c, "get")
    /\ temp' = [temp EXCEPT ![c] = <<>>]
    /\ \E o \in ReadOutcomes :
          IF o = "done" /\ remote # Absent
          THEN incoming' = [incoming EXCEPT ![c] = Answer] /\ Goto(c, "receive")
          ELSE UNCHANGED incoming /\ Fails(c, Required(o, FALSE))
    /\ UNCHANGED <<entry, dest, source, foreign, job, upload>>

\* A faulty variant of Broken: a stream that breaks off is taken as complete.
BrokenIsEnd(c) == Goto(c, "publish")

Broken(c) == \E r \in Failures : Fails(c, r)

Receive(c) ==
    /\ At(c, "receive")
    /\ \/ /\ Len(temp[c]) < Len(incoming[c])
          /\ temp' = [temp EXCEPT ![c] = Append(@, incoming[c][Len(@) + 1])]
          /\ UNCHANGED <<pc, result>>
       \/ Len(temp[c]) = Len(incoming[c]) /\ Goto(c, "publish") /\ UNCHANGED temp
       \/ Broken(c) /\ UNCHANGED temp
    /\ UNCHANGED <<entry, dest, source, incoming, foreign, job, upload>>

\* A faulty variant of Overwrites: os.replace in either case.
AlwaysOverwrites(c) == TRUE

Overwrites(c) == job[c].force

\* os.replace, or os.link, which fails if the destination exists.
Publish(c) ==
    /\ At(c, "publish")
    /\ \/ /\ Overwrites(c)
          /\ dest' = temp[c]
          /\ temp' = [temp EXCEPT ![c] = Absent]
          /\ Finish(c, "ok", "exited") \/ Fails(c, "interrupt")
       \/ /\ ~Overwrites(c) /\ dest = Absent
          /\ dest' = temp[c]
          /\ Goto(c, "unlink") \/ Fails(c, "interrupt")
          /\ UNCHANGED temp
       \/ (\E r \in Failures : Fails(c, r)) /\ UNCHANGED <<dest, temp>>
    /\ UNCHANGED <<entry, source, incoming, foreign, job, upload>>

Unlink(c) ==
    /\ At(c, "unlink")
    /\ \/ temp' = [temp EXCEPT ![c] = Absent] /\ Finish(c, "ok", "exited")
       \/ Fails(c, "interrupt") /\ UNCHANGED temp
    /\ UNCHANGED <<entry, dest, source, incoming, foreign, job, upload>>

Clean(c) ==
    /\ At(c, "clean")
    /\ temp' = [temp EXCEPT ![c] = Absent]
    /\ Goto(c, "exited")
    /\ UNCHANGED <<entry, dest, source, incoming, foreign, job, upload>>

-----------------------------------------------------------------------------
(* upload_file.                                                            *)

\* A faulty variant of Removable: a directory is a match like any other.
RemovableAny == remote # Absent

\* What delete_file takes: refusing a directory, and what is not there.
Removable == remote \notin {Absent, Directory}

\* list_directory of the parent, before an upload or a delete.
ListParent(c) ==
    /\ At(c, "list")
    /\ \E o \in ReadOutcomes :
          IF job[c].kind = "upload"
          THEN Continue(c, Required(o, remote = Absent), "open")
          ELSE Continue(c, Required(o, Removable), "delete")
    /\ UNCHANGED <<entry, dest, source, download, foreign, job, upload>>

\* The file is measured and opened.
OpenSource(c) ==
    /\ At(c, "open")
    /\ \/ /\ size' = [size EXCEPT ![c] = Len(source)]
          /\ seen' = [seen EXCEPT ![c] = <<source>>]
          /\ Goto(c, "send")
       \/ UNCHANGED <<size, seen>> /\ \E r \in Failures : Finish(c, r, "exited")
    /\ UNCHANGED <<entry, dest, source, download, foreign, job, sent>>

\* The chunks of RwsClient.upload: the file is read while it is sent.
SendBlock(c) ==
    /\ At(c, "send")
    /\ IF Len(sent[c]) < Len(source)
       THEN /\ sent' = [sent EXCEPT ![c] = Append(@, source[Len(@) + 1])]
            /\ UNCHANGED <<pc, result>>
       ELSE Goto(c, "put") /\ UNCHANGED sent
    /\ UNCHANGED <<entry, dest, source, download, foreign, job, size, seen>>

\* A faulty variant of Sized: the count is not compared.
SizedAnyhow(c) == TRUE

Sized(c) == Len(sent[c]) = size[c]

\* The stream breaks off: the controller keeps what it had, or what it got.
UploadBreaks(c) ==
    /\ At(c, "send")
    /\ \E r \in Failures : Finish(c, r, "exited")
    /\ \/ Becomes(remote, {c})
       \/ remote # Directory /\ Becomes(sent[c], {c})
    /\ UNCHANGED <<dest, source, download, foreign, job, upload>>

\* The answer to the PUT.  The file is stored before the count is compared.
EndUpload(c) ==
    /\ At(c, "put")
    /\ \E o \in Outcomes :
          /\ Applied(o) => remote # Directory
          /\ Becomes(IF Applied(o) THEN sent[c] ELSE remote, {c})
          /\ IF o = "done" /\ Sized(c) THEN Finish(c, "ok", "exited")
             ELSE Finish(c, Required(o, FALSE), "exited")
    /\ UNCHANGED <<dest, source, download, foreign, job, upload>>

-----------------------------------------------------------------------------
(* delete_file.                                                            *)

DeleteFile(c) ==
    /\ At(c, "delete")
    /\ \E o \in Outcomes :
          /\ Applied(o) => remote # Absent
          /\ Becomes(IF Applied(o) THEN Absent ELSE remote, {c})
          /\ Finish(c, IF o = "done" THEN "ok" ELSE Raised(o), "exited")
    /\ UNCHANGED <<dest, source, download, foreign, job, upload>>

-----------------------------------------------------------------------------
(* Everybody else.                                                         *)

\* The process is killed: no finally block runs.  To the controller a request
\* cut short in this way is one that was interrupted.
Kill(c) ==
    /\ pc[c] \notin {"exited", "killed"}
    /\ Goto(c, "killed")
    /\ UNCHANGED <<entry, dest, source, download, foreign, job, upload>>

Foreign ==
    /\ foreign < MaxForeign
    /\ foreign' = foreign + 1
    /\ UNCHANGED <<download, job, pc, sent, size, result>>

ForeignRemote ==
    /\ Foreign
    /\ \E e \in Wholes \cup {Absent, Directory} : e # remote /\ Becomes(e, {})
    /\ UNCHANGED <<dest, source, seen>>

ForeignDestination ==
    /\ Foreign
    /\ dest' \in (Wholes \cup {Absent}) \ {dest}
    /\ UNCHANGED <<entry, source, seen>>

\* The file being uploaded is written in place.
ForeignSource ==
    /\ Foreign
    /\ source' \in Wholes \ {source}
    /\ seen' = [c \in Clients |->
                   IF At(c, "send") THEN Append(seen[c], source') ELSE seen[c]]
    /\ UNCHANGED <<entry, dest>>

Step(c) ==
    \/ CheckDestination(c) \/ StartDownload(c) \/ Receive(c)
    \/ Publish(c)          \/ Unlink(c)        \/ Clean(c)
    \/ ListParent(c)       \/ OpenSource(c)    \/ SendBlock(c)
    \/ UploadBreaks(c)     \/ EndUpload(c)     \/ DeleteFile(c)

Next ==
    \/ \E c \in Clients : Step(c) \/ Kill(c)
    \/ ForeignRemote \/ ForeignDestination \/ ForeignSource

Spec == Init /\ [][Next]_vars

-----------------------------------------------------------------------------
(* Properties.                                                             *)

\* README.md: "download atomically".  The destination is what it was, or all
\* of what the controller answered, at every moment, whether the download
\* fails, breaks off, or is killed.
DownloadIsAtomic ==
    [][\A c \in Clients : Step(c) /\ dest' # dest => dest' = incoming[c]]_vars

\* --force permits the replacement: without it no file is replaced, not even
\* one that appeared while the download was under way.
KeepsUnforced ==
    [][\A c \in Clients :
          Step(c) /\ dest' # dest => dest = Absent \/ job[c].force]_vars

\* A download that ends, in whatever way, leaves no temporary file behind.
NoTemporaryLeft == \A c \in Clients : At(c, "exited") => temp[c] = Absent

\* The length of the file tells what happened to it while it was read: nothing,
\* or one rewriting by a version of another length.
Telling(h) == Len(h) = 1 \/ (Len(h) = 2 /\ Len(h[1]) # Len(h[2]))

\* The file is sent while it is read, and another program may write it at the
\* same time.  Counting what was sent is enough to tell: an upload that is a
\* success has sent the whole version it opened, and nothing of the one that
\* came over it, shorter or longer and at whatever block.  (A version of the
\* same length, or two of them, it cannot tell.)
UploadIsWhole ==
    \A c \in Clients :
        result[c] = "ok" /\ job[c].kind = "upload" /\ Telling(seen[c]) =>
            sent[c] = seen[c][1]

\* A delete removes no directory, and an upload without --force replaces
\* nothing, unless somebody else changed the entry after it was listed.
ChangesOnlyWhatItListed ==
    [][\A c \in Clients :
          Step(c) /\ remote' # remote /\ c \notin disturbed =>
              CASE job[c].kind = "delete" -> remote # Directory
                [] OTHER -> remote = Absent \/ job[c].force]_vars
=============================================================================

# A verification project for omnicorectl

`omnicorectl` is a command-line client that administers an ABB OmniCore
controller over Robot Web Services (RWS).  Every invocation is a short sequence
of blocking HTTP requests.  Nothing in one invocation runs concurrently; what
makes the program hard is everything around it: other invocations and the
pendant work on the same controller between any two requests, every request can
be refused, time out after it was carried out, or be interrupted, and the
commands promise transactions (a lock, a guarded write, a rollback) on top.

The TLA+ modules here model those transactions request by request, TLC checks
them on small instances, and TLAPS proves the central results for every
instance.  All paths below are relative to the repository; the services are in
`src/omnicorectl/services/`.

## 1. The system

| Component | State it keeps or changes | Operations | What is hard |
|---|---|---|---|
| Write-access lifecycle, Motion Control (`control_station.py`) | the holder of the controller's single write access, the Motion Control switch, `acquired`, `failed` | register, request, verify, yield, release; enable, verify, disable, verify | exclusion by a server-side holder, clean-up on every exit path, lost answers |
| HTTP session (`rws/client.py`, `errors.py`) | the session cookie, time of the last request, `_closed` | request, upload, download, delete, close | one failed request can mean "done" or "not done" |
| Source editing (`rapid_editing.py`, `rapid.py`) | module text, change count, linked program; `original`, `written`, `current_module` | `write_module`, `patch_module`, `deploy_module`, `_restore_source`, `_rollback_deploy` | optimistic concurrency by change count, rollback of several requests |
| CFG (`cfg.py`) | configuration instances; `before`, `created` | `set_attribute`, `create_instance`, `delete_instance`, paged lists | check-then-act, rollback, what the error message claims |
| CLI (`cli.py`, `rapid_cli.py`) | none of its own | which checks and scopes surround which operation | checks made before the access is held |
| Controller lifecycle (`controller.py`) | motor state, restart count | status, `set_motor_state` (polls), `warm_restart` | polling against a deadline |
| Execution and debugging (`rapid_debug.py`) | execution state, pointers, breakpoints, symbols | start, stop and single requests | a start moves the robot |
| Files (`files.py`) | controller files, a local temporary file | list, download, upload, delete | existence checks before the request, atomic replacement |
| Backup, progress (`backup.py`, `rws/progress.py`) | asynchronous operations of the controller | create, poll | a timeout while the operation goes on |
| I/O (`io.py`), HAL parsing (`rws/hal.py`), output (`output.py`) | none | reads | paging over a list that changes |

How they interact: `cli.main` opens one `RwsClient`, and `_dispatch` or
`dispatch_rapid` runs the checks of the command, enters
`ControlStationService.write_access` (and `motion_control` for a start), calls
one service operation inside it, and leaves through two `finally` blocks and
`RwsClient.close`.  Between invocations there is no communication except
through the controller.

What makes each part correct:

* lifecycle: the operation runs only while its station holds the access; the
  access is given back; Motion Control is never left on behind a success; what
  was checked under the access is still true when the operation is sent;
* editing: only the source that was shown is replaced; a success is what was
  asked for, stored and linked; a failure is undone or said not to be;
* CFG: the same, and a rollback removes only what its own command created;
* motors, progress, backup: the wait ends, and a reported success is one;
* files: the destination of a download is old or complete; no silent overwrite;
* execution: a start that the controller denied is explained by what it lacked;
* paging: what is returned is the list, once and in order; the reading ends;
* session: requests keep their distance, and no session stays behind.

`PROJECT.json` lists the hazards line by line, with the property that watches
over each or the reason why none does.

## 2. Modules

```text
WriteAccess           the lock that the operations rely on (abstract)
RwsRequest            outcomes of one request, and what the command is left with
  ControlStation      write access, Motion Control, all mutating commands;
                      implements WriteAccess
    MCControlStation        TLC instance      ControlStationProofs   TLAPS
  Execution           rapid start, stop, reset-pp; uses the lock of WriteAccess
    MCExecution             TLC instance      ExecutionProofs        TLAPS
  RapidEdit           rapid write, edit, patch
    MCRapidEdit             TLC instance      RapidEditProofs        TLAPS
  CfgTransaction      cfg set, create, delete
    MCCfgTransaction        TLC instance      CfgTransactionProofs   TLAPS
  Deploy              rapid deploy and its staging file
    MCDeploy                TLC instance      DeployProofs           TLAPS
  Waiting             backup create, rapid program load, motors-on and -off
    MCWaiting               TLC instance      WaitingProofs          TLAPS
  Files               file download, upload, delete
    MCFiles                 TLC instance      FilesProofs            TLAPS
  RwsSession          throttle, session cookie and logout of one command
    Paging            lists read page by page, in such a session
      MCPaging              TLC instance      PagingProofs           TLAPS
```

### RwsRequest

One request has one of five outcomes: *done*, *lost* (carried out, but the
answer is lost or unusable), *failed* (refused or never arrived), and
*brokenLate* and *broken*, the same two for a `KeyboardInterrupt`.  `Raised`
says what `_request` and `_raise_for_status` turn that into: nothing, an
`OmnicoreError`, or the interrupt.  A GET has three outcomes, because it changes
nothing.  `Required` adds the `ProtocolError` or `ConfigurationError` that a
service raises about an answer that did arrive.  The subclasses of
`OmnicoreError` are not told apart, except where the code does: the
`ConfigurationError` of `create_instance`.

### WriteAccess

What `ControlStationService.write_access` promises to the block it protects, without
requests: a lock that the controller grants to a station (`holder`), the clients whose
operation may run (`inside`), and whether the local operator has ever taken the lock
away (`revoked`).  A client enters only under its own station, the lock is let go only
when nobody of that station is inside, and `Revoke` is the one way to lose it.
`Exclusion` is what follows for clients with stations of their own.  It is the promise
that `RapidEdit` and `Deploy` assume as `Exclusive` and that `Execution` builds on.

### ControlStation

One action per request of a mutating command, from the check before the access
to the logout.  `pc[s]` is the next request of invocation `s`, `exc[s]` the
exception in flight through the `finally` blocks and in the end the exit status;
`holder`, `motion` and `running` are the controller's.  A command is one of
eight kinds, by what surrounds its operation: which check it makes first
(`ChecksStopped`, `ChecksStartable`), whether it checks again under the access
(`RechecksStopped`), whether it moves the robot, and whether it releases with
best effort.  The operation itself is one step: it changes the controller only if
the station is the holder.

The controller is modelled from how the code uses it: a request for the access
may be answered although it was not granted (the code checks, so the model
lets it matter), a request that enables or disables Motion Control may be
accepted without effect (`set_motion_control` reads the state back, and
`tests/test_control_station.py` has a 204 followed by *false*), a mutating
request is served only to the holder, and
`release-write-access-when-lost` frees the access of a station without a session.
The pendant takes and returns a free access, starts RAPID while it holds it, and
may take the access from a station in the middle of its work
(`OperatorRevokes`, at most `MaxRevocations` times).

`Access` is the refinement mapping: an invocation is inside from the yield to the
release, and the lock counts as revoked once the operator has intervened.
`ImplementsWriteAccess` says that every behaviour of the lifecycle is one of
`WriteAccess`: the requests, the checks and the two `finally` blocks take the steps of
the lock or stutter.

### Execution

`_dispatch_execution` of `rapid_cli.py`.  A start reads the operating mode and the
controller state before it asks for the access; when the request itself is refused with
403, it reads both again to tell a missing grant from a state that changed meanwhile
(`_raise_start_state_error`).  Here mode and motors are switched at any moment
(`SwitchPanel`, at most `MaxChanges` times), which `ControlStation` leaves out; in
return the write access is the lock of `WriteAccess`, and Motion Control is enabled and
disabled, with the read-back that may find it as it was, in one step each.  `result` tells the `AuthorizationError` (*denied*) and the
`ControllerStateError` (*state*) from the other errors, since the code does.  `why` and
`moved` are history: what the controller refused the start for, and whether mode or
motors were switched since.

### RapidEdit

The three source commands on one module of one task.  The controller keeps
`text`, `count` and `linked`; an invocation keeps the version its diff was shown
for (`seen`), the `original` read under the access, the change count its
rollback is guarded with (`known`) and the name it knows the module by
(`current`).  The new source is a function of the one it is applied to, so that a
complete write is a constant function and a patch works on whatever the
controller has.  The controller may store a source wrongly (as one of `Mangled`, which
may link or not), and `damaged` records for whom the copy it put back was stored
so; the code reads back what it writes, but not what it restores.  It may answer
without the new name or change count, and link or not link.  The write access is
abstracted to `Exclusive`: whether two invocations, or an invocation and a foreign
editor, can be inside at once; `ControlStation` shows when that holds.  A module
source is read in one step.  An explicit `--if-change-count`, `--dry-run` and
`--backup` are not modelled: the first is a further refusal, the others change
nothing in the controller.

### CfgTransaction

The three mutating operations on one instance, whose attributes are one value.
Nothing keeps invocations apart here; instead the history variable `disturbed`
records which of them met a change by somebody else, and the properties about the
outcome are claimed for the others.  A set or create that fails takes the
`except Exception` path, which an interrupt bypasses.

### Deploy

`deploy_module` from the check under the access to the clean-up, one action per
request.  The controller keeps the module (`text`, `count`, `linked`) and the
staging file (`staged`, with a note of who wrote it); an invocation keeps the
original source, whether its load returned (`loaded`) and the change count its
rollback is guarded with (`known`, 0 while the code has `None`).  `result` and
`claim` are what the command ends with and what its message says of the rollback.

All invocations deploy the same module, and through the same staging path, which
is what `--remote-path` and the default name allow.  The write access, abstracted
to `Exclusive` as in `RapidEdit`, does not cover files: `ForeignFile` writes or
deletes the staging file between any two requests.  The local file is read twice,
before the access to be validated and again for the upload, and may have changed
in between (`Edited`).  A replacing load is refused if the file is gone, another
one also if the module exists; the controller may store it wrongly,
and `damaged` is as in `RapidEdit`.

### Waiting

The three commands that poll.  `age` counts ticks from the start of a wait, `left`
what remains of a sleep, or of the time in which the answer of a poll has to
arrive: the controller answers a poll at once with what is the case then
(`answer`), and the command handles the answer up to `Latency` ticks later.
Sleeps are not overslept.  `since` is a history variable: the age at which what
the command waits for came about.  An operation of the controller may end well,
end in state *ready* with the code of an error (`bad`), fail, or go on for ever;
at most one backup is made at a time; a safety stop may take the power from the
motors at any moment, and two invocations may switch them in opposite directions.
After a wait the clock is reset, which keeps the states few.  Whether the
destination of a backup exists is a choice at the check, since the model keeps no
file system.

### Files

The three commands on one controller file (`remote`) and one local destination
(`dest`).  A content is a sequence of blocks, so that a download that breaks off, or
an upload of a file that is written in the meantime, can be told from a whole one.
A download keeps a temporary file (`temp`), which every exit but a kill removes in the
`finally` block; what the controller sends is what it had when it was asked
(`incoming`).  A GET of a directory answers its listing, which `download_file` takes
for a content.  An upload reads the local file block by block while it is sent
(`sent`), and compares the count with `size` only when the controller has answered.
If the stream breaks off, the controller keeps what it had or what it got.  `seen` is
history: what the local file has been since the upload opened it.

Other programs change the controller file, the destination and the uploaded file at
any time.  The write access around upload and delete is left out: it does not keep
anybody else away from files.  `disturbed` records for whom the entry changed
between the listing and the request that relies on it.

### RwsSession and Paging

`RwsSession` is the part of `RwsClient` that one command shares between its requests.
A request waits in the throttle (`phase`), for `nap` ticks if the last one is too recent
(`age`, which `_last_request_at` stands for); a sleep may last longer than asked for,
never shorter.  The first request that is answered brings the session cookie and takes
a place in the controller's pool; if that answer is lost the client does not know the
session.  `close` logs out with one more request through the same throttle, swallows
its errors and lets an interrupt pass.  A request that the full pool refuses is one of
outcome *failed*.  `gap` and `excused` are history: the time since the throttle was last
passed, and the invocations that could not have closed their session.

`Paging` puts the four paged lists into such a session.  `pos` counts the entries
before the next page.  `list_instances` and `list_signals` add the page size to it;
`list_breakpoints` and `get_build_errors` add the number of entries they accepted, and
give up when a page without any still promises a next one.  Of the controller the model
assumes that a page without a next link is the last one, and nothing more, of either
kind: pages may be short or empty, and a next link may follow the last entry for ever.
The count of a reader that is led past the end stops at `MaxLength`, which no list
exceeds, so that nothing it depends on is lost.  Entries of another type (`Foreign`) may stand anywhere and are skipped.
Other clients insert and remove entries (`rapid breakpoint set` and `clear`, `cfg create`
and `delete`).  `shifted` records the readers that had passed the place, and those whose
next page does not start where the last one ended (`Skips`).

## 3. What is checked

| Run | Instance | Result |
|---|---|---|
| `access` | two invocations with stations of their own, all pairs of commands, one revocation | all properties hold |
| `shared_station` | two invocations, one station id, no revocation | `HeldThroughScope` is violated |
| `edit` | two invocations over seven jobs, six sources, one foreign edit, exclusive access | all properties hold |
| `patch_rollback_foreign` | one `rapid patch` and a foreign edit at any time | `RollbackUndoesOwnWrite` is violated |
| `cfg` | two invocations over six jobs, four values, one foreign change | all properties hold |
| `cfg_create_left` | one `cfg create` | `RemovedIsGone` is violated |
| `deploy` | two deployments over five jobs, four sources, one change from outside, exclusive access | all properties hold |
| `waiting` | two backups, two program loads, motors-on against motors-off; deadline 3, interval 2, latency 1 | all properties hold |
| `files` | two invocations over five jobs, versions of one and two blocks, two changes by other programs, kills | all properties hold |
| `execution` | two invocations of start, stop or reset-pp with stations of their own, the first with the grant; two switches of mode or motors | all properties hold |
| `paging` | one reader of either kind, lists of up to three entries and a foreign one, two to a page; interval 2, two changes | all properties hold |
| `load_code_ignored` | one `rapid program load` | `LoadIsComplete` is violated |

**access.**  `HeldThroughScope`: from the yield to the `finally` the station is
the holder.  `ReleasedOnSuccess`: exit 0 without best effort means released.
`MotionScoped`: Motion Control is on only inside a start or after a start that
reported a failure, and for the moment between a request that disabled it without
effect and the read-back that tells (`verifyOff`).  `MotionHeldForStart`,
`MotorsSwitchedStopped`: what was verified under the access is still so when the
operation is sent; both Motion Control properties fail once a read-back is dropped.
`AccessReturns`: no station keeps the access for ever, also when the answer to its
request was lost and `acquired` never set.  `StartsExcluded` (an action property): while
an invocation is inside its scope, RAPID is started only by one that is itself a start,
which is what makes the check of the edit commands and of `backup create`, made before
the access, hold from the moment the access is held.  `ImplementsWriteAccess`: the
refinement.

**edit.**  `OverwritesOnlySeen` (an action property): a write replaces exactly
the version whose diff was shown.  `SuccessIsVerified`: success means stored and,
unless `--no-build`, linked without errors.  `FailureIsUndoneOrTold`: once the
write has returned, an error means that the message says that the original is not
back, or that what the rollback stored is in the module and links; and that it is the
original, unless the controller damaged this very copy.  The exception is the
code's: `_restore_source` (`rapid_editing.py:420-428`) builds what it has put back and
does not read it, so that a damaged copy that links is reported as restored, although
`docs/rapid.md:22-23` promises that the original source is.

**cfg.**  `SuccessIsVerified` and `FailureIsUndoneOrTold` as above;
`RemovesOnlyOwnCreation`: the rollback of a create removes an instance only if
the command's own request made it, which is what setting `created` after the
request is for.

**deploy.**  `SuccessIsVerified`: success means that the task has the source that was
validated, linked unless `--no-build`, whatever became of the local and the
staging file, and that no staging file of its own stays behind a clean-up.
`FailureIsUndoneOrTold`: once the load has returned, an error means that the task
is what it was, or the message says that it is not, or that the deployment is
complete and only the clean-up failed, with the same exception for a damaged rollback
copy that links (`_rollback_deploy`, `rapid_editing.py:363-378`).  `FailureIsKept` (an action property): the
rollback and the clean-up never turn an error into a success or into another
error.  `RollbackUndoesOwnLoad` (an action property): the rollback overwrites or
unloads the module only at the change count of its own load.

**waiting.**  `SuccessIsComplete`: a backup is reported only if the operation of this
very command ended well.  `InTimeIsReported`: what came about before the last look
is never reported as a timeout, and that look is at the deadline, for the motors at
most one interval before it.  `WaitIsBounded`: the wait is over one request (for the
motors, one request and one interval) after the deadline.  `EveryWaitEnds`: every
command ends, even if the controller never finishes.

**files.**  `DownloadIsAtomic`, `KeepsUnforced`, `ChangesOnlyWhatItListed` (action
properties): the destination changes only to the whole of what the controller
answered; without `--force` it is never replaced, even if it appeared during the
download; a delete removes no directory, and an upload without `--force` replaces
nothing, unless the entry changed after it was listed.  `NoTemporaryLeft`: a download
that ends leaves no temporary file.  `UploadIsWhole`: a success has sent
the whole version it opened, even if another program wrote a shorter or longer one over
the file at any block of the reading; a version of the same length, or two in a row, the
count cannot tell.

**execution.**  `DenialExplained`: a start that was refused because of the mode or the
motors ends as *state*, one that lacked something else ends as *denied*, whatever the
holder does meanwhile, unless the panel was switched between the refusal and the second
look or the clean-up was interrupted.  Both reads precede the first comparison, so a
state that changes between them is still judged by what each read saw.

**paging.**  `ListedIsTheList`: a reader that returns has exactly the entries of its type,
once and in order, as the list was for its last page: changes ahead of the reader
show, entries of another type do not upset the count.  Excluded are a change behind the
reader, which the offsets cannot notice, foreign entries in a list that advances by
the accepted entries, and short pages in one that advances by the page size.
`EveryReadEnds`: a reader of breakpoints or build errors ends, whatever the next links
do.  A reader of instances or signals, which follows any next link (`cfg.py:126-128`,
`io.py:163-165`), either ends or has been led past the end of the list for good: that is
the one way to keep it for ever.
`RequestsSpaced` (an action property): two requests of a client, the logout
and one after an interrupted sleep included, pass the throttle an interval apart; what
the network makes of the distance is not the client's to say.  `NoSessionLeft`: a
command that ended leaves no session, also after an error or an interrupt, unless the
answer that opened it was lost, the logout did not get through, or it was killed.

**The violated properties** state what the documentation or the messages say:

1. `HeldThroughScope` with a shared station (`control_station.py:165`): the
   default identity is a function of host name, controller and user
   (`cli.py:653`), so two invocations of one user are one station to the
   controller, and the first release ends the access of both.
2. `RollbackUndoesOwnWrite` (`README.md:133`): a patch that detects a foreign
   edit by its change count rolls back under that very count
   (`rapid_editing.py:206`) and overwrites the edit.
3. `RemovedIsGone` (`cfg.py:232`, `cfg.py:301`): a create whose answer is lost
   removes nothing and says that it did.
4. `LoadIsComplete` (`docs/rapid.md:180`): `load_program` looks at the state of the
   progress, not at its code (`rapid.py:668`), although the backup that reads the same
   resource does (`backup.py:92`, `tests/test_backup.py:170`).  An operation that ended
   ready with the code of an error is followed by `get_program`, which accepts the
   program that was there before.

**Bounds.**  Two invocations suffice for every race that the code or its guards
know of: one acts, the other interferes between any two of its requests.  One
revocation, one foreign edit and one foreign change place the interference at
every point; a second one finds either the access gone or the count already
different.  The sources of `edit` are two that link, one that does not, one that
renames, and two damaged copies: one that links, and one without its end, which is no
module and does not link; the jobs are a write without a build, one without a difference, one that does not link with and
without rollback, a renaming one, a patch whose effect depends on the source it
meets and one that destroys the module.  The values of `cfg` are the default,
another valid one, an invalid one and what the controller may store instead.
The controller of `deploy` has a damaged copy that links and one that does not; its
jobs are a replacing and a new deployment that link, and
three that do not: replacing with and without rollback, and new.  They differ in
`--keep-upload`, too.  In `waiting` an interval that does not divide the deadline
makes the last sleep the clipped one, and a latency below the interval lets an answer
arrive on either side of the deadline.  In `files` two blocks make a broken
stream differ from a whole one and one version shorter than the other, and two changes let one program interfere twice with
the same command, or with both sides of it.  In `execution` two switches let a state
change after the preflight and change back before the second look, or after it.  In
`paging` three entries and a foreign one at two to a page make three pages, the last one
empty; two changes insert and remove on either side of the reader.  One reader is
enough: readers share nothing but the list, which changes anyhow.
`edit`, `cfg`, `deploy` and `files` use the symmetry of the two invocations; `access` and
`waiting`, which have a liveness property, do not.  All runs but those of `ControlStation` and `Execution`
stop when every command has ended, hence their `CHECK_DEADLOCK FALSE`; in these the
pendant goes on for ever.

**Fairness.**  `FairSpec` assumes weak fairness of the steps of each invocation
(every request ends at the latest with the HTTP timeout that `RwsClient` sets, and
the code has no waiting loop on this path) and of `ReleaseLost` (every
registration asks for `release-write-access-when-lost`).  Nothing is assumed of the
pendant or the operator.  `Waiting` assumes it of the steps of each invocation and of
the passing of time; nothing is assumed of the operations of the controller, which
need never end, nor of interrupts.  `Paging` assumes the same: every request ends at
the latest with the HTTP timeout, every sleep ends, and nothing is assumed of the
changes of the list nor of its next links.

Every property is checked against a faulty variant of a definition of the model,
such as a holder check left out, a read-back not compared or a flag set too early,
under which TLC finds it violated.

## 4. What is proved

`ControlStationProofs` proves, for any set of sessions, any stations and any number
of revocations, from `StationsAssumption` (the pendant and nobody are no
stations), `LocalAssumption` and `RevocationsAssumption`:

* `TypeCorrect`;
* `HeldThroughScopeHolds`, given `DistinctStations`.  The property is inductive
  with `TypeOK`: `StepMovesHolder` shows that an invocation moves the holder only
  from nobody to its own station or from its own station to nobody, and
  `ScopeEntry` that the scope is entered by the status check alone, which saw the
  station as the holder.  Distinct stations are needed where another invocation
  lets go: with a shared one the theorem is false, as the run `shared_station` shows;
* `ReleasedOnSuccessHolds`, given `DistinctStations`: the only ways to an exit without
  an exception end in a release that was answered;
* `PlacedHolds`, the strengthening (`Placed`) that the next two need: which kinds of
  commands can stand at the recheck and Motion Control steps;
* `MotionScopedHolds`, for any stations, shared ones included, and although an accepted
  request may leave Motion Control as it was;
* `MotionHeldForStartHolds` and `MotorsSwitchedStoppedHolds`, given `DistinctStations`:
  the two are inductive together with `HeldThroughScope` and `Placed`, because whoever
  could disturb what was verified has to hold the access first;
* `ImplementsWriteAccessHolds`, given `DistinctStations`: every step of the lifecycle is
  a step of `WriteAccess` under the mapping of `Access`, or a stutter.
  `StepImplements` has one case per action; the ones that matter are the status check,
  which enters (`HeldThroughScope` is not enough: the check has to have seen the own
  station), the release and the restart, which leave, and the lost release, which needs
  that nobody of that station is inside any more.  `EnvironmentImplements` does the
  same for the pendant, the operator and the controller;
* `StartsExcludedHolds`, given `DistinctStations`: who starts RAPID is the pendant that
  holds the access or a start that is served (`StartedByHolder`); inside a scope the
  holder is the invocation itself;
* `OperationsExclude`, given `DistinctStations`: what the lock promises, of the
  lifecycle: the protected operations exclude each other until the operator intervenes.
  `HeldThroughScope` says that the holder is the own station, this one that nobody else
  is inside.

`CfgTransactionProofs` proves, for any invocations, jobs and values and any number
of foreign changes, from `ValuesAssumption`, `JobsAssumption` and
`ForeignAssumption`:

* `TypeCorrect`;
* `SoundHolds`: `IInv`, which is `TypeOK` and `Sound(s)` of every invocation, is
  invariant.  The properties speak of an invocation that has ended, so none of them is
  inductive; `Sound(s)` says what holds on the way there: `CreationMade` (past its
  POST a create has made an instance), `StartedClean` (what a create found was
  nothing, and nothing is posted at the start), `ReadsBackValid` (what is read back was
  validated), `Verified` and `UndoneOrTold` (the two properties, one invocation at a
  time).  A step of the invocation itself keeps its own `Sound` (`SetKeeps`,
  `CreateKeeps`, `DeleteKeeps`, one step per action).  A step of another one, or a
  foreign change, leaves the instance alone or marks the invocation as disturbed
  (`ChangeDisturbs`, `StepLeavesOthers`), and either keeps `Sound` (`UnmovedKeeps`);
* `SuccessIsVerifiedHolds`, `FailureIsUndoneOrToldHolds` and
  `RemovesOnlyOwnCreationHolds`, each a consequence of `SoundHolds`.  The last one
  does not need the invocation to be undisturbed.

`RapidEditProofs` proves, for any invocations, sources and jobs and any number of foreign
edits, from `TextsAssumption`, `ForeignAssumption` and `JobsAssumption`:

* `TypeCorrect`, by way of `StepFlows`: every action is one of eight moves of the
  control flow;
* `SoundAlways`, given `Exclusive`: `Sound` is invariant.  `Alone` says that the access is
  never held twice, which is why nobody else moves the module of an invocation inside.
  `Fresh` says that up to the write the module is the original, and the one that was
  shown; it rests on `Versioned`, that a change count stands for one source
  (`VersionsAge`), so that comparing the counts is enough.  `Written` and `Undone` follow
  the module through the verification and the rollback to where the properties look;
* `OverwritesOnlySeenHolds`, `SuccessIsVerifiedHolds` and `FailureIsUndoneOrToldHolds`,
  whatever the damaged copies are and whether or not they link.

`DeployProofs` proves, for any invocations, sources and jobs and any number of changes
from outside, from the assumptions of `Deploy`:

* `TypeCorrect`;
* `FailureIsKeptHolds`, for shared stations, too, from `Reported`: what an invocation has
  reported fits where it stands;
* `SoundAlways`, given `Exclusive`: `Alone` as above, `Own` (until the rollback has
  written, the change count is that of the own load), `Right` and `Back` (the way to a
  success, and through a rollback).  Four lemmas (`EarlyEffect`, `LoadingEffect`,
  `UndoEffect`, `EndingEffect`) say what the steps of each stage come to; the invariants
  follow from them without a look at the actions.  A foreign change of the staging file
  does not matter, because nothing on these ways asks for more than that it is not the
  invocation's own (`OutsideAssumption`);
* `SuccessIsVerifiedHolds`, `RollbackUndoesOwnLoadHolds` and
  `FailureIsUndoneOrToldHolds`, whatever the damaged copies are.

`ExecutionProofs` proves, for any invocations and any number of switches, from
`ChangesAssumption`:

* `TypeCorrect`;
* `DenialExplainedHolds`.  The invariant `Told` ties the history to the present: as long
  as nobody switches the panel the reasons of the denial are those of now (`Current`), an
  invocation that reads again was denied and has seen the present mode (`Placed`), and
  what it reports follows from the reasons (`Reported`);
* `LockExcludes`: the abstract lock of `WriteAccess` keeps clients with stations of
  their own (`OwnStations`) apart, from the invariant that whoever is inside is the holder
  (`Held`);
* `ImplementsLock` and `RequestsExclude`: the commands of `Execution` take the steps of
  that lock or stutter, and so inherit its exclusion.

`WaitingProofs` proves, for any invocations and jobs and for every deadline, interval
and latency, from `TimeAssumption` and `JobsAssumption`:

* `SoundAlways`: `IInv`, which is `TypeOK` and `Sound(c)` of every invocation, is
  invariant.  `Paced` bounds the sum of the clock and of what the sleep or the answer
  still lacks, which is what stays the same while time passes: the sleep of an operation
  is cut at the deadline, that of the motors is not.  `Dated` keeps the history honest
  (nothing has a date before it came about), and `Looked` relates it to the last look:
  what an invocation saw unfinished was so one latency and one sleep ago at most.
  `Seen` says that a good answer is about an operation that stays good;
* `TypeCorrect`: in particular no clock passes `Never`, so that the bound of the model
  cuts no wait short;
* `SuccessIsCompleteHolds`, `InTimeIsReportedHolds` and `WaitIsBoundedHolds`, each a
  consequence of `SoundAlways`.  The run has a deadline of 3, an interval of 2 and a
  latency of 1; the program waits 300 s for a backup and 8 s in steps of 0.25 s for the
  motors, and the theorems cover those, too.

`FilesProofs` proves, for any invocations, files of any length and any number of changes
by other programs, from `SizeAssumption`, `JobsAssumption` and `ForeignAssumption`:

* `SoundAlways`: `Tidy` says where a download can have a temporary file and that what has
  arrived is the beginning of what was sent, and all of it where it is published
  (`DownloadReceives`: the stream adds the next block, or ends when it is as long, and
  then `SameContent`).  `Current` says that what was listed is still there as long as
  nobody else changed it; `BecomesKeeps` shows that whoever changes the file tells those
  who listed it.  `Counted` follows an upload: as long as the length of the file
  tells what happened to it (`Telling`), what was sent is a beginning of the version
  opened, or no longer than the one that came over it (`Traced`).  At the end of the file
  as much was sent as the last version has, so that the count leaves the first case only
  (`SizedIsWhole`);
* `TypeCorrect`, `NoTemporaryLeftHolds` and `UploadIsWholeHolds`, from `SoundAlways`;
* `DownloadIsAtomicHolds` and `KeepsUnforcedHolds`: only the last steps of a download
  move the destination, and `DownloadEnds` says to what and when;
* `ChangesOnlyWhatItListedHolds`: only the request of an upload or of a delete changes the
  controller file, and `UploadEnds` says when it may.

`PagingProofs` proves, for any readers, page size and interval, from `IntervalAssumption`,
`PageAssumption`, `ChangesAssumption` and `LengthAssumption`:

* `SessionTypeCorrect`;
* `RequestsSpacedHolds`, from `Measured`: the clock of the throttle is the time that has
  passed, and a sleep is at least as long as what is missing;
* `NoSessionLeftHolds`, from `Closable`: whoever has a session is still running, or has an
  excuse;
* `ReadAlways`: `TypeOK` and `Read(i)` of every reader.  A reader behind whose back nothing
  moved has collected what comes of the entries it has passed (`Passed`, all of them if it
  was led past the end); when it has left with success, what comes of the list of its last
  page.  A page adds to the one what it holds (`PageAdds`, `PagePasses`), the next one
  starts where it ended (`NextPlace`), and a change at the k-th entry leaves the first k - 1 alone
  (`InsertAtLeaves`, `RemoveAtLeaves`, `BeforeSame`);
* `TypeCorrect`, with a list that never holds an entry twice, and `ListedIsTheListHolds`.

The last one needs what `OfType`, a recursive function, makes of a list of any length.
The induction theorems of the library take an operator, which the provers here cannot
instantiate; `Induct` and `SeqInduct` are stated for sets instead, and follow from the
well-foundedness of the order of the numbers.  With them `CollectsExists` shows that the
recursion defines a function, `CollectsPrefix` that it looks at nothing ahead, and
`OfTypeConcat` that what comes of two parts is what comes of the whole.

Only model-checked: `AccessReturns`, `EveryWaitEnds` and `EveryReadEnds`, since liveness
under fairness is out of the prover's reach.  Every other property of a passing run is a
theorem.  The violated properties are no theorems, of course; `shared_station` shows that
`DistinctStations` cannot be dropped.

## 5. Not modelled, and the plan

Not modelled for good: option parsing, output, the fields HAL parsing reads (a rejected
answer is an error of `Required`, or the outcome *lost*), the wording of messages other
than what they claim of a rollback, TLS and credentials, the regular expressions of `validate_module_source`
beyond accepting or rejecting.

The primitives of `rapid_debug.py` and `rapid.py` that are one request without state in
the client (pointers of one task, symbols, program names, attributes) are not modules of
their own: what can go wrong in them is an outcome of `RwsRequest` inside the scope of
`ControlStation`.  What a temporary source file of the controller holds when an edit falls
between the two requests of `get_module_source` is decided by the controller, and no code
here shows it.

The files of the host are kept simple: in `Files` the temporary file exists from the GET
on, so that an interrupt between its creation and the assignment of `temporary_path`
(`files.py:100-107`) is not seen, and the `unlink` of the `finally` block neither fails nor
is interrupted.

Planned, in this order:

1. `RapidEdit` and `Deploy` over the lock of `WriteAccess` instead of `Exclusive`, with a
   revocation in the middle of an edit.  `OperationsExclude` gives the exclusion that
   the two modules assume, but by name only: the composition is not a theorem yet.

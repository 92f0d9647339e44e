# IRAuth in TLA+

A verification project kept beside IRAuth: face authentication for Linux PAM
through an infrared camera, with Howdy as the recognition backend. It says in
TLA+ what the code under `src/` does where that is hard to get right and hard to
test (threads, processes, crashes, file replacement, rollback), checks it with
TLC on small instances, and proves almost all of the safety properties, the
refinements among them, with TLAPS for every size.

## The system

| component | state it keeps | operations | interacts by |
|---|---|---|---|
| `pam_irauth` (PAM module) | none beyond a call | `request_auth`: connect, send, wait 35 s | Unix socket to the daemon |
| `irauthd` (daemon) | channel of 16 connections, 4 workers, `camera_lock`, rate-limit table | accept, read, decode, authenticate, status, ping | socket; spawns `pamtester`; reads `/etc/passwd`, Howdy's config, `/sys` |
| Howdy backend adapter | Howdy's `config.ini` and its backup, dlib models | authenticate (one child, 30 s), read and bind the camera, repair models | process, pipes, files |
| Howdy, pamtester (external) | the open camera | recognise a face | reads `config.ini` itself, inherits the pipes |
| hardware policy | none: `/sys`, `/etc/irauth/hardware.ids` | which nodes are strict IR cameras | called by daemon and `irauthctl` |
| `irauthctl` PAM integration | `/etc/pam.d/*`, `*.irauth.bak`, `pam-migrated.list` | enable, disable, migrate, snapshot, roll back | files only, no lock |
| `irauthctl setup`, `doctor` | groups, PAM services with markers, module-load file | camera, models, groups, scans, daemon, then the PAM transaction | all of the above; requests to the daemon |
| line protocol (`irauth-core`) | none: a line each way on one stream | encode, decode, check fields | between daemon and its clients |
| passkey orchestration | upstream checkout, bridge, vault, sealed key, user unit and marker | install, adopt, start, stop: switch from the upstream service | `systemctl --user`, git, go |
| `install.sh`, `uninstall.sh` | installed files, markers | install; restore stacks and config, remove | calls `irauthctl`, copies files |

What is hard about it: requests of several users meet at one camera; the process
that is killed on timeout is not the one that has the camera open; the policy is
checked before another program reads the configuration again; a panic leaves a
poisoned lock; PAM stacks, on which every login depends, are rewritten by
commands that may fail or be killed half-way, and are restored from copies those
commands made. `PROJECT.json` lists each hazard at its line.

What makes each part correct:

- daemon and PAM module: success only after this request's own match, for a peer
  entitled to it; one camera user at a time; every connection answered or closed;
  a panic or a crash fails closed.
- backend adapter: a late match does not count; rebinding moves the camera in one
  step, keeps the rest of the file, and can be undone.
- PAM integration: whatever is changed can be given back; a reported rollback is
  complete; nothing calls a module that is gone; the line edits keep the
  administrator's lines, and the migration shuts nobody out.
- protocol: a line is acted on whole or not at all, and nothing moves from one
  field into another; a yes is the daemon's decision on that request, wherever a
  line was cut.
- hardware policy: a camera is accepted on its own evidence, whatever was
  renumbered since its path was resolved; a working binding stays.
- setup, install, uninstall: a routed stack finds all it calls, wherever a command
  stopped; what was interrupted can be repeated; only what is IRAuth's is removed;
  success means that `doctor` agrees.
- passkeys: never two bridges at login, nor two running after the switch; a user's
  unit is neither overwritten nor removed; what was interrupted can be repeated.

## Modules

| module | models | role |
|---|---|---|
| `FaceGate` | nothing: the abstract promise | ask, scan one at a time, grant only after a match |
| `Irauthd` | daemon, backend's ceremony, PAM module's call, Howdy as its environment | implements `FaceGate` |
| `Exchange` | nothing: the abstract promise | a request arrives whole or not at all, a yes is the decision |
| `Protocol` | `irauth-core` on one stream, both ends | implements `Exchange`, which `Irauthd` takes for granted |
| `Hardware` | `probe_at`, `find_usb_info` | the policy on one node |
| `CameraPolicy` | `strict_device_for_path`, `select_camera`, setup's binding, the daemon's check | `Hardware` while cameras change |
| `Setup` | `install.sh`, `cmd_setup`, `cmd_doctor`, `uninstall.sh`, the daemon beside them | composes the components' steps |
| `PasskeyService` | `irauth-passkey`, the bridge part of `uninstall.sh` | files, services, logins |
| `PamStack` | what the commands tell apart in a stack | shared by the next two |
| `PamFiles` | `irauthctl pam`, setup's transaction, `uninstall.sh` on files | one file-system effect per action |
| `PamText` | the line edits themselves | shown to do to lines what `PamStack` says |
| `HowdyConfig` | reading, binding, backing up, restoring `config.ini` | lines and file steps |
| `*Proofs` | - | theorems about `Irauthd`, `Protocol`, `CameraPolicy`, `PasskeyService`, `Setup`, `PamFiles`, `PamText`, `HowdyConfig` |
| `MC*` | constants for TLC | no definitions of their own about the code |

Definitions named like another one with an addition (`PipeClosedByKill` beside
`PipeClosed`) are plausible bugs of the code. No action uses them; they exist to
show that each checked property can fail.

### Irauthd

A connection is used once and has a fixed request. `client`, `req`, `sent` are
the PAM module's side (`pam-irauth/src/lib.rs`); `backlog` is the kernel's,
`queue` the `sync_channel`; `pc`, `job`, `resp`, `seen` are the locals of a worker
in `handle` and `authenticate`; `camera` and `poisoned` are `camera_lock`, `recent`
the rate limiter's table reduced to "less than 500 ms ago"; `child` is the
`pamtester` process and `lens` the camera held open by the Howdy helper under it.
`device` is what Howdy's configuration names and `strict` what `strict_devices()`
would return now; both may change at any step (`Reconfigure`, `Replug`).

| code | actions |
|---|---|
| `request_auth` | `Connect`, `ConnectRefused`, `Send`, `Receive`, `GiveUp` (35 s or the process ends) |
| `run`: accept loop | `Accept` (full channel: the connection is dropped) |
| `run`: worker loop | `TakeRequest` |
| `handle` | `ReadRequest`, `ReadFails` (5 s, not UTF-8), `Respond` |
| `authenticate` | `Admit` (user, peer, rate limit), `LockCamera`, `ReadCamera`, `CheckCamera` (policy, then spawn) |
| `Backend::authenticate` | `Reap`, `BackendTimeout`, `Drain`, `OutputPanics` |
| Howdy (external) | `OpenLens`, `FaceMatches`, `FaceFails`, `OrphanExits` |
| process and systemd | `Crash`, `Restart` |

One action is one step between two points at which something else can be seen.
`OutputPanics` is `String::truncate(512)` in `combined_output`, which panics when
byte 512 is inside a character. `Crash` assumes what systemd does by default: the
whole control group of the unit ends. The `Disconnected` branch of `try_send`
cannot be taken, because `run` keeps the receiver alive, and is left out, as are
errors of `accept`, of cloning a stream, of `try_wait` and of reading the child's
pipes (lines 104-105 and 114 of the adapter), which would return with the child
left as it is.

### PamFiles and PamText

`PamFiles` keeps one record per stack (`PamStack`): which edition of the
administrator's lines it has, whether it calls Howdy directly, carries the
migration marker, has a check in place of Howdy, has the enable stanza. `file`,
`bak`, `manifest` are the files; each running command has its place `pc` and the
locals that live from one step to a later one: `buf` (content computed from an
earlier read), `todo` (rest of a loop), `list` (manifest computed earlier), `snap`
(setup's snapshot). `atomic_write` is one step, because it renames a finished file
and nobody reads the temporary one. `create_backup_once` is two, because it
creates the backup empty and fills it. `Fail` is an error at the current step and
follows the code's error path, `FailToRemove` the second error of a backup that
could neither be filled nor removed; `SkipUnreadable`, `Refresh` and
`MissArtifacts` are the errors the code passes over without a word (a stack it
cannot read, a directory it cannot list), and `passed` remembers them; `Crash` is a
kill; `Edit` is the administrator.
The snapshot is one step, which with one edit at a time is the same as file by
file. Commands run one after the other, as an administrator runs them; the code
itself takes no lock (see "Not modelled").

`PamText` has the lines: the kinds `pam_enable`, `rewrite_direct_howdy_pam` and
`pam_disable` distinguish. `EditsImplementStack` ties it to `PamStack`. The edits do
not look at the control of a Howdy line and write `sufficient` in its place; so
`MigrationOnlyLoosens` is about every assignment of `sufficient`, `required` (which
stands for `requisite`) and `optional` to them. It says that the stack decides
afterwards as if all had been `sufficient`, and lets in whoever it let in before. It may
let in more: a required face and a required password become either of the two.
Controls in brackets are covered as far as they equal one of these.

### HowdyConfig

`config`, `bak`, `tmp` are the three files, texts of lines; `pc`, `want`, `seen` the
command; `Configured` is the parser, `Bound` the replacer.

### Protocol

A line is a sequence of tokens: `V1`, the commands, tab, newline and other control
characters, ordinary pieces of text. `sent` and `out` say how much of each line has
arrived; `Push` and `WriteReply` move one token, and either side may stop after any
of them (`GiveUp`, `ReadFails`, `DaemonEnds`). `ReadLine` applies the limit and the
test for the newline, then `decode_request`, which splits at tabs and checks the
fields as the code does; encoding does not escape anything, and neither does the
model. `irauthctl` accepts no control character in a name, but `pam_irauth` passes on
what PAM gives it: names and reasons with newlines are among the requests, and the
daemon then reads the line that ends at the first of them (`FirstLine`).
`ActedAsAsked` says what is left of the request in that case. What `authenticate`
decides is left open. `Abstract!Spec` (`Exchange`) is
what `Irauthd` is written with: a request in one piece, an answer in one piece.

### Hardware and CameraPolicy

A camera has the words of its name that the code looks for and the directories
above its node, each with an interface number, an id, or neither; `Selector` is
`find_usb_info`, `Evidence` the order of tests in `probe_at`. In `CameraPolicy`,
`node` says which camera is behind each `/dev/videoN`, `target` where the by-path link
leads, `ids` what `hardware.ids` lists. Setup and the daemon are two actors that run
`strict_device_for_path` as `Resolve` then `Probe`; `asks` says which of the four
questions the call is about and `After` where the answer leads. `Change` replaces a
camera, moves the link, edits the list or Howdy's configuration between any two
steps. `calm` and `settled` remember whether it did.

### Setup

Each command is a sequence of steps (`Script`), in the code's order; an action is
one step. A file that IRAuth creates is a `place` step followed by the `mark` step
that writes its marker, so that a command may end in between. `Preflight`,
`BindCamera`, `RepairModels`, `EnsureGroups`, `PlaceHowdy`, `ScanOpens`/`ScanEnds`
(enrolment and the direct test), `EnableDaemon`, `WaitReady`, `Validate`, `Stack` are
`cmd_setup`; `Restore`, `StopDaemon`, `RestoreConfig`, `Programs`, `Remove`, `Unmark`
are `uninstall.sh`. The daemon comes up once it has its group, fails, and scans for
its own clients (`DaemonScan`), so `lens` may hold setup's scan and the daemon's at
once. At any step the command may `Fail`, be killed, or be cut by a `Reboot`, and
the world may `Change`. One step here and many elsewhere: the PAM transaction
(a kill in it leaves some stacks changed and, for one of the others, perhaps a backup,
filled or empty), the choice and binding of the camera, the ceremony.

`Passes` has the checks of `doctor`, one by one: cameras, TPM and access to it,
`vhci_hcd`, groups that have reached the session (`Login`), Howdy, pamtester, models, the
binding, the module, the two PAM services, the daemon. `DoctorAgrees` says that after a
successful setup it fails none of them but two kinds setup itself announces: those that
wait for the login, and those of a TPM that `--allow-no-tpm` waived.

### PasskeyService

`home` is what the code can tell about the user's files, `state` and `enabled` the
two user services. One action is one external command or one file. `AskActive` and
`AskEnabled` are the two questions of `stop_legacy_service`, asked before anything is
done with the answers. The code takes every status but zero for a no: that of a
bridge that waits for systemd's restart, and that of a `systemctl` that failed. `missed`
remembers such a no, and the two properties of the switch except it.
`Relogin` ends the command with the session and starts what is enabled.

## Runs

Bounds are in the `.cfg` files. They are small, and chosen so that the hard cases
happen: two requests suffice for every race at the camera lock and for a result
that goes to the wrong one, and with a channel of one place they fill it while a
worker is busy; one reconfiguration hits each gap between two steps because it
may come at any of them; three commands reach install, setup or enable, and
removal, or a repetition after an accident; two accidents are a kill followed by
a failure of its repetition, and a fourth command of `Setup` a repetition of the
repetition; in `PamFiles_sequence` two troubles in all (`TwoTroubles`), an edit not
with an error, keep the run below its time; eleven tokens cut a request with a long reason and
no other.

| run | shows |
|---|---|
| `Irauthd_ceremony` | refinement of `FaceGate`, one camera user, the checked camera is used when nothing changes; success only for an entitled request with its own match; no connection lost or served twice; a panic stops one worker and fails closed |
| `Irauthd_liveness` | every connection is served, every client gets a verdict |
| `PamFiles_sequence` | three commands, two troubles (errors, a kill, an edit) at any step: a changed stack has a backup, a rollback that reports success is complete, the manifest is accurate, disable and uninstall give the stacks back, setup leaves no direct call it could read |
| `PamText_edits` | all texts of four lines and all controls of their Howdy lines: own lines kept, nobody shut out, whole stanza, agreement with `PamStack` |
| `HowdyConfig_bind` | a reader sees the old or the selected camera, with commands ending anywhere; other lines kept; uninstall gives the first file back |
| `Protocol_stream` | requests with tabs, newlines, empty and overlong fields, token by token, cut anywhere: whole requests only, fields never mixed, refinement of `Exchange` |
| `CameraPolicy_races` | a setup and any number of daemon checks with two changes at any moment: acceptance is justified, setup binds a strict camera or keeps a working binding |
| `Setup_sequence` | three commands with two accidents or four with one, six systems: routed stacks are served, setup can be repeated, uninstall takes what is IRAuth's, `doctor` agrees, scans meet only when setup is repeated, every command ends |
| `PasskeyService_switch` | three commands over seven homes with errors, kills, logins and failing bridges: one bridge at login, units kept, commands repeatable |

### Where code and documents differ

| run | what happens |
|---|---|
| `Irauthd_rebind` | the configuration changes after the check and before Howdy reads it: the scan uses an RGB camera (SECURITY.md item 1) |
| `PamFiles_unbacked` | a rollback that could not restore a stack deletes its new backup |
| `PamFiles_torn` | killed between creating and filling a backup, `irauthctl` leaves an empty one; the next command takes it for the backup and changes the stack, which disable or uninstall would then make empty (SECURITY.md, Recovery) |

`HookedHasBackup` is what SECURITY.md says; `BackupBeforeChange` is what remains of it,
checked and proved: there is a backup, it is not a copy of a stack IRAuth changed, and
it is empty only after such a kill or after a second error. `DisableRestores` and
`RefusesOnlyForeign` except the empty backup by name.

Seen while modelling, without a run of their own: after the 30 s timeout the worker
waits for a helper that was not killed, without bound (ROADMAP.md: "bounded
authentication time"), which is why liveness assumes `HelperFairness`; killed while
copying, `bind_camera` leaves a partial backup; the rollback passes over new backups in
a directory it cannot list, and the manifest over a stack it cannot read, and both
commands end well; a user's name with a newline reaches the daemon cut; a Howdy line
with a tab after `auth` is not migrated;
`enable --now` leaves a daemon or a bridge that runs already as it is, with the old
program; `passkey start` does not stop the old bridge; `adopt` asks `diagnose` once,
right after the start.

### Fairness

`Irauthd_liveness` uses weak fairness of what the code's threads do by themselves:
the accept loop, each worker's next step, *some* waiting worker taking a request or
the lock (a Rust `Mutex` promises nothing to one thread), the timeouts, and the
client's read. Nothing is assumed of users, faces, `GiveUp` or the world. One
assumption is about Howdy: a helper whose `pamtester` was killed ends by itself
(`HelperFairness`). Nothing in this repository ensures it. `EveryClientDecided` starts when the client has
sent its request: a client that connects and does nothing is decided by nobody.

`Setup_sequence` checks `CommandsEnd` under weak fairness of `Step`: a command goes on
while it can. That holds of a sequential program whose children end; `howdy` and
`pamtester` are run there without a timeout of IRAuth's. Nothing is assumed of the
daemon, which may never come up: the wait for it has a deadline.
Deadlock is not checked where connections or commands are used once and the
system rightly stops.

## Proofs

TLAPS proves, for every value of the constants, under each module's named
assumptions only (`IrauthdAssumption`, `ProtocolAssumption`, `PamTextAssumption`, `CameraAssumption`,
`HardwareAssumption`, `PasskeyAssumption`, `SetupAssumption`, `PamFilesAssumption`,
`HowdyConfigAssumption`: the constants have their types, bounds are natural numbers,
the value for "none" is not one of the others; the texts of `Protocol` are made of its
tokens, newlines and tabs included; a camera's sysfs directories are on USB, its id
above its interface, or not on USB):

| theorem | property |
|---|---|
| `IrauthdProofs!Invariance` | `IInv`, the inductive invariant of the daemon |
| `IrauthdProofs!TypeCorrect` | `TypeOK`, the channel's capacity included |
| `IrauthdProofs!GrantIsJustified` | `GrantJustified` |
| `IrauthdProofs!CameraIsSerialized` | `SerializedCamera` |
| `IrauthdProofs!PanicIsContained` | `PanicContained` |
| `IrauthdProofs!SettledScansAreStrict` | `SettledScanIsStrict` |
| `IrauthdProofs!HandOverIsExact` | `HandedOverOnce` |
| `IrauthdProofs!ImplementsFaceGate` | `IsFaceGate`, the refinement |
| `ProtocolProofs!ActsOnWholeLines` | `WholeLineOnly` |
| `ProtocolProofs!YesIsTheDecision` | `YesIsDecided`: a client's yes is the daemon's |
| `ProtocolProofs!ActsAsAsked` | `ActedAsAsked` |
| `ProtocolProofs!ImplementsExchange` | `IsExchange`, the refinement |
| `CameraPolicyProofs!AcceptedIsJustified` | `AcceptIsJustified` |
| `CameraPolicyProofs!SetupBindsStrict` | `BoundIsStrict` |
| `CameraPolicyProofs!WorkingBindingIsKept` | `KeepsWorkingBinding` |
| `PasskeyServiceProofs!OnlyOneAtLogin` | `OneAtLogin` |
| `PasskeyServiceProofs!OnlyForeignIsRefused` | `RefusesOnlyForeign` |
| `PasskeyServiceProofs!OneBridgeStarts` | `SwitchIsExclusive` |
| `PasskeyServiceProofs!OwnUnitIsTaken` | `UninstallTakesOwnUnit` |
| `SetupProofs!HooksAreServed` | `HookedIsServed` |
| `SetupProofs!RefusalsAreForeign` | `RefusesOnlyForeign` |
| `SetupProofs!FirstScansAreAlone` | `ScansMeetOnlyOnRerun` |
| `SetupProofs!SetupSatisfiesDoctor` | `DoctorAgrees` |
| `SetupProofs!UninstallIsExact` | `UninstallTakesOwn` |
| `PamFilesProofs!AlwaysAWayBack` | `BackupBeforeChange` |
| `PamFilesProofs!UninstallUnhooks` | `NoDanglingHook` |
| `PamFilesProofs!RollbackIsExact` | `RollbackRestores` |
| `PamFilesProofs!SetupCloses` | `SetupClosesBypass` |
| `PamFilesProofs!ManifestIsAccurate` | `ManifestAccurate` |
| `PamFilesProofs!DisableGivesBack` | `DisableRestores` |
| `PamTextProofs!TextShape` | `SInv`, the inductive invariant of a text |
| `PamTextProofs!AlwaysWellFormed` | `WellFormed` |
| `PamTextProofs!TextEditsAreStackEdits` | `EditsImplementStack` |
| `PamTextProofs!EditsKeepOwnLines` | `OwnLinesKept` |
| `PamTextProofs!MigrationLetsIn` | `MigrationOnlyLoosens` |
| `HowdyConfigProofs!TypeCorrect` | `TypeOK`: bindings add one line at most |
| `HowdyConfigProofs!CameraMoves` | `CameraMovesToSelected` |
| `HowdyConfigProofs!TheRestIsKept` | `BindKeepsTheRest` |
| `HowdyConfigProofs!UninstallRestores` | `UninstallGivesBack` |

Each module has its `TypeCorrect`; in `PamText` it is part of `TextShape`.

**Irauthd.** `GrantJustified` is not inductive: that an answer written on a
connection belongs to it rests on every connection being in one place (`PlaceInv`,
`HeldInv`, `JobInv`), that the request was entitled on what `Admit` decided earlier
(`EntitledInv`), and that the result read belongs to this ceremony on lock, child
and worker going together (`LockInv`, `HelperInv`, `MatchInv`). `SettledInv` adds
what the daemon has read and what has been checked since: until something is
reconfigured or replugged the camera in the configuration is the one it saw.
`HandedOverOnce` counts, so it needs finitely many workers; every hand-over takes a
connection from one place and adds it to the next, and lemmas on the cardinality of
`{w \in Workers : job[w] # NoConn}` say what that does to the sum. `ImplementsFaceGate` maps
each action to the step of `FaceGate` it stands for, under the invariant: a result
is read by the worker whose ceremony it was (`Outcome`), a grant is a `Grant`
because the answer on the wire is this connection's, everything else stutters.

**Protocol.** A cut line is never a request, because the first newline is the last token
the daemon reads, whatever is behind it; a prefix of an answer is a success
for one decision at most (`SuccessDecides`), so a yes says what was decided.
`RoundTrip` is the lemma `ActedAsAsked` and the refinement rest on:
decoding the first line of an encoded `a` gives the fields of `a` up to the first newline
in them, or an error, for texts of any length. A tab in a field makes more than four
pieces (`Cardinality` of the set of tabs), unless a newline cuts it off; with three tabs
the two pieces and the tab between them are the line again (`Rejoined`). With it each step of the stream
maps to one of `Exchange` or a stutter: a request arrives when the daemon decodes the
line, an answer when the client reads its part of it.

**CameraPolicy.** That a check is about the camera itself is a lemma on the walk
up the directories (`OwnSelector`: the first id above the node and the first
interface below it are the camera's own). `SettledInv` and `CalmInv` say what
setup's path and found node still mean while nothing has changed.

**Setup.** The invariant says, for each step, what earlier ones have left behind
(`ProgressInv`; `FreshInv` as long as nothing changed meanwhile), that a stack is
what it was or what the transaction makes of it and its backup what it was
(`StackInv`), so that the Howdy line `FoundInv` speaks of can be found again unless
a kill left a backup empty, and that a marker stands for a file of IRAuth's outside of the gaps between
the two (`MarkInv`). `ScanInv` has the daemon off until the step that enables it.

**PasskeyService.** `SwitchInv` carries the two answers of `stop_legacy_service`
to the point where the new bridge starts; `MarkerInv` relates unit and marker.

**PamFiles.** The theorems hold for any number of commands, errors, kills and edits,
more than the run's bounds reach together; their exceptions (an edit meanwhile, a
command that failed, an error the code passed over) are in the properties themselves and
not assumptions about the constants. `WayInv` says why no order of steps loses the way back:
a backup has no mark of IRAuth's (`Saved`; `FullInv` adds that it is not an empty one
without a kill or a second error), a command about to write has made sure
of one (`Pending`), a rollback keeps the backups of its snapshot and removes the
others only after the untouched stacks are back (`Kept`), and what the uninstaller
has not disabled yet is still on its list (`Swept`). `RestoreInv` says that what a
rollback has not put back it still will, `CloseInv` that a selected stack not yet
rewritten or hooked is still on setup's list, `ManifestInv` that a manifest which is
behind the stacks is about to be replaced, and `OrigInv` that every untouched content
there is, in a file, a backup, a buffer or a snapshot, is the original one, or comes
from a backup that was not filled.

**PamText.** `WellFormed` alone does not say that the stanza ends within the text;
`Shape` adds it, and is inductive: it gives, for every line, whether it is inside the
stanza by its two predecessors (`InStanzaIs`), so that `pam_disable` drops three lines
(`InStanzaLines`) and an insertion outside of them does not separate them
(`InsertedShape`). What `FlattenSeq` makes of a text is known by `Layout`: the lines that
line `i` becomes stand behind the first `o[i - 1]` lines of the result. For the migration
that gives `Rewrites`, from which the shape, the agreement with `PamStack`
(`RewriteHas`) and the order of face and password lines (`RewriteKeeps`) follow; that
taking every control for `sufficient` shuts nobody out is `SufficientLetsIn`.
That own lines are kept is algebra instead: `Own` of a concatenation is the
concatenation of `Own` of its parts (`OwnFlatten`). All of it rests on an induction over
sequences, `EverySeq`, which is stated for a *set* of sequences, because the provers
cannot instantiate the library's theorems with an operator.

**HowdyConfig.** `BoundInPlace` and `BoundAdds` say what `replace_video_device_path`
makes of a text of any length that has a `[video]` section: `parse_video_device_path`
finds the bound camera in it, and the next binding finds a place. They rest on the
end of a section being where it is defined to be (`EndOfSection`), and that on every
set of positions having a first (`FirstOf`). `Inv` carries the text the command has
read to the step that renames. `Others` gives every line that is not a setting with
its rank among those lines; a binding sets values where they stand (`SamePlaces`), or
makes room for one (`MovedPlaces`, where `Moved` is a bijection between the other lines
up to any of them before and after, so that ranks are kept).

Only model-checked:

- liveness (`EveryConnectionServed`, `EveryClientDecided`, `CommandsEnd`): the
  prover has neither fairness nor ENABLED.

## Not modelled

- Clocks: 500 ms, 5 s, 30 s, 35 s and setup's 5 s are steps that may happen.
- Two `irauthctl` commands at the same time. The code takes no lock; the hazard is
  listed, and the commands are meant for one administrator.
- `pam_irauth`'s use of the PAM library (items, conversation, return codes other
  than success and failure) and `parse_reason` from the service's name.
- What `status`, `hardware` and `doctor` print, and their exit codes; `doctor` is
  in `Setup` by what it looks at.
- `irauthctl enroll` alone (setup's enrolment is in `Setup`), the passkey commands
  `test` and `status`, the passphrase prompt.
- Letters: names, texts and paths are values told apart as far as the code does
  that; what `sanitize` does to a single character is a token class.
- Errors of `try_wait` and of reading the child's pipes; a half-way failure inside
  upstream's `--tpm-init`, which alone writes sealed keys; the time one readiness probe
  takes; PAM controls in brackets beyond those that equal a simple one.
- Commands cut between a file and its marker leave a file the uninstaller does not take;
  `UninstallTakesOwn` and `UninstallTakesOwnUnit` except them.
- Argument parsing, package managers, building, the RPM's scriptlets, upstream's
  passkey bridge, dlib and Howdy beyond what `irauthd` sees of them.

## What could come next

- Commands of `PamFiles` at the same time, once the code takes a lock that can be
  modelled with them.

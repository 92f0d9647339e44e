------------------------------ MODULE PamFiles ------------------------------
(***************************************************************************)
(* What irauthctl does to the PAM stacks under /etc/pam.d: enable, disable, *)
(* the migrate-and-enable transaction of setup with its snapshot and        *)
(* rollback, and the restoring half of scripts/uninstall.sh.                *)
(*                                                                         *)
(* One action is one file-system effect or one read that is used later, so  *)
(* a command can be killed, can fail, and can meet an editor between any    *)
(* two of them.  Commands run one at a time (the code takes no lock).  A   *)
(* stack is reduced to what the commands tell apart in it (PamStack; PamText*)
(* relates this to lines).  atomic_write is one step: it renames a complete*)
(* temporary file, and no command reads the temporary file a crash leaves  *)
(* behind.                                                                 *)
(***************************************************************************)
EXTENDS Naturals, FiniteSets, PamStack

CONSTANTS
  Procs,        \* runs of irauthctl or of the uninstaller, one command each
  Services,     \* PAM services with a regular file in /etc/pam.d
  Commands,     \* commands that may be run: records [op, on]
  NoBackup, NoSnapshot, NoService,
  MaxFaults,    \* bound: I/O errors
  MaxCrashes,   \* bound: commands killed half-way
  MaxEdits      \* bound: edits by the administrator

Ops == {"enable", "disable", "setup", "uninstall"}

Stacks == [base : 0..(MaxEdits + 1), howdy : BOOLEAN, marked : BOOLEAN,
           inline : BOOLEAN, stanza : BOOLEAN]

ASSUME PamFilesAssumption ==
  /\ Commands \subseteq [op : Ops, on : SUBSET Services]
  /\ \A m \in Commands : m.op \in {"enable", "disable"} => Cardinality(m.on) = 1
  /\ MaxFaults \in Nat /\ MaxCrashes \in Nat /\ MaxEdits \in Nat
  /\ NoService \notin Services /\ NoBackup \notin Stacks

VARIABLES
  file,       \* the stack of each service
  bak,        \* its .irauth.bak
  manifest,   \* services listed in pam-migrated.list, {} when there is none
  installed,  \* the binaries and the PAM module are there
  cmd, pc, ret,  \* per command: what it is, where it stands, where it returns
  cur, buf,   \* per command: the service at hand, the content to be written
  todo,       \* per command: what is left of the loop it is in
  list,       \* per command: the manifest it is about to write
  snap,       \* per command: the snapshot of its transaction
  failed,     \* per command: its rollback met an error
  passed,     \* history, per command: at which step it passed over which stack,
              \* or which backup, because it could not read it
  faults, crashes, edits,   \* counters for the bounds
  orig        \* history: each stack as it was when IRAuth last first touched it

fsVars == <<file, bak, manifest, installed>>
procVars == <<cmd, pc, ret, cur, buf, todo, list, snap, failed, passed>>
countVars == <<faults, crashes, edits>>
vars == <<fsVars, procVars, countVars, orig>>

Ended == {"done", "error", "rolled", "dead"}
Active(p) == pc[p] \notin Ended \cup {"ready"}
Quiet == \A p \in Procs : ~Active(p)

\* The steps that pass over what they cannot read.
Passing == {"migrate", "refresh", "clean"}

TypeOK ==
  /\ file \in [Services -> Stacks]
  /\ bak \in [Services -> Stacks \cup {NoBackup}]
  /\ manifest \subseteq Services
  /\ installed \in BOOLEAN
  /\ \A p \in Procs : Active(p) => cmd[p] \in Commands
  /\ cur \in [Procs -> Services \cup {NoService}]
  /\ buf \in [Procs -> Stacks]
  /\ list \in [Procs -> SUBSET Services]
  /\ failed \in [Procs -> BOOLEAN]
  /\ passed \in [Procs -> SUBSET (Passing \X Services)]
  /\ faults \in 0..MaxFaults /\ crashes \in 0..MaxCrashes /\ edits \in 0..MaxEdits

Init ==
  /\ file \in [Services -> {Plain(1, h) : h \in BOOLEAN}]
  /\ bak = [s \in Services |-> NoBackup]
  /\ manifest = {} /\ installed = TRUE
  /\ cmd = [p \in Procs |-> [op |-> "none", on |-> {}]]
  /\ pc = [p \in Procs |-> "ready"]
  /\ ret = [p \in Procs |-> "done"]
  /\ cur = [p \in Procs |-> NoService]
  /\ buf = [p \in Procs |-> Empty]
  /\ todo = [p \in Procs |-> {}]
  /\ list = [p \in Procs |-> {}]
  /\ snap = [p \in Procs |-> NoSnapshot]
  /\ failed = [p \in Procs |-> FALSE]
  /\ passed = [p \in Procs |-> {}]
  /\ faults = 0 /\ crashes = 0 /\ edits = 0
  /\ orig = file

Goto(p, l) == pc' = [pc EXCEPT ![p] = l]
\* One I/O error, which the command does not note.
PassOver(p, S) ==
  /\ faults < MaxFaults /\ faults' = faults + 1
  /\ passed' = [passed EXCEPT ![p] = @ \cup ({pc[p]} \X S)]
\* Leave the subroutine: on to the caller's next step.
Return(p) == Goto(p, ret[p])

\* What uninstall.sh loops over: the glob *.irauth.bak.
BackedUpMigrated == {s \in manifest : bak[s] # NoBackup}
BackedUp == {s \in Services : bak[s] # NoBackup}

\* main(), cmd_pam, cmd_setup from its transaction on, uninstall.sh.
Start(p, m) ==
  /\ pc[p] = "ready" /\ installed /\ Quiet
  /\ cmd' = [cmd EXCEPT ![p] = m]
  /\ CASE m.op \in {"enable", "disable"} ->
            /\ \E s \in m.on : cur' = [cur EXCEPT ![p] = s]
            /\ Goto(p, IF m.op = "enable" THEN "read" ELSE "lookup")
            /\ UNCHANGED <<ret, todo>>
       [] m.op = "setup" ->
            /\ Goto(p, "snapshot")
            /\ ret' = [ret EXCEPT ![p] = "migrate"] /\ UNCHANGED <<cur, todo>>
       [] m.op = "uninstall" ->
            /\ Goto(p, "sweep") /\ todo' = [todo EXCEPT ![p] = BackedUp]
            /\ ret' = [ret EXCEPT ![p] = "sweep"] /\ UNCHANGED cur
  /\ UNCHANGED <<fsVars, buf, list, snap, failed, passed, countVars, orig>>

-----------------------------------------------------------------------------
(* pam_enable, and create_backup_once with the write that follows it.       *)

\* Read the stack; one that mentions pam_irauth.so is left alone.
ReadStack(p) ==
  /\ pc[p] = "read"
  /\ LET x == file[cur[p]] IN
       \/ Hooked(x) /\ Return(p) /\ UNCHANGED buf
       \/ /\ ~Hooked(x) /\ buf' = [buf EXCEPT ![p] = AddStanza(x)]
          /\ Goto(p, "backup")
  /\ UNCHANGED <<fsVars, cmd, ret, cur, todo, list, snap, failed, passed, countVars, orig>>

NeedsBackupAlways(s) == s \in Services
NeedsBackup(s) == bak[s] = NoBackup

\* OpenOptions::create_new: an existing backup is kept whatever it holds, a new
\* one is empty until it has been filled.
OpenBackup(p) ==
  /\ pc[p] = "backup"
  /\ \/ NeedsBackup(cur[p]) /\ bak' = [bak EXCEPT ![cur[p]] = Empty] /\ Goto(p, "fill")
     \/ ~NeedsBackup(cur[p]) /\ UNCHANGED bak /\ Goto(p, "write")
  /\ UNCHANGED <<file, manifest, installed, cmd, ret, cur, buf, todo, list, snap,
                 failed, passed, countVars, orig>>

\* The source is read again for the backup.
FillBackup(p) ==
  /\ pc[p] = "fill"
  /\ bak' = [bak EXCEPT ![cur[p]] = file[cur[p]]]
  /\ Goto(p, "write")
  /\ UNCHANGED <<file, manifest, installed, cmd, ret, cur, buf, todo, list, snap,
                 failed, passed, countVars, orig>>

\* atomic_write of the content computed from the first read.
WriteStack(p) ==
  /\ pc[p] = "write"
  /\ file' = [file EXCEPT ![cur[p]] = buf[p]]
  /\ orig' = IF Pristine(file[cur[p]]) THEN [orig EXCEPT ![cur[p]] = file[cur[p]]]
                                       ELSE orig
  /\ Return(p)
  /\ UNCHANGED <<bak, manifest, installed, cmd, ret, cur, buf, todo, list, snap,
                 failed, passed, countVars>>

-----------------------------------------------------------------------------
(* pam_disable.                                                             *)

\* The backup when there is one, otherwise the stack without its stanza.
WayBackUnchecked(s) == bak[s]
WayBack(s) == IF bak[s] # NoBackup THEN bak[s] ELSE Strip(file[s])

Lookup(p) ==
  /\ pc[p] = "lookup"
  /\ buf' = [buf EXCEPT ![p] = WayBack(cur[p])]
  /\ Goto(p, "put")
  /\ UNCHANGED <<fsVars, cmd, ret, cur, todo, list, snap, failed, passed, countVars, orig>>

AfterPutReturns(p) == ret[p]
AfterPut(p) == "refresh"

Put(p) ==
  /\ pc[p] = "put"
  /\ file' = [file EXCEPT ![cur[p]] = buf[p]]
  /\ Goto(p, AfterPut(p))
  /\ UNCHANGED <<bak, manifest, installed, cmd, ret, cur, buf, todo, list, snap,
                 failed, passed, countVars, orig>>

\* refresh_migration_manifest_in: which stacks carry the marker; one that cannot
\* be read counts as one that does not ...
Migrated == {s \in Services : file[s].marked}
Refresh(p) ==
  /\ pc[p] = "refresh"
  /\ \/ list' = [list EXCEPT ![p] = Migrated] /\ UNCHANGED <<faults, passed>>
     \/ \E S \in SUBSET Migrated :
          S # {} /\ PassOver(p, S) /\ list' = [list EXCEPT ![p] = Migrated \ S]
  /\ Goto(p, "list")
  /\ UNCHANGED <<fsVars, cmd, ret, cur, buf, todo, snap, failed, crashes, edits, orig>>

\* ... and the list of them written, or removed when it is empty.
WriteManifest(p) ==
  /\ pc[p] = "list"
  /\ manifest' = list[p]
  /\ Return(p)
  /\ UNCHANGED <<file, bak, installed, cmd, ret, cur, buf, todo, list, snap, failed, passed,
                 countVars, orig>>

-----------------------------------------------------------------------------
(* The transaction of cmd_setup: snapshot_pam_state, run_pam_transaction.   *)

TakeSnapshot(p) ==
  /\ pc[p] = "snapshot"
  /\ snap' = [snap EXCEPT ![p] = [file |-> file, bak |-> bak, manifest |-> manifest]]
  /\ todo' = [todo EXCEPT ![p] = cmd[p].on]
  /\ Goto(p, "migrate")
  /\ UNCHANGED <<fsVars, cmd, ret, cur, buf, list, failed, passed, countVars, orig>>

\* migrate_direct_howdy_pam_in: the selected services in directory order, each
\* read and, when it calls Howdy directly, backed up and rewritten.
Migrate(p) ==
  /\ pc[p] = "migrate"
  /\ \/ \E s \in todo[p] :
          /\ todo' = [todo EXCEPT ![p] = @ \ {s}]
          /\ cur' = [cur EXCEPT ![p] = s]
          /\ \/ /\ Direct(file[s]) /\ buf' = [buf EXCEPT ![p] = Rewrite(file[s])]
                /\ Goto(p, "backup")
             \/ ~Direct(file[s]) /\ UNCHANGED <<buf, pc>>
          /\ UNCHANGED ret
     \/ /\ todo[p] = {} /\ Goto(p, "refresh")
        /\ ret' = [ret EXCEPT ![p] = "enable"]
        /\ todo' = [todo EXCEPT ![p] = cmd[p].on]
        /\ UNCHANGED <<cur, buf>>
  /\ UNCHANGED <<fsVars, cmd, list, snap, failed, passed, countVars, orig>>

\* A selected stack that cannot be read is passed over, not an error.
SkipUnreadable(p) ==
  /\ pc[p] = "migrate"
  /\ \E s \in todo[p] : todo' = [todo EXCEPT ![p] = @ \ {s}] /\ PassOver(p, {s})
  /\ UNCHANGED <<fsVars, cmd, pc, ret, cur, buf, list, snap, failed, crashes, edits, orig>>

\* pam_enable of each selected service, in any order.
EnableNext(p) ==
  /\ pc[p] = "enable"
  /\ \/ \E s \in todo[p] : /\ todo' = [todo EXCEPT ![p] = @ \ {s}]
                           /\ cur' = [cur EXCEPT ![p] = s]
                           /\ Goto(p, "read")
     \/ todo[p] = {} /\ Goto(p, "done") /\ UNCHANGED <<todo, cur>>
  /\ UNCHANGED <<fsVars, cmd, ret, buf, list, snap, failed, passed, countVars, orig>>

\* restore_pam_state writes back every file of the snapshot: stacks and the
\* backups that existed then.
ToRestore(p) == {<<"stack", s>> : s \in Services}
                  \cup {<<"backup", s>> : s \in {t \in Services : snap[p].bak[t] # NoBackup}}

\* An error ends a command, or turns setup's transaction to its rollback.
GiveUp(p) ==
  IF cmd[p].op = "setup" /\ pc[p] # "snapshot"
    THEN Goto(p, "restore") /\ todo' = [todo EXCEPT ![p] = ToRestore(p)]
    ELSE Goto(p, "error") /\ UNCHANGED todo

\* create_backup_once removes the backup it could not fill.
Fail(p) ==
  /\ faults < MaxFaults /\ faults' = faults + 1
  /\ pc[p] \in {"snapshot", "read", "backup", "fill", "write", "lookup", "put",
               "refresh", "list", "copyback"}
  /\ bak' = IF pc[p] = "fill" THEN [bak EXCEPT ![cur[p]] = NoBackup] ELSE bak
  /\ GiveUp(p)
  /\ UNCHANGED <<file, manifest, installed, cmd, ret, cur, buf, list, snap, failed, passed,
                 crashes, edits, orig>>

\* It ignores that it could not remove it either.
FailToRemove(p) ==
  /\ faults + 1 < MaxFaults /\ faults' = faults + 2
  /\ pc[p] = "fill" /\ GiveUp(p)
  /\ UNCHANGED <<fsVars, cmd, ret, cur, buf, list, snap, failed, passed, crashes, edits, orig>>

\* Backups that were not there before setup are its artifacts.
ArtifactsAll(p) == BackedUp
Artifacts(p) == {s \in BackedUp : snap[p].bak[s] = NoBackup}

\* One file of the snapshot; an error is noted and the rollback goes on.
Restore(p) ==
  /\ pc[p] = "restore"
  /\ \/ \E i \in todo[p] :
          /\ todo' = [todo EXCEPT ![p] = @ \ {i}]
          /\ \/ /\ faults < MaxFaults /\ faults' = faults + 1
                /\ failed' = [failed EXCEPT ![p] = TRUE] /\ UNCHANGED <<file, bak>>
             \/ /\ i[1] = "stack" /\ file' = [file EXCEPT ![i[2]] = snap[p].file[i[2]]]
                /\ UNCHANGED <<bak, faults, failed>>
             \/ /\ i[1] = "backup" /\ bak' = [bak EXCEPT ![i[2]] = snap[p].bak[i[2]]]
                /\ UNCHANGED <<file, faults, failed>>
          /\ UNCHANGED pc
     \/ /\ todo[p] = {} /\ Goto(p, "clean")
        /\ todo' = [todo EXCEPT ![p] = Artifacts(p)]
        /\ UNCHANGED <<file, bak, faults, failed>>
  /\ UNCHANGED <<manifest, installed, cmd, ret, cur, buf, list, snap, passed, crashes, edits,
                 orig>>

\* The directory cannot be listed, or some of its entries: nothing notes that.
MissArtifacts(p) ==
  /\ pc[p] = "clean"
  /\ \E S \in SUBSET todo[p] :
       S # {} /\ PassOver(p, S) /\ todo' = [todo EXCEPT ![p] = @ \ S]
  /\ UNCHANGED <<fsVars, cmd, pc, ret, cur, buf, list, snap, failed, crashes, edits, orig>>

\* The artifacts are removed, also when a stack could not be restored.
Clean(p) ==
  /\ pc[p] = "clean"
  /\ \/ \E s \in todo[p] :
          /\ todo' = [todo EXCEPT ![p] = @ \ {s}]
          /\ \/ /\ faults < MaxFaults /\ faults' = faults + 1
                /\ failed' = [failed EXCEPT ![p] = TRUE] /\ UNCHANGED bak
             \/ bak' = [bak EXCEPT ![s] = NoBackup] /\ UNCHANGED <<faults, failed>>
          /\ UNCHANGED pc
     \/ todo[p] = {} /\ Goto(p, "relist") /\ UNCHANGED <<bak, todo, faults, failed>>
  /\ UNCHANGED <<file, manifest, installed, cmd, ret, cur, buf, list, snap, passed, crashes,
                 edits, orig>>

RestoredManifest(p) == snap[p].manifest

Relist(p) ==
  /\ pc[p] = "relist"
  /\ \/ /\ manifest' = RestoredManifest(p)
        /\ Goto(p, IF failed[p] THEN "error" ELSE "rolled") /\ UNCHANGED faults
     \/ /\ faults < MaxFaults /\ faults' = faults + 1
        /\ Goto(p, "error") /\ UNCHANGED manifest
  /\ UNCHANGED <<file, bak, installed, cmd, ret, cur, buf, todo, list, snap, failed, passed,
                 crashes, edits, orig>>

-----------------------------------------------------------------------------
(* scripts/uninstall.sh (set -e: an error ends it).                         *)

\* irauthctl pam disable for each service with a backup, then the services of
\* the manifest once more, then the binaries and the manifest go.
Sweep(p) ==
  /\ pc[p] = "sweep"
  /\ \/ \E s \in todo[p] : /\ todo' = [todo EXCEPT ![p] = @ \ {s}]
                           /\ cur' = [cur EXCEPT ![p] = s]
                           /\ \/ bak[s] # NoBackup /\ Goto(p, "lookup")
                              \/ bak[s] = NoBackup /\ UNCHANGED pc
     \/ /\ todo[p] = {} /\ todo' = [todo EXCEPT ![p] = manifest]
        /\ Goto(p, "copyback") /\ UNCHANGED cur
  /\ UNCHANGED <<fsVars, cmd, ret, buf, list, snap, failed, passed, countVars, orig>>

CopyBack(p) ==
  /\ pc[p] = "copyback"
  /\ \/ \E s \in todo[p] :
          /\ todo' = [todo EXCEPT ![p] = @ \ {s}]
          /\ file' = IF bak[s] # NoBackup THEN [file EXCEPT ![s] = bak[s]] ELSE file
          /\ UNCHANGED <<pc, installed, manifest>>
     \/ /\ todo[p] = {} /\ Goto(p, "done")
        /\ installed' = FALSE /\ manifest' = {}
        /\ UNCHANGED <<file, todo>>
  /\ UNCHANGED <<bak, cmd, ret, cur, buf, list, snap, failed, passed, countVars, orig>>

-----------------------------------------------------------------------------
\* The command is killed, or the machine goes down.
Crash(p) ==
  /\ Active(p) /\ crashes < MaxCrashes
  /\ Goto(p, "dead") /\ crashes' = crashes + 1
  /\ UNCHANGED <<fsVars, cmd, ret, cur, buf, todo, list, snap, failed, passed, faults, edits, orig>>

\* The administrator or a package changes a stack outside IRAuth's lines.
Edit(s) ==
  /\ edits < MaxEdits
  /\ edits' = edits + 1
  /\ file' = [file EXCEPT ![s].base = edits + 2]
  /\ UNCHANGED <<bak, manifest, installed, procVars, faults, crashes, orig>>

Step(p) ==
  \/ \E m \in Commands : Start(p, m)
  \/ ReadStack(p) \/ OpenBackup(p) \/ FillBackup(p) \/ WriteStack(p)
  \/ Lookup(p) \/ Put(p) \/ Refresh(p) \/ WriteManifest(p)
  \/ TakeSnapshot(p) \/ Migrate(p) \/ SkipUnreadable(p) \/ EnableNext(p)
  \/ Fail(p) \/ FailToRemove(p) \/ Restore(p) \/ Clean(p) \/ MissArtifacts(p) \/ Relist(p)
  \/ Sweep(p) \/ CopyBack(p) \/ Crash(p)

Next == (\E p \in Procs : Step(p)) \/ (\E s \in Services : Edit(s))

Spec == Init /\ [][Next]_vars

-----------------------------------------------------------------------------
(* Properties.                                                              *)

\* A backup that was created and has not been filled: a stack with no lines.
Torn(s) == bak[s] = Empty
RollbackIncomplete == \E p \in Procs : failed[p]

\* SECURITY.md: before a service is modified its backup is created, from which
\* disable and uninstall restore it.  So every stack that calls pam_irauth.so, or
\* had its Howdy call taken out, has a backup of a stack IRAuth had not touched.
HookedHasBackup ==
  \A s \in Services : ~Pristine(file[s]) =>
    bak[s] # NoBackup /\ ~Torn(s) /\ Pristine(bak[s])

\* What the code keeps of that at every moment, under errors, kills and edits,
\* until a rollback has reported that it was incomplete: a stack that is changed
\* has a backup, never a copy of a stack IRAuth had changed, and one that was not
\* filled only after a kill, or after an error met while a first one was handled.
BackupBeforeChange ==
  ~RollbackIncomplete =>
    \A s \in Services : ~Pristine(file[s]) =>
      /\ bak[s] # NoBackup /\ Pristine(bak[s])
      /\ Torn(s) => crashes > 0 \/ faults > 1

\* A rollback that reports success leaves stacks and manifest exactly as setup
\* found them, from whatever step it was called (with no edit meanwhile), and the
\* backups too, save new ones it passed over in a directory it could not list.
RollbackRestores ==
  [][\A p \in Procs : pc[p] # "rolled" /\ pc'[p] = "rolled" /\ edits = 0 =>
       /\ file' = snap[p].file /\ manifest' = snap[p].manifest
       /\ \A s \in Services : bak'[s] # snap[p].bak[s] =>
            snap[p].bak[s] = NoBackup /\ <<"clean", s>> \in passed[p]]_vars

\* Between commands the manifest lists no stack but those whose Howdy call was
\* taken out, and all of these but the ones that some refresh could not read:
\* unless a command met an error or was killed between its two writes (an enable
\* does not touch the manifest).
ManifestAccurate ==
  (Quiet /\ installed /\ \A p \in Procs : pc[p] \in {"error", "dead"} => cmd[p].op = "enable") =>
    /\ manifest \subseteq Migrated
    /\ \A s \in Migrated \ manifest : \E p \in Procs : <<"refresh", s>> \in passed[p]

\* With no edits meanwhile, disabling or uninstalling gives back the stack IRAuth
\* found when it first touched it, also after a migration on top of an enable,
\* after kills, and after rollbacks (but one that reported it was incomplete),
\* unless its backup is one that was never filled.
DisableRestores ==
  [][\A p \in Procs, s \in Services :
       (/\ ~RollbackIncomplete /\ ~Torn(s) /\ edits' = 0
        /\ pc[p] \in {"put", "copyback"} /\ file'[s] # file[s]) => file'[s] = orig[s]]_vars

\* Once the PAM module is uninstalled no stack calls it, unless a rollback had
\* reported it was incomplete.
NoDanglingHook == ~installed /\ ~RollbackIncomplete => \A s \in Services : ~Hooked(file[s])

\* A setup that ends well has hooked every selected stack, and left a direct Howdy
\* call, which goes past the daemon's camera policy, in none but those that the
\* migration could not read.
SetupClosesBypass ==
  [][\A p \in Procs : pc[p] = "enable" /\ pc'[p] = "done" =>
       \A s \in cmd[p].on :
         /\ Hooked(file[s])
         /\ file[s].howdy => <<"migrate", s>> \in passed[p]]_vars
=============================================================================

--------------------------- MODULE PamFilesProofs ---------------------------
(***************************************************************************)
(* Proofs about PamFiles, for any services, commands and bounds.            *)
(***************************************************************************)
EXTENDS PamFiles, TLAPS

-----------------------------------------------------------------------------
(* Where a command can stand, and what it works on there.                   *)

Steps == Ended \cup {"ready", "read", "backup", "fill", "write", "lookup", "put", "refresh",
                     "list", "snapshot", "migrate", "enable", "restore", "clean", "relist",
                     "sweep", "copyback"}
NoCommand == [op |-> "none", on |-> {}]
Snapshots == [file : [Services -> Stacks], bak : [Services -> Stacks \cup {NoBackup}],
              manifest : SUBSET Services]

FileTypes ==
  /\ file \in [Services -> Stacks]
  /\ bak \in [Services -> Stacks \cup {NoBackup}]
  /\ manifest \subseteq Services /\ installed \in BOOLEAN
CountTypes ==
  faults \in 0..MaxFaults /\ crashes \in 0..MaxCrashes /\ edits \in 0..MaxEdits
ProcTypes ==
  /\ cmd \in [Procs -> Commands \cup {NoCommand}]
  /\ pc \in [Procs -> Steps] /\ ret \in [Procs -> {"done", "migrate", "enable", "sweep"}]
  /\ cur \in [Procs -> Services \cup {NoService}] /\ buf \in [Procs -> Stacks]
  /\ list \in [Procs -> SUBSET Services] /\ failed \in [Procs -> BOOLEAN]
  /\ passed \in [Procs -> SUBSET (Passing \X Services)]
  /\ DOMAIN todo = Procs /\ todo = [p \in Procs |-> todo[p]]
  /\ DOMAIN snap = Procs /\ snap = [p \in Procs |-> snap[p]]

\* The steps of each command, and where its subroutines return to.
Standing(p) ==
  \/ /\ cmd[p].op = "enable" /\ ret[p] = "done"
     /\ pc[p] \in {"read", "backup", "fill", "write"}
  \/ /\ cmd[p].op = "disable" /\ ret[p] = "done"
     /\ pc[p] \in {"lookup", "put", "refresh", "list"}
  \/ /\ cmd[p].op = "setup" /\ ret[p] \in {"migrate", "enable"}
     /\ pc[p] \in {"snapshot", "migrate", "read", "backup", "fill", "write", "refresh", "list",
                   "enable", "restore", "clean", "relist"}
     /\ pc[p] \in {"snapshot", "migrate"} => ret[p] = "migrate"
     /\ pc[p] \in {"refresh", "list", "enable", "read"} => ret[p] = "enable"
  \/ /\ cmd[p].op = "uninstall" /\ ret[p] = "sweep"
     /\ pc[p] \in {"sweep", "lookup", "put", "refresh", "list", "copyback"}

\* The service at hand, the rest of the loop, the snapshot.
Locals(p) ==
  /\ cmd[p] \in Commands
  /\ pc[p] \in {"read", "backup", "fill", "write", "lookup", "put"} => cur[p] \in Services
  /\ pc[p] \notin {"snapshot", "restore"} => todo[p] \subseteq Services
  /\ pc[p] = "restore" => todo[p] \subseteq ToRestore(p)
  /\ cmd[p].op = "setup" /\ pc[p] # "snapshot" => snap[p] \in Snapshots

\* A command that has not been started has none of this yet, and only one is
\* under way.
ControlInv ==
  \A p \in Procs :
    /\ pc[p] = "ready" => ret[p] = "done" /\ todo[p] = {}
    /\ Active(p) => Standing(p) /\ Locals(p) /\ \A q \in Procs : Active(q) => q = p

Typed == FileTypes /\ CountTypes /\ ProcTypes /\ ControlInv

LEMMA TypedImpliesTypeOK == Typed => TypeOK
  BY DEF Typed, FileTypes, CountTypes, ProcTypes, ControlInv, Locals, TypeOK

LEMMA StackEdits ==
  /\ Empty \in Stacks
  /\ \A x \in Stacks : AddStanza(x) \in Stacks /\ Rewrite(x) \in Stacks /\ Strip(x) \in Stacks
  /\ \A h \in BOOLEAN : Plain(1, h) \in Stacks
PROOF
  <1>1. \A h \in BOOLEAN : Plain(0, h) \in Stacks /\ Plain(1, h) \in Stacks
    BY PamFilesAssumption DEF Stacks, Plain
  <1>2. ASSUME NEW x \in Stacks
        PROVE  AddStanza(x) \in Stacks /\ Rewrite(x) \in Stacks /\ Strip(x) \in Stacks
    BY <1>2 DEF Stacks, AddStanza, Rewrite, Strip
  <1> QED  BY <1>1, <1>2 DEF Empty

LEMMA Bounds ==
  CountTypes =>
    /\ faults < MaxFaults => faults + 1 \in 0..MaxFaults
    /\ faults + 1 < MaxFaults => faults + 2 \in 0..MaxFaults
    /\ crashes < MaxCrashes => crashes + 1 \in 0..MaxCrashes
    /\ edits < MaxEdits => edits + 1 \in 0..MaxEdits /\ edits + 2 \in 0..(MaxEdits + 1)
  BY PamFilesAssumption DEF CountTypes

\* Passing over spends an error and leaves the history a history.
LEMMA PassingOver ==
  ASSUME CountTypes, ProcTypes, NEW p \in Procs, NEW S \in SUBSET Services,
         pc[p] \in Passing, PassOver(p, S)
  PROVE  /\ faults' \in 0..MaxFaults /\ passed' \in [Procs -> SUBSET (Passing \X Services)]
         /\ \A s \in S : <<pc[p], s>> \in passed'[p]
         /\ \A q \in Procs : passed[q] \subseteq passed'[q]
PROOF
  <1> USE DEF ProcTypes, PassOver
  <1>1. {pc[p]} \X S \in SUBSET (Passing \X Services)
    OBVIOUS
  <1> QED  BY <1>1, Bounds

LEMMA TypedInit == Init => Typed
PROOF
  <1> SUFFICES ASSUME Init PROVE Typed
    OBVIOUS
  <1>1. file \in [Services -> Stacks]
    BY StackEdits DEF Init
  <1>2. FileTypes /\ CountTypes
    BY <1>1, PamFilesAssumption DEF Init, FileTypes, CountTypes
  <1>3. ProcTypes
    BY StackEdits DEF Init, ProcTypes, Steps, NoCommand, Ended
  <1>4. ControlInv
    BY DEF Init, ControlInv, Active
  <1> QED  BY <1>2, <1>3, <1>4 DEF Typed

\* A step of p to l, which may end p's command, leaves every other command
\* where it is: not under way.
LEMMA OneAtATime ==
  ASSUME Typed, NEW p \in Procs, Active(p) \/ Quiet, NEW l, pc' = [pc EXCEPT ![p] = l],
         \A q \in Procs \ {p} : ret'[q] = ret[q] /\ todo'[q] = todo[q],
         Active(p)' => Standing(p)' /\ Locals(p)', l # "ready"
  PROVE  ControlInv'
PROOF
  <1>1. pc \in [Procs -> Steps]
    BY DEF Typed, ProcTypes
  <1>2. \A q \in Procs \ {p} : pc'[q] = pc[q] /\ ~Active(q) /\ ~Active(q)'
    BY <1>1 DEF Typed, ControlInv, Active, Quiet
  <1>3. pc'[p] = l
    BY <1>1
  <1> QED  BY <1>2, <1>3 DEF Typed, ControlInv

\* Every step leaves the variables in their types, and a command inside its script.
LEMMA TypedStart ==
  ASSUME Typed, NEW p \in Procs, NEW m \in Commands, Start(p, m)
  PROVE  Typed'
PROOF
  <1> USE DEF Typed, FileTypes, CountTypes, ProcTypes
  <1>1. m.op \in Ops /\ m.on \subseteq Services /\ Quiet /\ pc[p] = "ready"
    BY PamFilesAssumption DEF Start
  <1>2. ret[p] = "done" /\ todo[p] = {}
    BY <1>1 DEF ControlInv
  <1>3. cmd' = [cmd EXCEPT ![p] = m]
        /\ UNCHANGED <<fsVars, buf, list, snap, failed, passed, countVars>>
    BY DEF Start
  <1>4. CASE m.op \in {"enable", "disable"}
    <2>1. PICK s \in m.on : cur' = [cur EXCEPT ![p] = s]
      BY <1>4 DEF Start
    <2>2. /\ pc' = [pc EXCEPT ![p] = IF m.op = "enable" THEN "read" ELSE "lookup"]
          /\ UNCHANGED <<ret, todo>>
      BY <1>4 DEF Start, Goto
    <2>3. Standing(p)' /\ Locals(p)'
      BY <1>1, <1>2, <1>3, <1>4, <2>1, <2>2 DEF Standing, Locals
    <2>4. ControlInv'
      BY <1>1, <2>2, <2>3, OneAtATime
    <2> QED  BY <1>1, <1>3, <2>1, <2>2, <2>4 DEF fsVars, countVars, Steps
  <1>5. CASE m.op = "setup"
    <2>1. /\ pc' = [pc EXCEPT ![p] = "snapshot"] /\ ret' = [ret EXCEPT ![p] = "migrate"]
          /\ UNCHANGED <<cur, todo>>
      BY <1>5 DEF Start, Goto
    <2>2. Standing(p)' /\ Locals(p)'
      BY <1>1, <1>2, <1>3, <1>5, <2>1 DEF Standing, Locals
    <2>3. ControlInv'
      BY <1>1, <2>1, <2>2, OneAtATime
    <2> QED  BY <1>1, <1>3, <2>1, <2>3 DEF fsVars, countVars, Steps
  <1>6. CASE m.op = "uninstall"
    <2>1. /\ pc' = [pc EXCEPT ![p] = "sweep"] /\ ret' = [ret EXCEPT ![p] = "sweep"]
          /\ todo' = [todo EXCEPT ![p] = BackedUp] /\ UNCHANGED cur
      BY <1>6 DEF Start, Goto
    <2>2. Standing(p)' /\ Locals(p)'
      BY <1>1, <1>3, <1>6, <2>1 DEF Standing, Locals, BackedUp
    <2>3. ControlInv'
      BY <1>1, <2>1, <2>2, OneAtATime
    <2> QED  BY <1>1, <1>3, <2>1, <2>3 DEF fsVars, countVars, Steps
  <1> QED  BY <1>1, <1>4, <1>5, <1>6 DEF Ops

LEMMA TypedEnable ==
  ASSUME Typed, NEW p \in Procs,
         ReadStack(p) \/ OpenBackup(p) \/ FillBackup(p) \/ WriteStack(p)
  PROVE  Typed'
PROOF
  <1> USE DEF Typed, FileTypes, CountTypes, ProcTypes
  <1>1. /\ Active(p) /\ pc[p] \in {"read", "backup", "fill", "write"}
        /\ Standing(p) /\ Locals(p) /\ cur[p] \in Services /\ todo[p] \subseteq Services
    BY DEF ReadStack, OpenBackup, FillBackup, WriteStack, Active, Ended, ControlInv, Locals
  <1>2. \E l \in {"backup", "fill", "write", ret[p]} : pc' = [pc EXCEPT ![p] = l]
    BY DEF ReadStack, OpenBackup, FillBackup, WriteStack, Return, Goto
  <1>3. UNCHANGED <<cmd, ret, cur, todo, list, snap, failed, passed, countVars, manifest,
                    installed>>
    BY DEF ReadStack, OpenBackup, FillBackup, WriteStack, fsVars
  <1>4. /\ Active(p)' => Standing(p)' /\ Locals(p)'
    BY <1>1, <1>2, <1>3 DEF Standing, Locals, Active, Ended
  <1>5. ControlInv'
    BY <1>1, <1>2, <1>3, <1>4, OneAtATime
  <1>6. buf' \in [Procs -> Stacks]
    BY <1>1, StackEdits DEF ReadStack, OpenBackup, FillBackup, WriteStack
  <1>7. file' \in [Services -> Stacks] /\ bak' \in [Services -> Stacks \cup {NoBackup}]
    BY <1>1, StackEdits DEF ReadStack, OpenBackup, FillBackup, WriteStack, fsVars
  <1>8. pc' \in [Procs -> Steps]
    BY <1>2 DEF Steps, Ended
  <1> QED  BY <1>3, <1>5, <1>6, <1>7, <1>8 DEF countVars

LEMMA TypedDisable ==
  ASSUME Typed, NEW p \in Procs,
         Lookup(p) \/ Put(p) \/ Refresh(p) \/ WriteManifest(p)
  PROVE  Typed'
PROOF
  <1> USE DEF Typed, FileTypes, CountTypes, ProcTypes
  <1>1. /\ Active(p) /\ pc[p] \in {"lookup", "put", "refresh", "list"}
        /\ Standing(p) /\ Locals(p) /\ todo[p] \subseteq Services
        /\ pc[p] = "lookup" => cur[p] \in Services
    BY DEF Lookup, Put, Refresh, WriteManifest, Active, Ended, ControlInv, Locals
  <1>2. \/ pc[p] = "lookup" /\ pc' = [pc EXCEPT ![p] = "put"]
        \/ pc[p] = "put" /\ pc' = [pc EXCEPT ![p] = "refresh"]
        \/ pc[p] = "refresh" /\ pc' = [pc EXCEPT ![p] = "list"]
        \/ pc[p] = "list" /\ pc' = [pc EXCEPT ![p] = ret[p]]
    BY DEF Lookup, Put, Refresh, WriteManifest, Return, Goto, AfterPut
  <1>3. UNCHANGED <<cmd, ret, cur, todo, snap, failed, bak, installed>>
    BY DEF Lookup, Put, Refresh, WriteManifest, fsVars
  <1>4. /\ Active(p)' => Standing(p)' /\ Locals(p)'
    BY <1>1, <1>2, <1>3 DEF Standing, Locals, Active, Ended
  <1>5. ControlInv'
    BY <1>1, <1>2, <1>3, <1>4, OneAtATime
  <1>6. buf' \in [Procs -> Stacks] /\ file' \in [Services -> Stacks]
    BY <1>1, StackEdits DEF Lookup, Put, Refresh, WriteManifest, WayBack, fsVars
  <1>7. list' \in [Procs -> SUBSET Services] /\ manifest' \subseteq Services
    BY DEF Lookup, Put, Refresh, WriteManifest, Migrated, fsVars
  <1>8. pc' \in [Procs -> Steps]
    BY <1>2 DEF Steps, Ended
  <1>9. CountTypes' /\ passed' \in [Procs -> SUBSET (Passing \X Services)]
    <2>1. CASE UNCHANGED <<countVars, passed>>
      BY <2>1 DEF countVars
    <2>2. CASE ~UNCHANGED <<countVars, passed>>
      <3>1. PICK S \in SUBSET Migrated : PassOver(p, S)
        BY <2>2 DEF Lookup, Put, Refresh, WriteManifest, countVars
      <3>2. pc[p] \in Passing /\ S \in SUBSET Services /\ UNCHANGED <<crashes, edits>>
        BY <2>2 DEF Lookup, Put, Refresh, WriteManifest, Passing, Migrated, countVars
      <3> QED  BY <3>1, <3>2, PassingOver
    <2> QED  BY <2>1, <2>2
  <1> QED  BY <1>3, <1>5, <1>6, <1>7, <1>8, <1>9

LEMMA TypedSetup ==
  ASSUME Typed, NEW p \in Procs,
         TakeSnapshot(p) \/ Migrate(p) \/ SkipUnreadable(p) \/ EnableNext(p)
  PROVE  Typed'
PROOF
  <1> USE DEF Typed, FileTypes, CountTypes, ProcTypes
  <1>1. /\ Active(p) /\ Standing(p) /\ Locals(p) /\ cmd[p].op = "setup"
        /\ pc[p] \in {"snapshot", "migrate", "enable"}
    BY DEF TakeSnapshot, Migrate, SkipUnreadable, EnableNext, Active, Ended, ControlInv, Standing
  <1>2. cmd[p].on \subseteq Services
    BY <1>1, PamFilesAssumption DEF Locals
  <1>3. /\ UNCHANGED <<cmd, list, failed, crashes, edits, fsVars>>
        /\ ~SkipUnreadable(p) => UNCHANGED passed
    BY DEF TakeSnapshot, Migrate, SkipUnreadable, EnableNext, countVars
  <1>4. CASE TakeSnapshot(p)
    <2>1. /\ snap' = [snap EXCEPT ![p] = [file |-> file, bak |-> bak, manifest |-> manifest]]
          /\ todo' = [todo EXCEPT ![p] = cmd[p].on]
          /\ pc' = [pc EXCEPT ![p] = "migrate"]
          /\ UNCHANGED <<ret, cur, buf, countVars, passed>> /\ pc[p] = "snapshot"
      BY <1>4 DEF TakeSnapshot, Goto
    <2>2. snap'[p] \in Snapshots
      BY <2>1 DEF Snapshots
    <2>3. Standing(p)' /\ Locals(p)'
      BY <1>1, <1>2, <1>3, <2>1, <2>2 DEF Standing, Locals
    <2>4. ControlInv'
      BY <1>1, <2>1, <2>3, OneAtATime
    <2> QED  BY <1>3, <2>1, <2>4 DEF countVars, fsVars, Steps
  <1>5. pc[p] # "snapshot" => todo[p] \subseteq Services
    BY <1>1 DEF Locals
  <1>6. CASE Migrate(p)
    <2>1. pc[p] = "migrate" /\ UNCHANGED <<snap, countVars, passed>>
      BY <1>6 DEF Migrate
    <2>2. ASSUME NEW s \in todo[p], todo' = [todo EXCEPT ![p] = todo[p] \ {s}],
                 cur' = [cur EXCEPT ![p] = s], UNCHANGED ret,
                 \/ /\ buf' = [buf EXCEPT ![p] = Rewrite(file[s])]
                    /\ pc' = [pc EXCEPT ![p] = "backup"]
                 \/ UNCHANGED <<buf, pc>>
          PROVE  Typed'
      <3>1. pc' = [pc EXCEPT ![p] = pc'[p]] /\ pc'[p] \in {"migrate", "backup"}
        BY <2>1, <2>2
      <3>2. Standing(p)' /\ Locals(p)'
        BY <1>1, <1>3, <1>5, <2>1, <2>2, <3>1 DEF Standing, Locals
      <3>3. ControlInv'
        BY <1>1, <2>2, <3>1, <3>2, OneAtATime
      <3>4. buf' \in [Procs -> Stacks]
        BY <1>5, <2>1, <2>2, StackEdits
      <3> QED  BY <1>3, <1>5, <2>1, <2>2, <3>1, <3>3, <3>4 DEF countVars, fsVars, Steps
    <2>3. ASSUME todo' = [todo EXCEPT ![p] = cmd[p].on], ret' = [ret EXCEPT ![p] = "enable"],
                 pc' = [pc EXCEPT ![p] = "refresh"], UNCHANGED <<cur, buf>>
          PROVE  Typed'
      <3>1. Standing(p)' /\ Locals(p)'
        BY <1>1, <1>2, <1>3, <2>1, <2>3 DEF Standing, Locals
      <3>2. ControlInv'
        BY <1>1, <2>3, <3>1, OneAtATime
      <3> QED  BY <1>3, <2>1, <2>3, <3>2 DEF countVars, fsVars, Steps
    <2> QED  BY <1>6, <2>2, <2>3 DEF Migrate, Goto
  <1>7. CASE SkipUnreadable(p)
    <2>1. /\ pc[p] = "migrate" /\ pc[p] \in Passing
          /\ UNCHANGED <<pc, ret, cur, buf, snap, crashes, edits>>
      BY <1>7 DEF SkipUnreadable, Passing
    <2>2. PICK s \in todo[p] : todo' = [todo EXCEPT ![p] = todo[p] \ {s}] /\ PassOver(p, {s})
      BY <1>7 DEF SkipUnreadable
    <2>6. faults' \in 0..MaxFaults /\ passed' \in [Procs -> SUBSET (Passing \X Services)]
      BY <1>5, <2>1, <2>2, PassingOver
    <2>3. pc' = [pc EXCEPT ![p] = "migrate"]
      BY <2>1
    <2>4. Standing(p)' /\ Locals(p)'
      BY <1>1, <1>3, <1>5, <2>1, <2>2 DEF Standing, Locals
    <2>5. ControlInv'
      BY ZenonT(60), <1>1, <2>1, <2>2, <2>3, <2>4, OneAtATime
    <2> QED  BY <1>3, <2>1, <2>2, <2>5, <2>6 DEF fsVars
  <1>8. CASE EnableNext(p)
    <2>1. pc[p] = "enable" /\ UNCHANGED <<ret, buf, snap, countVars, passed>>
      BY <1>8 DEF EnableNext
    <2>2. ASSUME NEW s \in todo[p], todo' = [todo EXCEPT ![p] = todo[p] \ {s}],
                 cur' = [cur EXCEPT ![p] = s], pc' = [pc EXCEPT ![p] = "read"]
          PROVE  Typed'
      <3>1. Standing(p)' /\ Locals(p)'
        BY <1>1, <1>3, <1>5, <2>1, <2>2 DEF Standing, Locals
      <3>2. ControlInv'
        BY <1>1, <2>1, <2>2, <3>1, OneAtATime
      <3> QED  BY <1>3, <1>5, <2>1, <2>2, <3>2 DEF fsVars, countVars, Steps
    <2>3. ASSUME pc' = [pc EXCEPT ![p] = "done"], UNCHANGED <<todo, cur>>
          PROVE  Typed'
      <3>1. ~Active(p)'
        BY <2>3 DEF Active, Ended
      <3>2. ControlInv'
        BY <1>1, <2>1, <2>3, <3>1, OneAtATime
      <3> QED  BY <1>3, <2>1, <2>3, <3>2 DEF fsVars, countVars, Steps, Ended
    <2> QED  BY <1>8, <2>2, <2>3 DEF EnableNext, Goto
  <1> QED  BY <1>4, <1>6, <1>7, <1>8

LEMMA TypedFail ==
  ASSUME Typed, NEW p \in Procs, Fail(p) \/ FailToRemove(p)
  PROVE  Typed'
PROOF
  <1> USE DEF Typed, FileTypes, CountTypes, ProcTypes
  <1>1. Active(p) /\ Standing(p) /\ Locals(p)
    BY DEF Fail, FailToRemove, Active, Ended, ControlInv
  <1>2. /\ UNCHANGED <<file, manifest, installed, cmd, ret, cur, buf, list, snap, failed,
                       passed, crashes, edits>>
        /\ faults' \in 0..MaxFaults
        /\ bak' \in [Services -> Stacks \cup {NoBackup}]
    <2>1. CASE Fail(p)
      BY <2>1, Bounds DEF Fail
    <2>2. CASE FailToRemove(p)
      BY <2>2, Bounds DEF FailToRemove, fsVars
    <2> QED  BY <2>1, <2>2
  <1>3. CASE cmd[p].op = "setup" /\ pc[p] # "snapshot"
    <2>1. pc' = [pc EXCEPT ![p] = "restore"] /\ todo' = [todo EXCEPT ![p] = ToRestore(p)]
      BY <1>3 DEF Fail, FailToRemove, GiveUp, Goto
    <2>2. Standing(p)' /\ Locals(p)'
      BY <1>1, <1>2, <1>3, <2>1 DEF Standing, Locals, ToRestore
    <2>3. ControlInv'
      BY <1>1, <1>2, <2>1, <2>2, OneAtATime
    <2> QED  BY <1>2, <2>1, <2>3 DEF Steps
  <1>4. CASE ~(cmd[p].op = "setup" /\ pc[p] # "snapshot")
    <2>1. pc' = [pc EXCEPT ![p] = "error"] /\ UNCHANGED todo
      BY <1>4 DEF Fail, FailToRemove, GiveUp, Goto
    <2>2. ~Active(p)'
      BY <2>1 DEF Active, Ended
    <2>3. ControlInv'
      BY <1>1, <1>2, <2>1, <2>2, OneAtATime
    <2> QED  BY <1>2, <2>1, <2>3 DEF Steps, Ended
  <1> QED  BY <1>3, <1>4

LEMMA TypedRollback ==
  ASSUME Typed, NEW p \in Procs, Restore(p) \/ Clean(p) \/ MissArtifacts(p) \/ Relist(p)
  PROVE  Typed'
PROOF
  <1> USE DEF Typed, FileTypes, CountTypes, ProcTypes
  <1>1. /\ Active(p) /\ Standing(p) /\ Locals(p) /\ cmd[p].op = "setup"
        /\ pc[p] \in {"restore", "clean", "relist"} /\ snap[p] \in Snapshots
    BY DEF Restore, Clean, MissArtifacts, Relist, Active, Ended, ControlInv, Standing, Locals
  <1>2. /\ UNCHANGED <<installed, cmd, ret, cur, buf, list, snap, crashes, edits>>
        /\ ~MissArtifacts(p) => UNCHANGED passed
    BY DEF Restore, Clean, MissArtifacts, Relist, fsVars
  <1>3. CASE Restore(p)
    <2>1. pc[p] = "restore" /\ todo[p] \subseteq ToRestore(p) /\ UNCHANGED <<manifest, passed>>
      BY <1>1, <1>3 DEF Restore, Locals
    <2>2. ToRestore(p)' = ToRestore(p)
      BY <1>2 DEF ToRestore
    <2>3. ASSUME NEW i \in todo[p], todo' = [todo EXCEPT ![p] = todo[p] \ {i}], UNCHANGED pc,
                 \/ /\ faults < MaxFaults /\ faults' = faults + 1
                    /\ failed' = [failed EXCEPT ![p] = TRUE] /\ UNCHANGED <<file, bak>>
                 \/ /\ i[1] = "stack" /\ file' = [file EXCEPT ![i[2]] = snap[p].file[i[2]]]
                    /\ UNCHANGED <<bak, faults, failed>>
                 \/ /\ i[1] = "backup" /\ bak' = [bak EXCEPT ![i[2]] = snap[p].bak[i[2]]]
                    /\ UNCHANGED <<file, faults, failed>>
          PROVE  Typed'
      <3>1. pc' = [pc EXCEPT ![p] = "restore"]
        BY <2>1, <2>3
      <3>2. Standing(p)' /\ Locals(p)'
        BY <1>1, <1>2, <2>1, <2>2, <2>3 DEF Standing, Locals
      <3>3. ControlInv'
        BY ZenonT(60), <1>1, <1>2, <2>3, <3>1, <3>2, OneAtATime
      <3>4. i[2] \in Services
        BY <2>1, <2>3 DEF ToRestore
      <3>5. snap[p].file[i[2]] \in Stacks /\ snap[p].bak[i[2]] \in Stacks \cup {NoBackup}
        BY <1>1, <3>4 DEF Snapshots
      <3>6. FileTypes'
        BY <1>2, <2>1, <2>3, <3>4, <3>5
      <3>7. CountTypes' /\ failed' \in [Procs -> BOOLEAN]
        BY <1>2, <2>3, Bounds
      <3> QED  BY <1>2, <2>1, <2>3, <3>3, <3>6, <3>7
    <2>4. ASSUME todo' = [todo EXCEPT ![p] = Artifacts(p)], pc' = [pc EXCEPT ![p] = "clean"],
                 UNCHANGED <<file, bak, faults, failed>>
          PROVE  Typed'
      <3>1. Artifacts(p) \subseteq Services
        BY DEF Artifacts, BackedUp
      <3>2. Standing(p)' /\ Locals(p)'
        BY <1>1, <1>2, <2>4, <3>1 DEF Standing, Locals
      <3>3. ControlInv'
        BY <1>1, <1>2, <2>4, <3>2, OneAtATime
      <3> QED  BY <1>2, <2>1, <2>4, <3>3 DEF Steps
    <2> QED  BY <1>3, <2>3, <2>4 DEF Restore, Goto
  <1>4. CASE Clean(p)
    <2>1. pc[p] = "clean" /\ todo[p] \subseteq Services /\ UNCHANGED <<file, manifest, passed>>
      BY <1>1, <1>4 DEF Clean, Locals
    <2>2. ASSUME NEW s \in todo[p], todo' = [todo EXCEPT ![p] = todo[p] \ {s}], UNCHANGED pc,
                 \/ /\ faults < MaxFaults /\ faults' = faults + 1
                    /\ failed' = [failed EXCEPT ![p] = TRUE] /\ UNCHANGED bak
                 \/ bak' = [bak EXCEPT ![s] = NoBackup] /\ UNCHANGED <<faults, failed>>
          PROVE  Typed'
      <3>1. pc' = [pc EXCEPT ![p] = "clean"]
        BY <2>1, <2>2
      <3>2. Standing(p)' /\ Locals(p)'
        BY <1>1, <1>2, <2>1, <2>2 DEF Standing, Locals
      <3>3. ControlInv'
        BY ZenonT(60), <1>1, <1>2, <2>2, <3>1, <3>2, OneAtATime
      <3>4. FileTypes'
        BY <1>2, <2>1, <2>2
      <3>5. CountTypes' /\ failed' \in [Procs -> BOOLEAN]
        BY <1>2, <2>2, Bounds
      <3> QED  BY <1>2, <2>1, <2>2, <3>3, <3>4, <3>5
    <2>3. ASSUME pc' = [pc EXCEPT ![p] = "relist"], UNCHANGED <<bak, todo, faults, failed>>
          PROVE  Typed'
      <3>1. Standing(p)' /\ Locals(p)'
        BY <1>1, <1>2, <2>1, <2>3 DEF Standing, Locals
      <3>2. ControlInv'
        BY <1>1, <1>2, <2>3, <3>1, OneAtATime
      <3> QED  BY <1>2, <2>1, <2>3, <3>2 DEF Steps
    <2> QED  BY <1>4, <2>2, <2>3 DEF Clean, Goto
  <1>5. CASE Relist(p)
    <2>1. /\ \E l \in {"error", "rolled"} : pc' = [pc EXCEPT ![p] = l]
          /\ UNCHANGED <<file, bak, todo, failed, passed>> /\ faults' \in 0..MaxFaults
      BY <1>5, Bounds DEF Relist, Goto
    <2>2. manifest' \subseteq Services
      BY <1>1, <1>5 DEF Relist, RestoredManifest, Snapshots
    <2>3. ~Active(p)'
      BY <2>1 DEF Active, Ended
    <2>4. ControlInv'
      BY <1>1, <1>2, <2>1, <2>3, OneAtATime
    <2> QED  BY <1>2, <2>1, <2>2, <2>4 DEF Steps, Ended
  <1>6. CASE MissArtifacts(p)
    <2>1. /\ pc[p] = "clean" /\ pc[p] \in Passing /\ todo[p] \subseteq Services
          /\ UNCHANGED <<file, bak, manifest, pc, failed>>
      BY <1>1, <1>6 DEF MissArtifacts, Locals, Passing, fsVars
    <2>2. PICK S \in SUBSET todo[p] : todo' = [todo EXCEPT ![p] = todo[p] \ S] /\ PassOver(p, S)
      BY <1>6 DEF MissArtifacts
    <2>3. faults' \in 0..MaxFaults /\ passed' \in [Procs -> SUBSET (Passing \X Services)]
      BY <2>1, <2>2, PassingOver
    <2>4. pc' = [pc EXCEPT ![p] = "clean"]
      BY <2>1
    <2>5. Standing(p)' /\ Locals(p)'
      BY <1>1, <1>2, <2>1, <2>2 DEF Standing, Locals
    <2>6. ControlInv'
      BY <1>1, <1>2, <2>2, <2>4, <2>5, OneAtATime
    <2> QED  BY <1>2, <2>1, <2>2, <2>3, <2>6
  <1> QED  BY <1>3, <1>4, <1>5, <1>6

LEMMA TypedUninstall ==
  ASSUME Typed, NEW p \in Procs, Sweep(p) \/ CopyBack(p)
  PROVE  Typed'
PROOF
  <1> USE DEF Typed, FileTypes, CountTypes, ProcTypes
  <1>1. /\ Active(p) /\ Standing(p) /\ Locals(p) /\ cmd[p].op = "uninstall"
        /\ pc[p] \in {"sweep", "copyback"} /\ todo[p] \subseteq Services
    BY DEF Sweep, CopyBack, Active, Ended, ControlInv, Standing, Locals
  <1>2. UNCHANGED <<bak, cmd, ret, buf, list, snap, failed, passed, countVars>>
    BY DEF Sweep, CopyBack, fsVars
  <1>3. CASE Sweep(p)
    <2>1. pc[p] = "sweep" /\ UNCHANGED <<file, manifest, installed>>
      BY <1>3 DEF Sweep, fsVars
    <2>2. ASSUME NEW s \in todo[p], todo' = [todo EXCEPT ![p] = todo[p] \ {s}],
                 cur' = [cur EXCEPT ![p] = s],
                 NEW l \in {"lookup", "sweep"}, pc' = [pc EXCEPT ![p] = l]
          PROVE  Typed'
      <3>1. Standing(p)' /\ Locals(p)'
        BY <1>1, <1>2, <2>1, <2>2 DEF Standing, Locals
      <3>2. ControlInv'
        BY <1>1, <1>2, <2>2, <3>1, OneAtATime
      <3> QED  BY <1>1, <1>2, <2>1, <2>2, <3>2 DEF countVars, Steps
    <2>3. ASSUME todo' = [todo EXCEPT ![p] = manifest], pc' = [pc EXCEPT ![p] = "copyback"],
                 UNCHANGED cur
          PROVE  Typed'
      <3>1. Standing(p)' /\ Locals(p)'
        BY <1>1, <1>2, <2>1, <2>3 DEF Standing, Locals
      <3>2. ControlInv'
        BY <1>1, <1>2, <2>3, <3>1, OneAtATime
      <3> QED  BY <1>2, <2>1, <2>3, <3>2 DEF countVars, Steps
    <2>4. UNCHANGED pc => pc' = [pc EXCEPT ![p] = "sweep"]
      BY <2>1
    <2> QED  BY <1>3, <2>2, <2>3, <2>4 DEF Sweep, Goto
  <1>4. CASE CopyBack(p)
    <2>1. pc[p] = "copyback" /\ UNCHANGED cur
      BY <1>4 DEF CopyBack
    <2>2. ASSUME NEW s \in todo[p], todo' = [todo EXCEPT ![p] = todo[p] \ {s}],
                 file' = IF bak[s] # NoBackup THEN [file EXCEPT ![s] = bak[s]] ELSE file,
                 UNCHANGED <<pc, installed, manifest>>
          PROVE  Typed'
      <3>1. pc' = [pc EXCEPT ![p] = "copyback"]
        BY <2>1, <2>2
      <3>2. Standing(p)' /\ Locals(p)'
        BY <1>1, <1>2, <2>1, <2>2 DEF Standing, Locals
      <3>3. ControlInv'
        BY ZenonT(60), <1>1, <1>2, <2>2, <3>1, <3>2, OneAtATime
      <3>4. file' \in [Services -> Stacks]
        BY <1>1, <2>2
      <3> QED  BY <1>2, <2>1, <2>2, <3>3, <3>4 DEF countVars
    <2>3. ASSUME pc' = [pc EXCEPT ![p] = "done"], installed' = FALSE, manifest' = {},
                 UNCHANGED <<file, todo>>
          PROVE  Typed'
      <3>1. ~Active(p)'
        BY <2>3 DEF Active, Ended
      <3>2. ControlInv'
        BY <1>1, <1>2, <2>3, <3>1, OneAtATime
      <3> QED  BY <1>2, <2>1, <2>3, <3>2 DEF countVars, Steps, Ended
    <2> QED  BY <1>4, <2>2, <2>3 DEF CopyBack, Goto
  <1> QED  BY <1>3, <1>4

LEMMA TypedOther ==
  ASSUME Typed, \/ \E p \in Procs : Crash(p)
                \/ \E s \in Services : Edit(s)
                \/ UNCHANGED vars
  PROVE  Typed'
PROOF
  <1> USE DEF Typed, FileTypes, CountTypes, ProcTypes
  <1>1. ASSUME NEW p \in Procs, Crash(p) PROVE Typed'
    <2>1. /\ Active(p) /\ pc' = [pc EXCEPT ![p] = "dead"] /\ crashes' \in 0..MaxCrashes
          /\ UNCHANGED <<fsVars, cmd, ret, cur, buf, todo, list, snap, failed, passed, faults,
                         edits>>
      BY <1>1, Bounds DEF Crash, Goto
    <2>2. ~Active(p)'
      BY <2>1 DEF Active, Ended
    <2>3. ControlInv'
      BY <2>1, <2>2, OneAtATime
    <2> QED  BY <2>1, <2>3 DEF fsVars, Steps, Ended
  <1>2. ASSUME UNCHANGED procVars PROVE ControlInv'
    BY <1>2 DEF ControlInv, Standing, Locals, Active, ToRestore, procVars, Snapshots
  <1>3. ASSUME NEW s \in Services, Edit(s) PROVE Typed'
    <2>1. file' \in [Services -> Stacks] /\ edits' \in 0..MaxEdits
      BY ZenonT(60), <1>3, Bounds DEF Edit, Stacks
    <2> QED  BY <1>2, <1>3, <2>1 DEF Edit, procVars
  <1>4. CASE UNCHANGED vars
    BY <1>2, <1>4 DEF vars, fsVars, procVars, countVars
  <1> QED  BY <1>1, <1>3, <1>4

LEMMA TypedStep == Typed /\ [Next]_vars => Typed'
  BY TypedStart, TypedEnable, TypedDisable, TypedSetup, TypedFail, TypedRollback,
     TypedUninstall, TypedOther DEF Next, Step

\* Every variable has its type, and one command is under way at a time.
THEOREM TypeCorrect == Spec => []TypeOK
  BY TypedInit, TypedStep, TypedImpliesTypeOK, PTL DEF Spec

-----------------------------------------------------------------------------
(* A way back for every stack, whatever fails, crashes or is edited.        *)

\* A stack that was touched has a backup, and a backup is of an untouched stack.
Saved(f, b) ==
  \A s \in Services : /\ ~Pristine(f[s]) => b[s] # NoBackup
                      /\ b[s] # NoBackup => Pristine(b[s])

\* Between opening a backup and writing the stack or the way back.
Pending(p) ==
  /\ pc[p] = "fill" => bak[cur[p]] # NoBackup /\ Pristine(file[cur[p]])
  /\ pc[p] = "write" => bak[cur[p]] # NoBackup
  /\ pc[p] = "put" => Pristine(buf[p])

\* No backup of the snapshot is lost, and a rollback removes the backup of no
\* stack before it has put the untouched stack back.
Kept(p) ==
  /\ Saved(snap[p].file, snap[p].bak)
  /\ \A s \in Services : snap[p].bak[s] # NoBackup => bak[s] # NoBackup
  /\ pc[p] = "fill" => snap[p].bak[cur[p]] = NoBackup
  /\ pc[p] \in {"restore", "clean", "relist"} =>
       \A s \in Services : snap[p].bak[s] = NoBackup =>
         Pristine(file[s]) \/ (pc[p] = "restore" /\ <<"stack", s>> \in todo[p])
  /\ pc[p] = "clean" => \A s \in todo[p] : snap[p].bak[s] = NoBackup

\* What the uninstaller has left to unhook.
Swept(p) ==
  \A s \in Services : Hooked(file[s]) =>
    \/ s \in todo[p] /\ pc[p] # "copyback"
    \/ s = cur[p] /\ pc[p] \in {"lookup", "put"}

Inside(p) ==
  /\ Pending(p)
  /\ cmd[p].op = "setup" /\ pc[p] # "snapshot" => Kept(p)
  /\ cmd[p].op = "uninstall" => Swept(p)

WayInv ==
  /\ Saved(file, bak)
  /\ \A p \in Procs : Active(p) => Inside(p)
  /\ ~installed => Quiet /\ \A s \in Services : ~Hooked(file[s])

LEMMA WayImpliesNoDangling == WayInv => NoDanglingHook
  BY DEF WayInv, NoDanglingHook

LEMMA Untouched ==
  /\ Pristine(Empty) /\ \A h \in BOOLEAN : Pristine(Plain(1, h))
  /\ \A x \in Stacks : /\ Pristine(x) => ~Hooked(x) /\ Pristine(Strip(x))
                       /\ \A n \in Nat : /\ Pristine([x EXCEPT !.base = n]) <=> Pristine(x)
                                         /\ Hooked([x EXCEPT !.base = n]) <=> Hooked(x)
  BY DEF Pristine, Hooked, Empty, Plain, Strip, Stacks

LEMMA WayInit == Init => WayInv
  BY Untouched DEF Init, WayInv, Saved, Active, Quiet

\* A step of p leaves no other command under way.
LEMMA NoOther ==
  ASSUME Typed, NEW p \in Procs, Active(p) \/ Quiet, \A q \in Procs \ {p} : pc'[q] = pc[q]
  PROVE  \A q \in Procs : Active(q)' => q = p
  BY DEF Typed, ControlInv, Active, Quiet

LEMMA WayStart ==
  ASSUME Typed, WayInv, NEW p \in Procs, NEW m \in Commands, Start(p, m)
  PROVE  WayInv'
PROOF
  <1> USE DEF Typed, FileTypes, ProcTypes
  <1>1. m.op \in Ops
    BY PamFilesAssumption
  <1>2. /\ UNCHANGED <<file, bak, installed>> /\ Quiet /\ installed /\ cmd'[p] = m
        /\ pc' = [pc EXCEPT ![p] = CASE m.op = "enable" -> "read"
                                     [] m.op = "disable" -> "lookup"
                                     [] m.op = "setup" -> "snapshot"
                                     [] m.op = "uninstall" -> "sweep"]
        /\ m.op = "uninstall" => todo'[p] = BackedUp
    <2>1. /\ UNCHANGED <<file, bak, installed>> /\ Quiet /\ installed /\ cmd'[p] = m
      BY DEF Start, fsVars
    <2>2. CASE m.op \in {"enable", "disable"}
      BY <2>1, <2>2 DEF Start, Goto
    <2>3. CASE m.op = "setup"
      BY <2>1, <2>3 DEF Start, Goto
    <2>4. CASE m.op = "uninstall"
      BY <2>1, <2>4 DEF Start, Goto
    <2> QED  BY <1>1, <2>2, <2>3, <2>4 DEF Ops
  <1>3. m.op = "uninstall" => \A s \in Services : Hooked(file[s]) => s \in BackedUp
    BY Untouched DEF WayInv, Saved, BackedUp
  <1>4. Inside(p)'
    BY <1>1, <1>2, <1>3 DEF Inside, Pending, Swept, Ops
  <1>5. \A q \in Procs : Active(q)' => q = p
    BY <1>2, NoOther
  <1> QED  BY <1>2, <1>4, <1>5 DEF WayInv

LEMMA WayEnable ==
  ASSUME Typed, WayInv, NEW p \in Procs,
         ReadStack(p) \/ OpenBackup(p) \/ FillBackup(p) \/ WriteStack(p)
  PROVE  WayInv'
PROOF
  <1> USE DEF Typed, FileTypes, ProcTypes
  <1>1. /\ Active(p) /\ pc[p] \in {"read", "backup", "fill", "write"}
        /\ Standing(p) /\ cur[p] \in Services /\ Inside(p) /\ installed
    BY DEF ReadStack, OpenBackup, FillBackup, WriteStack, Active, Ended, ControlInv, Locals,
           WayInv, Quiet
  <1>2. UNCHANGED <<installed, cmd, ret, cur, snap>> /\ \A q \in Procs \ {p} : pc'[q] = pc[q]
    BY DEF ReadStack, OpenBackup, FillBackup, WriteStack, fsVars, Return, Goto
  <1>3. CASE ReadStack(p)
    <2>1. UNCHANGED <<file, bak>> /\ pc'[p] \in {"backup", "done", "migrate", "enable"}
      BY <1>1, <1>3 DEF ReadStack, fsVars, Return, Goto, Standing
    <2>2. cmd[p].op # "uninstall"
      BY <1>1 DEF Standing
    <2>3. Inside(p)'
      BY <1>1, <1>2, <2>1, <2>2 DEF Inside, Pending, Kept, Standing, ReadStack
    <2> QED  BY <1>1, <1>2, <2>1, <2>3, NoOther DEF WayInv
  <1>4. CASE OpenBackup(p)
    <2>1. pc[p] = "backup" /\ UNCHANGED file /\ cmd[p].op # "uninstall"
      BY <1>1, <1>4 DEF OpenBackup, Standing
    <2>2. CASE NeedsBackup(cur[p])
      <3>1. /\ bak[cur[p]] = NoBackup /\ bak' = [bak EXCEPT ![cur[p]] = Empty]
            /\ pc'[p] = "fill"
        BY <1>4, <2>2 DEF OpenBackup, NeedsBackup, Goto
      <3>2. Pristine(file[cur[p]]) /\ Empty # NoBackup
        BY <1>1, <3>1, StackEdits, PamFilesAssumption DEF WayInv, Saved
      <3>3. Saved(file, bak)'
        BY <2>1, <3>1, <3>2, Untouched DEF WayInv, Saved
      <3>4. Inside(p)'
        BY <1>1, <1>2, <2>1, <3>1, <3>2 DEF Inside, Pending, Kept
      <3> QED  BY <1>1, <1>2, <3>3, <3>4, NoOther DEF WayInv
    <2>3. CASE ~NeedsBackup(cur[p])
      <3>1. bak[cur[p]] # NoBackup /\ UNCHANGED bak /\ pc'[p] = "write"
        BY <1>4, <2>3 DEF OpenBackup, NeedsBackup, Goto
      <3>2. Inside(p)'
        BY <1>1, <1>2, <2>1, <3>1 DEF Inside, Pending, Kept
      <3> QED  BY <1>1, <1>2, <2>1, <3>1, <3>2, NoOther DEF WayInv
    <2> QED  BY <2>2, <2>3
  <1>5. CASE FillBackup(p)
    <2>1. /\ pc[p] = "fill" /\ pc'[p] = "write" /\ UNCHANGED file
          /\ bak' = [bak EXCEPT ![cur[p]] = file[cur[p]]] /\ cmd[p].op # "uninstall"
      BY <1>1, <1>5 DEF FillBackup, Standing, Goto
    <2>2. Pristine(file[cur[p]]) /\ file[cur[p]] # NoBackup
      BY <1>1, <2>1, PamFilesAssumption DEF Inside, Pending
    <2>3. Saved(file, bak)'
      BY <2>1, <2>2 DEF WayInv, Saved
    <2>4. Inside(p)'
      BY <1>1, <1>2, <2>1, <2>2 DEF Inside, Pending, Kept
    <2> QED  BY <1>1, <1>2, <2>3, <2>4, NoOther DEF WayInv
  <1>6. CASE WriteStack(p)
    <2>1. /\ pc[p] = "write" /\ pc'[p] \in {"done", "migrate", "enable"} /\ UNCHANGED bak
          /\ file' = [file EXCEPT ![cur[p]] = buf[p]] /\ cmd[p].op # "uninstall"
      BY <1>1, <1>6 DEF WriteStack, Standing, Return, Goto
    <2>2. bak[cur[p]] # NoBackup
      BY <1>1, <2>1 DEF Inside, Pending
    <2>3. Saved(file, bak)'
      BY <2>1, <2>2 DEF WayInv, Saved
    <2>4. Inside(p)'
      BY <1>1, <1>2, <2>1, <2>2 DEF Inside, Pending, Kept
    <2> QED  BY <1>1, <1>2, <2>3, <2>4, NoOther DEF WayInv
  <1> QED  BY <1>3, <1>4, <1>5, <1>6

LEMMA WayDisable ==
  ASSUME Typed, WayInv, NEW p \in Procs,
         Lookup(p) \/ Put(p) \/ Refresh(p) \/ WriteManifest(p)
  PROVE  WayInv'
PROOF
  <1> USE DEF Typed, FileTypes, ProcTypes
  <1>1. /\ Active(p) /\ pc[p] \in {"lookup", "put", "refresh", "list"}
        /\ Standing(p) /\ (pc[p] \in {"lookup", "put"} => cur[p] \in Services)
        /\ Inside(p) /\ installed
    BY DEF Lookup, Put, Refresh, WriteManifest, Active, Ended, ControlInv, Locals,
           WayInv, Quiet
  <1>2. /\ UNCHANGED <<installed, cmd, ret, cur, todo, snap, bak>>
        /\ \A q \in Procs \ {p} : pc'[q] = pc[q]
    BY DEF Lookup, Put, Refresh, WriteManifest, fsVars, Return, Goto
  <1>3. CASE Lookup(p)
    <2>1. /\ pc[p] = "lookup" /\ pc'[p] = "put" /\ UNCHANGED file
          /\ buf' = [buf EXCEPT ![p] = WayBack(cur[p])]
      BY <1>3 DEF Lookup, fsVars, Goto
    <2>2. Pristine(WayBack(cur[p]))
      BY <1>1, <2>1, Untouched DEF WayBack, WayInv, Saved
    <2>3. Inside(p)'
      BY <1>1, <1>2, <2>1, <2>2 DEF Inside, Pending, Kept, Swept, Standing
    <2> QED  BY <1>1, <1>2, <2>1, <2>3, NoOther DEF WayInv
  <1>4. CASE Put(p)
    <2>1. /\ pc[p] = "put" /\ pc'[p] = "refresh" /\ cmd[p].op # "setup"
          /\ file' = [file EXCEPT ![cur[p]] = buf[p]]
      BY <1>1, <1>4 DEF Put, Goto, AfterPut, Standing
    <2>2. Pristine(buf[p]) /\ ~Hooked(buf[p])
      BY <1>1, <2>1, Untouched DEF Inside, Pending
    <2>3. Saved(file, bak)'
      BY <1>2, <2>1, <2>2 DEF WayInv, Saved
    <2>4. Inside(p)'
      BY <1>1, <1>2, <2>1, <2>2 DEF Inside, Pending, Swept
    <2> QED  BY <1>1, <1>2, <2>3, <2>4, NoOther DEF WayInv
  <1>5. CASE Refresh(p) \/ WriteManifest(p)
    <2>1. /\ pc[p] \in {"refresh", "list"} /\ UNCHANGED file
          /\ pc'[p] \in {"list", "done", "migrate", "enable", "sweep"}
      BY <1>1, <1>5 DEF Refresh, WriteManifest, fsVars, Return, Goto
    <2>2. Inside(p)'
      BY <1>1, <1>2, <2>1 DEF Inside, Pending, Kept, Swept, Standing
    <2> QED  BY <1>1, <1>2, <2>1, <2>2, NoOther DEF WayInv
  <1> QED  BY <1>3, <1>4, <1>5


LEMMA WaySetup ==
  ASSUME Typed, WayInv, NEW p \in Procs,
         TakeSnapshot(p) \/ Migrate(p) \/ SkipUnreadable(p) \/ EnableNext(p)
  PROVE  WayInv'
PROOF
  <1> USE DEF Typed, FileTypes, ProcTypes
  <1>1. /\ Active(p) /\ Inside(p) /\ installed /\ cmd[p].op = "setup"
        /\ pc[p] \in {"snapshot", "migrate", "enable"}
    BY DEF TakeSnapshot, Migrate, SkipUnreadable, EnableNext, Active, Ended, ControlInv,
           Standing, WayInv, Quiet
  <1>2. /\ UNCHANGED <<file, bak, installed, cmd>> /\ \A q \in Procs \ {p} : pc'[q] = pc[q]
        /\ pc'[p] \in {"migrate", "backup", "refresh", "read", "done"} \cup {pc[p]}
    BY DEF TakeSnapshot, Migrate, SkipUnreadable, EnableNext, fsVars, Goto
  <1>3. Kept(p)'
    <2>1. CASE TakeSnapshot(p)
      <3>1. snap'[p].file = file /\ snap'[p].bak = bak /\ pc'[p] = "migrate"
        BY <2>1 DEF TakeSnapshot, Goto
      <3> QED  BY <1>2, <3>1 DEF Kept, WayInv, Saved
    <2>2. CASE ~TakeSnapshot(p)
      <3>1. UNCHANGED snap /\ pc[p] \in {"migrate", "enable"} /\ pc'[p] # "snapshot"
        BY <1>1, <1>2, <2>2 DEF Migrate, SkipUnreadable, EnableNext, Goto
      <3> QED  BY <1>1, <1>2, <3>1 DEF Kept, Inside
    <2> QED  BY <2>1, <2>2
  <1>4. Inside(p)'
    BY <1>1, <1>2, <1>3 DEF Inside, Pending
  <1> QED  BY <1>1, <1>2, <1>4, NoOther DEF WayInv

LEMMA WayFail ==
  ASSUME Typed, WayInv, NEW p \in Procs, Fail(p) \/ FailToRemove(p)
  PROVE  WayInv'
PROOF
  <1> USE DEF Typed, FileTypes, ProcTypes
  <1>1. /\ Active(p) /\ Inside(p) /\ installed /\ Standing(p)
        /\ pc[p] = "fill" => cur[p] \in Services
    BY DEF Fail, FailToRemove, Active, Ended, ControlInv, Locals, WayInv, Quiet
  <1>2. /\ UNCHANGED <<file, installed, cmd, cur, snap>>
        /\ \A q \in Procs \ {p} : pc'[q] = pc[q]
        /\ \/ bak' = IF pc[p] = "fill" THEN [bak EXCEPT ![cur[p]] = NoBackup] ELSE bak
           \/ UNCHANGED bak
    BY DEF Fail, FailToRemove, GiveUp, Goto, fsVars
  <1>3. Saved(file, bak)'
    BY <1>1, <1>2 DEF WayInv, Saved, Inside, Pending
  <1>4. CASE cmd[p].op = "setup" /\ pc[p] # "snapshot"
    <2>1. pc'[p] = "restore" /\ todo'[p] = ToRestore(p)
      BY <1>4 DEF Fail, FailToRemove, GiveUp, Goto
    <2>2. Kept(p)'
      <3>1. Kept(p)
        BY <1>1, <1>4 DEF Inside
      <3>2. \A s \in Services : snap'[p].bak[s] # NoBackup => bak'[s] # NoBackup
        BY <1>1, <1>2, <3>1 DEF Kept
      <3>3. \A s \in Services : <<"stack", s>> \in todo'[p]
        BY <2>1 DEF ToRestore
      <3> QED  BY <1>2, <2>1, <3>1, <3>2, <3>3 DEF Kept
    <2>3. Inside(p)'
      BY <1>2, <1>4, <2>1, <2>2 DEF Inside, Pending
    <2> QED  BY <1>1, <1>2, <1>3, <2>3, NoOther DEF WayInv
  <1>5. CASE ~(cmd[p].op = "setup" /\ pc[p] # "snapshot")
    <2>1. ~Active(p)'
      BY <1>5 DEF Fail, FailToRemove, GiveUp, Goto, Active, Ended
    <2> QED  BY <1>1, <1>2, <1>3, <2>1, NoOther DEF WayInv
  <1> QED  BY <1>4, <1>5

LEMMA WayRollback ==
  ASSUME Typed, WayInv, NEW p \in Procs, Restore(p) \/ Clean(p) \/ MissArtifacts(p) \/ Relist(p),
         ~RollbackIncomplete'
  PROVE  WayInv'
PROOF
  <1> USE DEF Typed, FileTypes, ProcTypes
  <1>1. /\ Active(p) /\ Inside(p) /\ installed /\ cmd[p].op = "setup" /\ Kept(p)
        /\ pc[p] \in {"restore", "clean", "relist"} /\ Locals(p) /\ snap[p] \in Snapshots
    BY DEF Restore, Clean, MissArtifacts, Relist, Active, Ended, ControlInv, Standing, Locals, WayInv,
           Quiet, Inside
  <1>2. /\ UNCHANGED <<installed, cmd, cur, snap>> /\ \A q \in Procs \ {p} : pc'[q] = pc[q]
    BY DEF Restore, Clean, MissArtifacts, Relist, Goto, fsVars
  <1>3. failed' # [failed EXCEPT ![p] = TRUE]
    BY DEF RollbackIncomplete
  <1>4. CASE Restore(p)
    <2>1. pc[p] = "restore" /\ todo[p] \subseteq ToRestore(p)
      BY <1>1, <1>4 DEF Restore, Locals
    <2>2. ASSUME NEW i \in todo[p], todo' = [todo EXCEPT ![p] = todo[p] \ {i}], UNCHANGED pc,
                 \/ i[1] = "stack" /\ file' = [file EXCEPT ![i[2]] = snap[p].file[i[2]]]
                    /\ UNCHANGED bak
                 \/ i[1] = "backup" /\ bak' = [bak EXCEPT ![i[2]] = snap[p].bak[i[2]]]
                    /\ UNCHANGED file
          PROVE  WayInv'
      <3>1. CASE i[1] = "stack"
        <4>1. PICK t \in Services : i = <<"stack", t>>
          BY <2>1, <3>1 DEF ToRestore
        <4>2. file' = [file EXCEPT ![t] = snap[p].file[t]] /\ UNCHANGED bak
          BY <2>2, <3>1, <4>1
        <4>3. Saved(file, bak)'
          BY <1>1, <4>2 DEF Kept, WayInv, Saved
        <4>4. Kept(p)'
          <5>1. \A s \in Services : snap[p].bak[s] = NoBackup =>
                  Pristine(file'[s]) \/ <<"stack", s>> \in todo'[p]
            BY <1>1, <2>1, <2>2, <4>1, <4>2 DEF Kept, Saved
          <5> QED  BY <1>1, <1>2, <2>1, <2>2, <4>2, <5>1 DEF Kept
        <4>5. Inside(p)'
          BY <1>1, <1>2, <2>1, <2>2, <4>4 DEF Inside, Pending
        <4> QED  BY <1>1, <1>2, <2>2, <4>3, <4>5, NoOther DEF WayInv
      <3>2. CASE i[1] = "backup"
        <4>1. PICK t \in Services : i = <<"backup", t>> /\ snap[p].bak[t] # NoBackup
          BY <2>1, <3>2 DEF ToRestore
        <4>2. bak' = [bak EXCEPT ![t] = snap[p].bak[t]] /\ UNCHANGED file
          BY <2>2, <3>2, <4>1
        <4>3. Saved(file, bak)'
          BY <1>1, <4>1, <4>2 DEF Kept, WayInv, Saved
        <4>4. Kept(p)'
          <5>1. \A s \in Services : <<"stack", s>> \in todo[p] => <<"stack", s>> \in todo'[p]
            BY <2>2, <4>1
          <5> QED  BY <1>1, <1>2, <2>1, <2>2, <4>1, <4>2, <5>1 DEF Kept
        <4>5. Inside(p)'
          BY <1>1, <1>2, <2>1, <2>2, <4>4 DEF Inside, Pending
        <4> QED  BY <1>1, <1>2, <2>2, <4>3, <4>5, NoOther DEF WayInv
      <3> QED  BY <2>2, <3>1, <3>2
    <2>3. ASSUME todo[p] = {}, pc' = [pc EXCEPT ![p] = "clean"],
                 todo' = [todo EXCEPT ![p] = Artifacts(p)], UNCHANGED <<file, bak>>
          PROVE  WayInv'
      <3>1. Kept(p)'
        BY <1>1, <1>2, <2>1, <2>3 DEF Kept, Artifacts
      <3>2. Inside(p)'
        BY <1>1, <1>2, <2>3, <3>1 DEF Inside, Pending
      <3> QED  BY <1>1, <1>2, <2>3, <3>2, NoOther DEF WayInv
    <2> QED  BY <1>3, <1>4, <2>2, <2>3 DEF Restore, Goto
  <1>5. CASE Clean(p)
    <2>1. pc[p] = "clean" /\ todo[p] \subseteq Services /\ UNCHANGED file
      BY <1>1, <1>5 DEF Clean, Locals
    <2>2. ASSUME NEW s \in todo[p], todo' = [todo EXCEPT ![p] = todo[p] \ {s}], UNCHANGED pc,
                 bak' = [bak EXCEPT ![s] = NoBackup]
          PROVE  WayInv'
      <3>1. snap[p].bak[s] = NoBackup /\ Pristine(file[s]) /\ s \in Services
        BY <1>1, <2>1, <2>2 DEF Kept
      <3>2. Saved(file, bak)'
        BY <2>1, <2>2, <3>1 DEF WayInv, Saved
      <3>3. Kept(p)'
        BY <1>1, <1>2, <2>1, <2>2, <3>1 DEF Kept
      <3>4. Inside(p)'
        BY <1>1, <1>2, <2>1, <2>2, <3>3 DEF Inside, Pending
      <3> QED  BY <1>1, <1>2, <2>1, <2>2, <3>2, <3>4, NoOther DEF WayInv
    <2>3. ASSUME pc' = [pc EXCEPT ![p] = "relist"], UNCHANGED <<bak, todo>>
          PROVE  WayInv'
      <3>1. Kept(p)'
        BY <1>1, <1>2, <2>1, <2>3 DEF Kept
      <3>2. Inside(p)'
        BY <1>1, <1>2, <2>1, <2>3, <3>1 DEF Inside, Pending
      <3> QED  BY <1>1, <1>2, <2>1, <2>3, <3>2, NoOther DEF WayInv
    <2> QED  BY <1>3, <1>5, <2>2, <2>3 DEF Clean, Goto
  <1>6. CASE Relist(p)
    <2>1. ~Active(p)' /\ UNCHANGED <<file, bak>>
      BY <1>6 DEF Relist, Goto, Active, Ended
    <2> QED  BY <1>1, <1>2, <2>1, NoOther DEF WayInv
  <1>7. CASE MissArtifacts(p)
    <2>1. /\ pc[p] = "clean" /\ UNCHANGED <<file, bak, pc>>
          /\ \E S \in SUBSET todo[p] : todo' = [todo EXCEPT ![p] = todo[p] \ S]
      BY <1>7 DEF MissArtifacts, fsVars
    <2>2. Kept(p)'
      BY <1>1, <1>2, <2>1 DEF Kept
    <2>3. Inside(p)'
      BY <1>1, <1>2, <2>1, <2>2 DEF Inside, Pending
    <2> QED  BY <1>1, <1>2, <2>1, <2>3, NoOther DEF WayInv, Saved
  <1> QED  BY <1>4, <1>5, <1>6, <1>7

LEMMA WayUninstall ==
  ASSUME Typed, WayInv, NEW p \in Procs, Sweep(p) \/ CopyBack(p)
  PROVE  WayInv'
PROOF
  <1> USE DEF Typed, FileTypes, ProcTypes
  <1>1. /\ Active(p) /\ Swept(p) /\ installed /\ cmd[p].op = "uninstall"
        /\ pc[p] \in {"sweep", "copyback"} /\ todo[p] \subseteq Services
    BY DEF Sweep, CopyBack, Active, Ended, ControlInv, Standing, Locals, WayInv, Quiet, Inside
  <1>2. UNCHANGED <<bak, cmd>> /\ \A q \in Procs \ {p} : pc'[q] = pc[q]
    BY DEF Sweep, CopyBack, fsVars, Goto
  <1>3. CASE Sweep(p)
    <2>1. pc[p] = "sweep" /\ UNCHANGED <<file, installed>> /\ pc'[p] \in {"lookup", "sweep", "copyback"}
      BY <1>3 DEF Sweep, fsVars, Goto
    <2>2. Swept(p)'
      <3>1. ASSUME NEW s \in todo[p], todo' = [todo EXCEPT ![p] = todo[p] \ {s}],
                   cur' = [cur EXCEPT ![p] = s],
                   \/ bak[s] # NoBackup /\ pc'[p] = "lookup"
                   \/ bak[s] = NoBackup /\ pc'[p] = "sweep"
            PROVE  Swept(p)'
        <4>1. bak[s] = NoBackup => ~Hooked(file[s])
          BY <1>1, <3>1, Untouched DEF WayInv, Saved
        <4> QED  BY <1>1, <2>1, <3>1, <4>1 DEF Swept
      <3>2. ASSUME todo[p] = {}, pc'[p] = "copyback"
            PROVE  Swept(p)'
        BY <1>1, <2>1, <3>2 DEF Swept
      <3> QED  BY <1>3, <2>1, <3>1, <3>2 DEF Sweep, Goto
    <2>3. Inside(p)'
      BY <1>1, <1>2, <2>1, <2>2 DEF Inside, Pending
    <2> QED  BY <1>1, <1>2, <2>1, <2>3, NoOther DEF WayInv
  <1>4. CASE CopyBack(p)
    <2>1. pc[p] = "copyback" /\ \A s \in Services : ~Hooked(file[s])
      BY <1>1, <1>4 DEF CopyBack, Swept
    <2>2. ASSUME NEW s \in todo[p], UNCHANGED <<pc, installed>>,
                 file' = IF bak[s] # NoBackup THEN [file EXCEPT ![s] = bak[s]] ELSE file
          PROVE  WayInv'
      <3>1. /\ Saved(file, bak)'
            /\ \A t \in Services : ~Hooked(file'[t])
        BY <1>1, <1>2, <2>1, <2>2, Untouched DEF WayInv, Saved
      <3>2. Inside(p)'
        BY <1>1, <1>2, <2>1, <2>2, <3>1 DEF Inside, Pending, Swept
      <3> QED  BY <1>1, <1>2, <2>2, <3>1, <3>2, NoOther DEF WayInv
    <2>3. ASSUME pc' = [pc EXCEPT ![p] = "done"], installed' = FALSE, UNCHANGED file
          PROVE  WayInv'
      <3>1. Quiet'
        BY <1>1, <1>2, <2>3, NoOther DEF Quiet, Active, Ended
      <3> QED  BY <1>2, <2>1, <2>3, <3>1 DEF WayInv, Quiet
    <2> QED  BY <1>4, <2>2, <2>3 DEF CopyBack, Goto
  <1> QED  BY <1>3, <1>4

LEMMA WayOther ==
  ASSUME Typed, WayInv, \/ \E p \in Procs : Crash(p)
                        \/ \E s \in Services : Edit(s)
                        \/ UNCHANGED vars
  PROVE  WayInv'
PROOF
  <1> USE DEF Typed, FileTypes, CountTypes, ProcTypes
  <1>1. ASSUME NEW p \in Procs, Crash(p) PROVE WayInv'
    <2>1. /\ Active(p) /\ ~Active(p)' /\ UNCHANGED <<file, bak, installed>>
          /\ \A q \in Procs \ {p} : pc'[q] = pc[q]
      BY <1>1 DEF Crash, Goto, Active, Ended, fsVars
    <2> QED  BY <2>1, NoOther DEF WayInv, Quiet
  <1>2. ASSUME NEW s \in Services, Edit(s) PROVE WayInv'
    <2>1. /\ file' = [file EXCEPT ![s] = [file[s] EXCEPT !.base = edits + 2]]
          /\ UNCHANGED <<bak, installed, procVars>> /\ edits + 2 \in Nat
      BY <1>2 DEF Edit
    <2>2. \A t \in Services : /\ Pristine(file'[t]) <=> Pristine(file[t])
                              /\ Hooked(file'[t]) <=> Hooked(file[t])
      BY <2>1, Untouched
    <2>3. Saved(file, bak)'
      BY <2>1, <2>2 DEF WayInv, Saved
    <2>4. ASSUME NEW p \in Procs, Active(p) PROVE Inside(p)'
      BY SMTT(30), <2>1, <2>2, <2>4 DEF WayInv, Inside, Pending, Kept, Swept, procVars, ControlInv,
         Locals
    <2> QED  BY <2>1, <2>2, <2>3, <2>4 DEF WayInv, Active, Quiet, procVars
  <1>3. CASE UNCHANGED vars
    BY <1>3 DEF vars, fsVars, procVars, WayInv, Saved, Inside, Pending, Kept, Swept, Active, Quiet
  <1> QED  BY <1>1, <1>2, <1>3

\* What a rollback has reported stays reported.
LEMMA IncompleteStays == Typed /\ [Next]_vars /\ RollbackIncomplete => RollbackIncomplete'
PROOF
  <1>1. ASSUME NEW p \in Procs, Step(p)
        PROVE  failed' = failed \/ failed' = [failed EXCEPT ![p] = TRUE]
    <2>1. CASE Restore(p) \/ Clean(p)
      BY <2>1 DEF Restore, Clean
    <2>2. CASE Fail(p) \/ FailToRemove(p) \/ MissArtifacts(p) \/ Relist(p) \/ Sweep(p)
               \/ CopyBack(p) \/ Crash(p) \/ \E m \in Commands : Start(p, m)
      BY <2>2 DEF Fail, FailToRemove, MissArtifacts, Relist, Sweep, CopyBack, Crash, Start
    <2>3. CASE ReadStack(p) \/ OpenBackup(p) \/ FillBackup(p) \/ WriteStack(p) \/ Lookup(p)
               \/ Put(p) \/ Refresh(p) \/ WriteManifest(p)
      BY <2>3 DEF ReadStack, OpenBackup, FillBackup, WriteStack, Lookup, Put, Refresh, WriteManifest
    <2>4. CASE TakeSnapshot(p) \/ Migrate(p) \/ SkipUnreadable(p) \/ EnableNext(p)
      BY <2>4 DEF TakeSnapshot, Migrate, SkipUnreadable, EnableNext
    <2> QED  BY <1>1, <2>1, <2>2, <2>3, <2>4 DEF Step
  <1>2. [Next]_vars => failed' = failed \/ \E p \in Procs : failed' = [failed EXCEPT ![p] = TRUE]
    BY <1>1 DEF Next, Edit, vars, procVars
  <1> QED  BY <1>2 DEF RollbackIncomplete, Typed, ProcTypes

LEMMA WayStep ==
  Typed /\ (RollbackIncomplete \/ WayInv) /\ [Next]_vars => RollbackIncomplete' \/ WayInv'
PROOF
  <1> SUFFICES ASSUME Typed, WayInv, [Next]_vars, ~RollbackIncomplete'
               PROVE  WayInv'
    BY IncompleteStays
  <1> QED  BY WayStart, WayEnable, WayDisable, WaySetup, WayFail, WayRollback, WayUninstall,
              WayOther DEF Next, Step

\* After the uninstaller no stack calls the module that is gone.
THEOREM UninstallUnhooks == Spec => []NoDanglingHook
PROOF
  <1>1. Init => RollbackIncomplete \/ WayInv
    BY WayInit
  <1>2. RollbackIncomplete \/ WayInv => NoDanglingHook
    BY WayImpliesNoDangling DEF NoDanglingHook
  <1> QED  BY TypedInit, TypedStep, WayStep, <1>1, <1>2, PTL DEF Spec

-----------------------------------------------------------------------------
(* What it takes to leave a backup unfilled.                                *)

Trouble == crashes > 0 \/ faults > 1

\* Without it no stack is an empty one, nor a content on its way to one, and no
\* backup but the one that is about to be filled.
FullInv ==
  /\ \A s \in Services : /\ file[s].base # 0
                         /\ \/ bak[s] = NoBackup \/ bak[s].base # 0
                            \/ \E p \in Procs : pc[p] = "fill" /\ cur[p] = s
  /\ \A p \in Procs : Active(p) =>
       /\ pc[p] \in {"backup", "fill", "write", "put"} => buf[p].base # 0
       /\ cmd[p].op = "setup" /\ pc[p] # "snapshot" =>
            \A s \in Services : /\ snap[p].file[s].base # 0
                                /\ snap[p].bak[s] = NoBackup \/ snap[p].bak[s].base # 0

LEMMA Bases ==
  /\ Empty.base = 0 /\ \A h \in BOOLEAN : Plain(1, h).base # 0
  /\ \A x \in Stacks : /\ AddStanza(x).base = x.base /\ Rewrite(x).base = x.base
                       /\ Strip(x).base = x.base
                       /\ \A n \in Nat : [x EXCEPT !.base = n].base = n
  BY DEF Empty, Plain, AddStanza, Rewrite, Strip, Stacks

\* What a step of p has to establish.
FullAt(p) ==
  /\ pc[p] \in {"backup", "fill", "write", "put"} => buf[p].base # 0
  /\ cmd[p].op = "setup" /\ pc[p] # "snapshot" =>
       \A s \in Services : /\ snap[p].file[s].base # 0
                           /\ snap[p].bak[s] = NoBackup \/ snap[p].bak[s].base # 0

LEMMA FullFrom ==
  ASSUME Typed, NEW p \in Procs, Active(p) \/ Quiet, \A q \in Procs \ {p} : pc'[q] = pc[q],
         \A s \in Services : /\ file'[s].base # 0
                             /\ \/ bak'[s] = NoBackup \/ bak'[s].base # 0
                                \/ pc'[p] = "fill" /\ cur'[p] = s,
         Active(p)' => FullAt(p)'
  PROVE  FullInv'
  BY NoOther DEF FullInv, FullAt

\* Outside of the step that fills it every backup is full.
LEMMA FullBackups ==
  ASSUME Typed, FullInv, NEW p \in Procs, Active(p) \/ Quiet
  PROVE  \A s \in Services : \/ bak[s] = NoBackup \/ bak[s].base # 0
                             \/ pc[p] = "fill" /\ cur[p] = s
  BY DEF Typed, ControlInv, FullInv, Active, Quiet, Ended

LEMMA FullEnable ==
  ASSUME Typed, FullInv, NEW p \in Procs,
         ReadStack(p) \/ OpenBackup(p) \/ FillBackup(p) \/ WriteStack(p)
  PROVE  FullInv'
PROOF
  <1> USE DEF Typed, FileTypes, ProcTypes
  <1>1. /\ Active(p) /\ Standing(p) /\ cur[p] \in Services /\ FullAt(p)
        /\ UNCHANGED <<cmd, ret, cur, snap>> /\ \A q \in Procs \ {p} : pc'[q] = pc[q]
    BY DEF ReadStack, OpenBackup, FillBackup, WriteStack, Active, Ended, ControlInv, Locals,
           FullInv, FullAt, Return, Goto
  <1>2. \A s \in Services : file[s].base # 0
    BY DEF FullInv
  <1>3. \A s \in Services : bak[s] = NoBackup \/ bak[s].base # 0 \/ (pc[p] = "fill" /\ cur[p] = s)
    BY <1>1, FullBackups
  <1>4. CASE ReadStack(p)
    <2>1. UNCHANGED <<file, bak>> /\ pc[p] = "read"
      BY <1>4 DEF ReadStack, fsVars
    <2>2. pc'[p] = ret[p] \/ (pc'[p] = "backup" /\ buf'[p] = AddStanza(file[cur[p]]))
      BY <1>4 DEF ReadStack, Return, Goto
    <2>3. FullAt(p)'
      <3>1. CASE pc'[p] = ret[p]
        BY <1>1, <2>1, <3>1 DEF FullAt, Standing
      <3>2. CASE pc'[p] = "backup" /\ buf'[p] = AddStanza(file[cur[p]])
        <4>1. buf'[p].base # 0
          <5>1. AddStanza(file[cur[p]]).base = file[cur[p]].base
            BY <1>1, Bases
          <5> QED  BY <1>1, <1>2, <3>2, <5>1
        <4> QED  BY <1>1, <2>1, <3>2, <4>1 DEF FullAt
      <3> QED  BY <2>2, <3>1, <3>2
    <2> QED  BY <1>1, <1>2, <1>3, <2>1, <2>3, FullFrom
  <1>5. CASE OpenBackup(p)
    <2>1. /\ UNCHANGED <<file, buf>> /\ pc[p] = "backup"
          /\ \/ pc'[p] = "fill" /\ bak' = [bak EXCEPT ![cur[p]] = Empty]
             \/ pc'[p] = "write" /\ UNCHANGED bak
      BY <1>5 DEF OpenBackup, Goto
    <2>2. FullAt(p)'
      BY <1>1, <2>1 DEF FullAt
    <2> QED  BY <1>1, <1>2, <1>3, <2>1, <2>2, FullFrom
  <1>6. CASE FillBackup(p)
    <2>1. /\ UNCHANGED <<file, buf>> /\ pc[p] = "fill" /\ pc'[p] = "write"
          /\ bak' = [bak EXCEPT ![cur[p]] = file[cur[p]]]
      BY <1>6 DEF FillBackup, Goto
    <2>2. FullAt(p)'
      BY <1>1, <2>1 DEF FullAt
    <2> QED  BY <1>1, <1>2, <1>3, <2>1, <2>2, FullFrom
  <1>7. CASE WriteStack(p)
    <2>1. /\ UNCHANGED bak /\ pc[p] = "write" /\ pc'[p] = ret[p]
          /\ file' = [file EXCEPT ![cur[p]] = buf[p]]
      BY <1>7 DEF WriteStack, Return, Goto
    <2>2. FullAt(p)'
      BY <1>1, <2>1 DEF FullAt, Standing
    <2>3. \A s \in Services : file'[s].base # 0
      BY <1>1, <1>2, <2>1 DEF FullAt
    <2> QED  BY <1>1, <1>3, <2>1, <2>2, <2>3, FullFrom
  <1> QED  BY <1>4, <1>5, <1>6, <1>7

LEMMA FullDisable ==
  ASSUME Typed, FullInv, NEW p \in Procs,
         \/ Lookup(p) \/ Put(p) \/ Refresh(p) \/ WriteManifest(p)
         \/ Sweep(p) \/ CopyBack(p)
  PROVE  FullInv'
PROOF
  <1> USE DEF Typed, FileTypes, ProcTypes
  <1>1. /\ Active(p) /\ Standing(p) /\ FullAt(p) /\ Locals(p)
        /\ UNCHANGED <<bak, cmd, ret, snap>> /\ \A q \in Procs \ {p} : pc'[q] = pc[q]
        /\ pc[p] \in {"lookup", "put", "refresh", "list", "sweep", "copyback"}
    BY DEF Lookup, Put, Refresh, WriteManifest, Sweep, CopyBack, Active, Ended, ControlInv,
           FullInv, FullAt, Return, Goto, fsVars
  <1>2. \A s \in Services : bak[s] = NoBackup \/ bak[s].base # 0
    BY <1>1, FullBackups
  <1>3. \A s \in Services : file[s].base # 0
    BY DEF FullInv
  <1>4. \A s \in Services : file'[s].base # 0
    BY <1>1, <1>2, <1>3 DEF Lookup, Put, Refresh, WriteManifest, Sweep, CopyBack, FullAt, Locals,
       fsVars
  <1>5. FullAt(p)'
    <2>1. CASE Lookup(p)
      <3>1. pc'[p] = "put" /\ buf'[p] = WayBack(cur[p]) /\ cur[p] \in Services
        BY <1>1, <2>1 DEF Lookup, Goto, Locals
      <3>2. WayBack(cur[p]).base # 0
        BY SMTT(30), <1>2, <1>3, <3>1, Bases DEF WayBack
      <3> QED  BY <1>1, <3>1, <3>2 DEF FullAt, Standing, Lookup
    <2>2. CASE ~Lookup(p)
      <3>1. pc'[p] \in {"refresh", "list", "done", "enable", "migrate", "sweep", "lookup", "copyback"}
        BY <1>1, <2>2 DEF Put, Refresh, WriteManifest, Sweep, CopyBack, Goto, Return, AfterPut,
           Standing
      <3> QED  BY <1>1, <3>1 DEF FullAt
    <2> QED  BY <2>1, <2>2
  <1> QED  BY <1>1, <1>2, <1>4, <1>5, FullFrom

LEMMA FullSetup ==
  ASSUME Typed, FullInv, NEW p \in Procs,
         TakeSnapshot(p) \/ Migrate(p) \/ SkipUnreadable(p) \/ EnableNext(p)
  PROVE  FullInv'
PROOF
  <1> USE DEF Typed, FileTypes, ProcTypes
  <1>1. /\ Active(p) /\ Locals(p) /\ FullAt(p) /\ cmd[p].op = "setup"
        /\ pc[p] \in {"snapshot", "migrate", "enable"}
        /\ UNCHANGED <<file, bak, cmd>> /\ \A q \in Procs \ {p} : pc'[q] = pc[q]
    BY DEF TakeSnapshot, Migrate, SkipUnreadable, EnableNext, Active, Ended, ControlInv,
           FullInv, FullAt, Standing, fsVars, Goto
  <1>2. \A s \in Services : (bak[s] = NoBackup \/ bak[s].base # 0) /\ file[s].base # 0
    BY <1>1, FullBackups DEF FullInv
  <1>3. FullAt(p)'
    <2>1. CASE TakeSnapshot(p)
      <3>1. /\ pc'[p] = "migrate"
            /\ snap'[p] = [file |-> file, bak |-> bak, manifest |-> manifest]
        BY <2>1 DEF TakeSnapshot, Goto
      <3> QED  BY <1>1, <1>2, <3>1 DEF FullAt
    <2>2. CASE Migrate(p)
      <3>1. pc[p] = "migrate" /\ todo[p] \subseteq Services /\ UNCHANGED snap
        BY <1>1, <2>2 DEF Migrate, Locals
      <3>2. \/ pc'[p] \in {"migrate", "refresh"}
            \/ \E s \in todo[p] : pc'[p] = "backup" /\ buf'[p] = Rewrite(file[s])
        BY <2>2 DEF Migrate, Goto
      <3> QED  BY SMTT(30), <1>1, <1>2, <3>1, <3>2, Bases DEF FullAt
    <2>3. CASE SkipUnreadable(p) \/ EnableNext(p)
      <3>1. /\ pc[p] \in {"migrate", "enable"} /\ UNCHANGED snap
            /\ pc'[p] \in {"migrate", "read", "done"}
        BY <2>3 DEF SkipUnreadable, EnableNext, Goto
      <3> QED  BY <1>1, <3>1 DEF FullAt
    <2> QED  BY <2>1, <2>2, <2>3
  <1> QED  BY <1>1, <1>2, <1>3, FullFrom

LEMMA FullRollback ==
  ASSUME Typed, FullInv, NEW p \in Procs,
         \/ Fail(p) \/ Restore(p) \/ Clean(p) \/ MissArtifacts(p) \/ Relist(p)
  PROVE  FullInv'
PROOF
  <1> USE DEF Typed, FileTypes, ProcTypes
  <1>1. /\ Active(p) /\ Locals(p) /\ FullAt(p)
        /\ UNCHANGED <<cmd, cur, snap>> /\ \A q \in Procs \ {p} : pc'[q] = pc[q]
        /\ ~Fail(p) => cmd[p].op = "setup" /\ pc[p] # "snapshot" /\ pc[p] # "fill"
    BY DEF Fail, GiveUp, Restore, Clean, MissArtifacts, Relist, Active, Ended, ControlInv,
           FullInv, FullAt, Standing, fsVars, Goto
  <1>2. \A s \in Services : bak[s] = NoBackup \/ bak[s].base # 0 \/ (pc[p] = "fill" /\ cur[p] = s)
    BY <1>1, FullBackups
  <1>3. \A s \in Services : file[s].base # 0
    BY DEF FullInv
  <1>4. Active(p)' => FullAt(p)'
    <2>1. pc'[p] \in {"restore", "clean", "relist", "rolled", "error"}
      BY <1>1 DEF Fail, GiveUp, Restore, Clean, MissArtifacts, Relist, Goto
    <2>2. pc'[p] = "restore" => cmd[p].op = "setup" /\ pc[p] # "snapshot"
      BY <1>1 DEF Fail, GiveUp, Goto
    <2>3. Fail(p) /\ ~(cmd[p].op = "setup" /\ pc[p] # "snapshot") => pc'[p] = "error"
      BY DEF Fail, GiveUp, Goto
    <2>4. CASE cmd[p].op = "setup" /\ pc[p] # "snapshot"
      BY <1>1, <2>1, <2>4 DEF FullAt
    <2>5. CASE ~(cmd[p].op = "setup" /\ pc[p] # "snapshot")
      <3>1. pc'[p] = "error" \/ cmd[p].op # "setup"
        BY <1>1, <2>3, <2>5
      <3> QED  BY <1>1, <2>1, <2>5, <3>1 DEF FullAt, Active, Ended
    <2> QED  BY <2>4, <2>5
  <1>5. CASE Fail(p)
    <2>1. UNCHANGED file /\ bak' = IF pc[p] = "fill" THEN [bak EXCEPT ![cur[p]] = NoBackup] ELSE bak
      BY <1>5 DEF Fail
    <2> QED  BY <1>1, <1>2, <1>3, <1>4, <2>1, FullFrom
  <1>6. CASE Restore(p)
    <2>1. /\ \/ UNCHANGED file
             \/ \E s \in Services : file' = [file EXCEPT ![s] = snap[p].file[s]]
          /\ \/ UNCHANGED bak
             \/ \E s \in Services : bak' = [bak EXCEPT ![s] = snap[p].bak[s]]
      <3>1. pc[p] = "restore" /\ \A i \in todo[p] : i[2] \in Services
        BY <1>1, <1>6 DEF Restore, Locals, ToRestore
      <3>2. CASE todo[p] = {} /\ UNCHANGED <<file, bak>>
        BY <3>2
      <3>3. ASSUME NEW i \in todo[p],
                   \/ UNCHANGED <<file, bak>>
                   \/ file' = [file EXCEPT ![i[2]] = snap[p].file[i[2]]] /\ UNCHANGED bak
                   \/ bak' = [bak EXCEPT ![i[2]] = snap[p].bak[i[2]]] /\ UNCHANGED file
            PROVE  /\ \/ UNCHANGED file
                      \/ \E s \in Services : file' = [file EXCEPT ![s] = snap[p].file[s]]
                   /\ \/ UNCHANGED bak
                      \/ \E s \in Services : bak' = [bak EXCEPT ![s] = snap[p].bak[s]]
        BY <3>1, <3>3
      <3> QED  BY <1>6, <3>2, <3>3 DEF Restore
    <2>2. cmd[p].op = "setup" /\ pc[p] = "restore"
      BY <1>6 DEF Restore, ControlInv, Standing, Active, Ended
    <2>3. \A s \in Services : file'[s].base # 0 /\ (bak'[s] = NoBackup \/ bak'[s].base # 0)
      <3>1. \A s \in Services : /\ snap[p].file[s].base # 0
                                /\ snap[p].bak[s] = NoBackup \/ snap[p].bak[s].base # 0
        BY <1>1, <2>2 DEF FullAt
      <3>2. \A s \in Services : file'[s].base # 0
        BY <1>3, <2>1, <3>1
      <3>3. \A s \in Services : bak'[s] = NoBackup \/ bak'[s].base # 0
        BY <1>2, <2>1, <2>2, <3>1
      <3> QED  BY <3>2, <3>3
    <2> QED  BY <1>1, <1>4, <2>3, FullFrom
  <1>7. CASE Clean(p) \/ MissArtifacts(p) \/ Relist(p)
    <2>1. /\ UNCHANGED file /\ (UNCHANGED bak \/ \E s : bak' = [bak EXCEPT ![s] = NoBackup])
          /\ pc[p] # "fill"
      BY <1>7 DEF Clean, MissArtifacts, Relist, fsVars
    <2> QED  BY <1>1, <1>2, <1>3, <1>4, <2>1, FullFrom
  <1> QED  BY <1>5, <1>6, <1>7

LEMMA FullStep ==
  ASSUME Typed, FullInv, [Next]_vars, ~Trouble'
  PROVE  FullInv'
PROOF
  <1> USE DEF Typed, FileTypes, ProcTypes, CountTypes
  <1>1. ASSUME NEW p \in Procs, NEW m \in Commands, Start(p, m) PROVE FullInv'
    <2>1. /\ UNCHANGED <<file, bak, buf, snap>> /\ Quiet /\ pc[p] = "ready" /\ cmd'[p] = m
      BY <1>1 DEF Start, fsVars
    <2>2. /\ \E l \in {"read", "lookup", "snapshot", "sweep"} : pc' = [pc EXCEPT ![p] = l]
          /\ m.op = "setup" => pc' = [pc EXCEPT ![p] = "snapshot"]
      <3>1. m.op \in Ops
        BY PamFilesAssumption
      <3>2. CASE m.op \in {"enable", "disable"}
        BY <1>1, <3>2 DEF Start, Goto
      <3>3. CASE m.op = "setup"
        BY <1>1, <3>3 DEF Start, Goto
      <3>4. CASE m.op = "uninstall"
        BY <1>1, <3>4 DEF Start, Goto
      <3> QED  BY <3>1, <3>2, <3>3, <3>4 DEF Ops
    <2>3. FullAt(p)'
      BY <2>1, <2>2 DEF FullAt
    <2>4. \A s \in Services : file[s].base # 0 /\ (bak[s] = NoBackup \/ bak[s].base # 0)
      BY <2>1, FullBackups DEF FullInv
    <2> QED  BY <2>1, <2>2, <2>3, <2>4, FullFrom
  <1>2. ASSUME NEW p \in Procs, FailToRemove(p) PROVE FALSE
    BY <1>2 DEF FailToRemove, Trouble
  <1>3. ASSUME NEW p \in Procs, Crash(p) PROVE FALSE
    BY <1>3 DEF Crash, Trouble
  <1>4. ASSUME NEW s \in Services, Edit(s) PROVE FullInv'
    <2>1. /\ file' = [file EXCEPT ![s] = [file[s] EXCEPT !.base = edits + 2]]
          /\ UNCHANGED <<bak, procVars>> /\ edits + 2 \in Nat /\ edits + 2 # 0
      BY <1>4 DEF Edit
    <2>2. \A t \in Services : file'[t].base # 0
      BY <2>1, Bases DEF FullInv
    <2> QED  BY <2>1, <2>2 DEF FullInv, Active, procVars
  <1>5. CASE UNCHANGED vars
    BY <1>5 DEF vars, fsVars, procVars, FullInv, Active
  <1> QED  BY <1>1, <1>2, <1>3, <1>4, <1>5, FullEnable, FullDisable, FullSetup, FullRollback
           DEF Next, Step

LEMMA TroubleStays == Typed /\ [Next]_vars /\ Trouble => Trouble'
PROOF
  <1>1. ASSUME NEW p \in Procs, Step(p)
        PROVE  faults' \in {faults, faults + 1, faults + 2} /\ crashes' \in {crashes, crashes + 1}
    <2>1. CASE Restore(p) \/ Clean(p) \/ MissArtifacts(p) \/ Relist(p) \/ Fail(p) \/ FailToRemove(p)
      BY <2>1 DEF Restore, Clean, MissArtifacts, Relist, Fail, FailToRemove, PassOver
    <2>2. CASE Sweep(p) \/ CopyBack(p) \/ Crash(p) \/ \E m \in Commands : Start(p, m)
      BY <2>2 DEF Sweep, CopyBack, Crash, Start, countVars
    <2>3. CASE ReadStack(p) \/ OpenBackup(p) \/ FillBackup(p) \/ WriteStack(p) \/ Lookup(p)
               \/ Put(p) \/ Refresh(p) \/ WriteManifest(p)
      BY <2>3 DEF ReadStack, OpenBackup, FillBackup, WriteStack, Lookup, Put, Refresh,
         WriteManifest, PassOver, countVars
    <2>4. CASE TakeSnapshot(p) \/ Migrate(p) \/ SkipUnreadable(p) \/ EnableNext(p)
      BY <2>4 DEF TakeSnapshot, Migrate, SkipUnreadable, EnableNext, PassOver, countVars
    <2> QED  BY <1>1, <2>1, <2>2, <2>3, <2>4 DEF Step
  <1>2. [Next]_vars => /\ faults' \in {faults, faults + 1, faults + 2}
                       /\ crashes' \in {crashes, crashes + 1}
    BY <1>1 DEF Next, Edit, vars, countVars
  <1> QED  BY <1>2 DEF Trouble, Typed, CountTypes

\* At every moment, whatever fails, is killed or is edited, and until a rollback
\* reported that it was incomplete, a stack that was touched has a backup of an
\* untouched one, or one left unfilled by a kill or by a second error:
\* create_backup_once before each write of pam_enable and of the migration, and
\* the order of restore_pam_state.
THEOREM AlwaysAWayBack == Spec => []BackupBeforeChange
PROOF
  <1>1. Init => (RollbackIncomplete \/ WayInv) /\ (Trouble \/ FullInv)
    BY WayInit, Bases DEF Init, FullInv, Active
  <1>2. Typed /\ (Trouble \/ FullInv) /\ [Next]_vars => Trouble' \/ FullInv'
    BY FullStep, TroubleStays
  <1>3. Typed /\ (RollbackIncomplete \/ WayInv) /\ (Trouble \/ FullInv) => BackupBeforeChange
    <2> SUFFICES ASSUME Typed, WayInv, Trouble \/ FullInv, NEW s \in Services, ~Pristine(file[s])
                 PROVE  bak[s] # NoBackup /\ Pristine(bak[s]) /\ (Torn(s) => Trouble)
      BY DEF BackupBeforeChange, Trouble
    <2>1. bak[s] # NoBackup /\ Pristine(bak[s])
      BY DEF WayInv, Saved
    <2>2. ASSUME Torn(s), FullInv PROVE FALSE
      <3>1. PICK p \in Procs : pc[p] = "fill" /\ cur[p] = s
        BY <2>1, <2>2, Bases DEF Torn, FullInv
      <3>2. Active(p)
        BY <3>1 DEF Active, Ended
      <3> QED  BY <3>1, <3>2 DEF WayInv, Inside, Pending
    <2> QED  BY <2>1, <2>2
  <1> QED  BY TypedInit, TypedStep, WayStep, <1>1, <1>2, <1>3, PTL DEF Spec

-----------------------------------------------------------------------------
(* What a rollback restores.                                                *)

Rolling(p) == pc[p] \in {"restore", "clean", "relist"}

\* An edit meanwhile leaves IRAuth's own lines.
Agrees(x, y) == (x.marked <=> y.marked) /\ (edits = 0 => x = y)

\* What has not been put back yet is still to be put back or to be removed, or is
\* a new backup that was passed over.
Restored(p) ==
  \A s \in Services :
    /\ \/ Agrees(file[s], snap[p].file[s])
       \/ pc[p] = "restore" /\ <<"stack", s>> \in todo[p]
    /\ \/ bak[s] = snap[p].bak[s]
       \/ pc[p] = "restore" /\ (snap[p].bak[s] = NoBackup \/ <<"backup", s>> \in todo[p])
       \/ pc[p] = "clean" /\ s \in todo[p]
       \/ snap[p].bak[s] = NoBackup /\ <<"clean", s>> \in passed[p]
    /\ pc[p] = "clean" /\ s \in todo[p] => snap[p].bak[s] = NoBackup

RestoreInv == \A p \in Procs : Rolling(p) /\ ~failed[p] => Restored(p)

\* Only the step of a failing or rolling command matters: any other ends or goes
\* on outside the rollback.
LEMMA RestoreOther ==
  ASSUME Typed, NEW p \in Procs, Active(p) \/ Quiet, pc'[p] \notin {"restore", "clean", "relist"},
         \A q \in Procs \ {p} : pc'[q] = pc[q]
  PROVE  RestoreInv'
PROOF
  <1>1. \A q \in Procs : Active(q)' => q = p
    BY NoOther
  <1> QED  BY <1>1 DEF RestoreInv, Rolling, Active, Ended

LEMMA RestoreFail ==
  ASSUME Typed, NEW p \in Procs, Fail(p) \/ FailToRemove(p)
  PROVE  RestoreInv'
PROOF
  <1> USE DEF Typed, FileTypes, ProcTypes
  <1>1. Active(p) /\ \A q \in Procs \ {p} : pc'[q] = pc[q]
    BY DEF Fail, FailToRemove, GiveUp, Active, Ended, Goto
  <1>2. CASE cmd[p].op = "setup" /\ pc[p] # "snapshot"
    <2>1. pc'[p] = "restore" /\ todo'[p] = ToRestore(p) /\ UNCHANGED snap
      BY <1>2 DEF Fail, FailToRemove, GiveUp, Goto
    <2>2. Restored(p)'
      BY <2>1 DEF Restored, ToRestore
    <2> QED  BY <1>1, <2>2, NoOther DEF RestoreInv, Rolling, Active, Ended
  <1>3. CASE ~(cmd[p].op = "setup" /\ pc[p] # "snapshot")
    <2>1. pc'[p] = "error"
      BY <1>3 DEF Fail, FailToRemove, GiveUp, Goto
    <2> QED  BY <1>1, <2>1, RestoreOther
  <1> QED  BY <1>2, <1>3

LEMMA RestoreRollback ==
  ASSUME Typed, RestoreInv, NEW p \in Procs, Restore(p) \/ Clean(p) \/ MissArtifacts(p) \/ Relist(p)
  PROVE  RestoreInv'
PROOF
  <1> USE DEF Typed, FileTypes, ProcTypes
  <1>1. /\ Active(p) /\ Rolling(p) /\ Locals(p) /\ snap[p] \in Snapshots
    BY DEF Restore, Clean, MissArtifacts, Relist, Active, Ended, ControlInv, Standing, Locals, Rolling
  <1>2. UNCHANGED snap /\ \A q \in Procs \ {p} : pc'[q] = pc[q]
    BY DEF Restore, Clean, MissArtifacts, Relist, Goto
  <1>9. edits' = edits
    BY DEF Restore, Clean, MissArtifacts, Relist
  <1>3. SUFFICES ASSUME Rolling(p)', ~failed'[p] PROVE Restored(p)'
    BY <1>1, <1>2, NoOther DEF RestoreInv, Rolling, Active, Ended
  <1>4. failed' # [failed EXCEPT ![p] = TRUE]
    BY <1>3
  <1>5. Restored(p)
    <2>1. failed' = failed
      BY <1>4 DEF Restore, Clean, MissArtifacts, Relist
    <2> QED  BY <1>1, <1>3, <2>1 DEF RestoreInv
  <1>6. CASE Restore(p)
    <2>1. pc[p] = "restore" /\ todo[p] \subseteq ToRestore(p) /\ UNCHANGED passed
      BY <1>1, <1>6 DEF Restore, Locals
    <2>2. ASSUME NEW t \in Services, todo' = [todo EXCEPT ![p] = todo[p] \ {<<"stack", t>>}],
                 UNCHANGED <<pc, bak>>, file' = [file EXCEPT ![t] = snap[p].file[t]]
          PROVE  Restored(p)'
      BY <1>2, <1>5, <1>9, <2>1, <2>2 DEF Restored, Agrees
    <2>3. ASSUME NEW t \in Services, todo' = [todo EXCEPT ![p] = todo[p] \ {<<"backup", t>>}],
                 UNCHANGED <<pc, file>>, bak' = [bak EXCEPT ![t] = snap[p].bak[t]]
          PROVE  Restored(p)'
      BY <1>2, <1>5, <1>9, <2>1, <2>3 DEF Restored, Agrees
    <2>4. ASSUME todo[p] = {}, pc' = [pc EXCEPT ![p] = "clean"],
                 todo' = [todo EXCEPT ![p] = Artifacts(p)], UNCHANGED <<file, bak>>
          PROVE  Restored(p)'
      BY <1>2, <1>5, <1>9, <2>1, <2>4 DEF Restored, Agrees, Artifacts, BackedUp
    <2>5. ASSUME NEW i \in todo[p] PROVE \E t \in Services : i \in {<<"stack", t>>, <<"backup", t>>}
      BY <2>1 DEF ToRestore
    <2>6. ASSUME NEW i \in todo[p], todo' = [todo EXCEPT ![p] = todo[p] \ {i}], UNCHANGED pc,
                 \/ i[1] = "stack" /\ file' = [file EXCEPT ![i[2]] = snap[p].file[i[2]]]
                    /\ UNCHANGED bak
                 \/ i[1] = "backup" /\ bak' = [bak EXCEPT ![i[2]] = snap[p].bak[i[2]]]
                    /\ UNCHANGED file
          PROVE  Restored(p)'
      <3>1. CASE i[1] = "stack"
        BY SMTT(30), <2>2, <2>5, <2>6, <3>1
      <3>2. CASE i[1] = "backup"
        BY <2>3, <2>5, <2>6, <3>2
      <3> QED  BY <2>6, <3>1, <3>2
    <2> QED  BY <1>4, <1>6, <2>4, <2>6 DEF Restore, Goto
  <1>7. CASE Clean(p)
    <2>1. pc[p] = "clean" /\ UNCHANGED <<file, passed>>
      BY <1>7 DEF Clean
    <2>2. ASSUME NEW s \in todo[p], todo' = [todo EXCEPT ![p] = todo[p] \ {s}], UNCHANGED pc,
                 bak' = [bak EXCEPT ![s] = NoBackup]
          PROVE  Restored(p)'
      BY <1>2, <1>5, <1>9, <2>1, <2>2 DEF Restored, Agrees
    <2>3. ASSUME todo[p] = {}, pc' = [pc EXCEPT ![p] = "relist"], UNCHANGED <<bak, todo>>
          PROVE  Restored(p)'
      BY <1>2, <1>5, <1>9, <2>1, <2>3 DEF Restored, Agrees
    <2> QED  BY <1>4, <1>7, <2>2, <2>3 DEF Clean, Goto
  <1>8. CASE Relist(p)
    BY <1>3, <1>8 DEF Relist, Goto, Rolling
  <1>11. CASE MissArtifacts(p)
    <2>1. pc[p] = "clean" /\ UNCHANGED <<file, bak, pc>> /\ pc[p] \in Passing
          /\ todo[p] \subseteq Services
      BY <1>1, <1>11 DEF MissArtifacts, Locals, Passing, fsVars
    <2>2. PICK S \in SUBSET todo[p] : todo' = [todo EXCEPT ![p] = todo[p] \ S] /\ PassOver(p, S)
      BY <1>11 DEF MissArtifacts
    <2>3. /\ \A s \in S : <<"clean", s>> \in passed'[p]
          /\ passed[p] \subseteq passed'[p]
      BY <2>1, <2>2, PassingOver
    <2> QED  BY <1>2, <1>5, <1>9, <2>1, <2>2, <2>3 DEF Restored, Agrees
  <1> QED  BY <1>6, <1>7, <1>8, <1>11

LEMMA RestoreStep ==
  ASSUME Typed, RestoreInv, [Next]_vars
  PROVE  RestoreInv'
PROOF
  <1> USE DEF Typed, FileTypes, ProcTypes, CountTypes
  <1>1. ASSUME NEW p \in Procs, NEW m \in Commands, Start(p, m) PROVE RestoreInv'
    <2>1. \E l \in {"read", "lookup", "snapshot", "sweep"} : pc' = [pc EXCEPT ![p] = l]
      <3>1. m.op \in Ops
        BY PamFilesAssumption
      <3>2. CASE m.op \in {"enable", "disable"}
        BY <1>1, <3>2 DEF Start, Goto
      <3>3. CASE m.op = "setup"
        BY <1>1, <3>3 DEF Start, Goto
      <3>4. CASE m.op = "uninstall"
        BY <1>1, <3>4 DEF Start, Goto
      <3> QED  BY <3>1, <3>2, <3>3, <3>4 DEF Ops
    <2>2. Quiet
      BY <1>1 DEF Start
    <2> QED  BY <2>1, <2>2, RestoreOther
  <1>2. ASSUME NEW p \in Procs,
               \/ ReadStack(p) \/ OpenBackup(p) \/ FillBackup(p) \/ WriteStack(p)
               \/ Lookup(p) \/ Put(p) \/ Refresh(p) \/ WriteManifest(p)
               \/ TakeSnapshot(p) \/ Migrate(p) \/ SkipUnreadable(p) \/ EnableNext(p)
               \/ Sweep(p) \/ CopyBack(p) \/ Crash(p)
        PROVE  RestoreInv'
    <2>1. Active(p) /\ (Crash(p) \/ ~Rolling(p)) /\ ret[p] \notin {"restore", "clean", "relist"}
      BY <1>2 DEF ReadStack, OpenBackup, FillBackup, WriteStack, Lookup, Put, Refresh,
             WriteManifest, TakeSnapshot, Migrate, SkipUnreadable, EnableNext, Sweep, CopyBack,
             Crash, Active, Ended, Rolling
    <2>2. \E l \in (Steps \ {"restore", "clean", "relist"}) : pc' = [pc EXCEPT ![p] = l]
      BY <1>2, <2>1 DEF ReadStack, OpenBackup, FillBackup, WriteStack, Lookup, Put, Refresh,
             WriteManifest, TakeSnapshot, Migrate, SkipUnreadable, EnableNext, Sweep, CopyBack,
             Crash, Goto, Return, AfterPut, Steps, Ended, Rolling
    <2> QED  BY <2>1, <2>2, RestoreOther
  <1>3. ASSUME NEW p \in Procs,
               \/ Fail(p) \/ FailToRemove(p)
               \/ Restore(p) \/ Clean(p) \/ MissArtifacts(p) \/ Relist(p)
        PROVE  RestoreInv'
    BY <1>3, RestoreFail, RestoreRollback
  <1>4. ASSUME NEW s \in Services, Edit(s) PROVE RestoreInv'
    <2>1. /\ file' = [file EXCEPT ![s] = [file[s] EXCEPT !.base = edits + 2]]
          /\ UNCHANGED <<bak, procVars>> /\ edits' # 0
      BY <1>4 DEF Edit
    <2>2. \A t \in Services : file'[t].marked <=> file[t].marked
      BY <2>1 DEF Stacks
    <2> QED  BY ZenonT(60), <2>1, <2>2 DEF RestoreInv, Rolling, Restored, Agrees, procVars
  <1>5. CASE UNCHANGED vars
    BY ZenonT(60), <1>5 DEF vars, fsVars, procVars, countVars, RestoreInv, Rolling, Restored, Agrees
  <1> QED  BY <1>1, <1>2, <1>3, <1>4, <1>5 DEF Next, Step

\* The step that ends a rollback without error.
LEMMA RolledStep ==
  ASSUME Typed, RestoreInv, [Next]_vars, NEW p \in Procs, pc[p] # "rolled", pc'[p] = "rolled"
  PROVE  /\ manifest' = snap[p].manifest /\ (edits = 0 => file' = snap[p].file)
         /\ \A s \in Services : bak'[s] # snap[p].bak[s] =>
              snap[p].bak[s] = NoBackup /\ <<"clean", s>> \in passed[p]
PROOF
  <1> USE DEF Typed, FileTypes, ProcTypes
  <1>1. Relist(p)
    <2>1. ASSUME NEW q \in Procs, Step(q) PROVE Relist(p)
      <3>1. ASSUME NEW m \in Commands, Start(q, m) PROVE FALSE
        <4>1. m.op \in Ops
          BY PamFilesAssumption
        <4>2. CASE m.op \in {"enable", "disable"}
          BY <3>1, <4>2 DEF Start, Goto
        <4>3. CASE m.op = "setup"
          BY <3>1, <4>3 DEF Start, Goto
        <4>4. CASE m.op = "uninstall"
          BY <3>1, <4>4 DEF Start, Goto
        <4> QED  BY <4>1, <4>2, <4>3, <4>4 DEF Ops
      <3>2. ~(ReadStack(q) \/ OpenBackup(q) \/ FillBackup(q) \/ WriteStack(q))
        BY DEF ReadStack, OpenBackup, FillBackup, WriteStack, Goto, Return
      <3>3. ~(Lookup(q) \/ Put(q) \/ Refresh(q) \/ WriteManifest(q) \/ Sweep(q) \/ CopyBack(q))
        BY DEF Lookup, Put, Refresh, WriteManifest, Sweep, CopyBack, Goto, Return, AfterPut
      <3>4. ~(TakeSnapshot(q) \/ Migrate(q) \/ SkipUnreadable(q) \/ EnableNext(q))
        BY DEF TakeSnapshot, Migrate, SkipUnreadable, EnableNext, Goto
      <3>5. ~(Fail(q) \/ FailToRemove(q) \/ Crash(q))
        BY DEF Fail, FailToRemove, GiveUp, Crash, Goto
      <3>7. ~(Restore(q) \/ Clean(q) \/ MissArtifacts(q))
        BY DEF Restore, Clean, MissArtifacts, Goto
      <3>6. Relist(q) => q = p
        BY DEF Relist, Goto
      <3> QED  BY <2>1, <3>1, <3>2, <3>3, <3>4, <3>5, <3>6, <3>7 DEF Step
    <2>2. (\A s \in Services : ~Edit(s)) /\ ~UNCHANGED vars
      BY DEF Edit, vars, procVars
    <2> QED  BY <2>1, <2>2 DEF Next
  <1>2. /\ manifest' = snap[p].manifest /\ UNCHANGED <<file, bak>> /\ ~failed[p]
        /\ pc[p] = "relist"
    BY <1>1 DEF Relist, RestoredManifest, Goto
  <1>3. snap[p] \in Snapshots
    BY <1>2 DEF ControlInv, Active, Ended, Standing, Locals
  <1>4. \A s \in Services :
          /\ Agrees(file[s], snap[p].file[s])
          /\ \/ bak[s] = snap[p].bak[s]
             \/ snap[p].bak[s] = NoBackup /\ <<"clean", s>> \in passed[p]
    BY <1>2 DEF RestoreInv, Rolling, Restored
  <1>5. edits = 0 => file = snap[p].file
    <2>1. edits = 0 => \A s \in Services : file[s] = snap[p].file[s]
      BY <1>4 DEF Agrees
    <2>2. snap[p].file \in [Services -> Stacks]
      BY <1>3 DEF Snapshots
    <2> QED  BY <2>1, <2>2
  <1> QED  BY <1>2, <1>4, <1>5

\* Where nobody has edited a stack, a rollback that reports success leaves stacks
\* and manifest exactly as setup found them, and the backups but for new ones it
\* passed over, whatever step failed: run_pam_transaction with snapshot_pam_state
\* and restore_pam_state.
THEOREM RollbackIsExact == Spec => RollbackRestores
PROOF
  <1>1. Init => RestoreInv
    BY DEF Init, RestoreInv, Rolling
  <1>2. Typed /\ RestoreInv /\ [Next]_vars =>
          [\A p \in Procs : pc[p] # "rolled" /\ pc'[p] = "rolled" /\ edits = 0 =>
             /\ file' = snap[p].file /\ manifest' = snap[p].manifest
             /\ \A s \in Services : bak'[s] # snap[p].bak[s] =>
                  snap[p].bak[s] = NoBackup /\ <<"clean", s>> \in passed[p]]_vars
    BY RolledStep
  <1> QED  BY TypedInit, TypedStep, RestoreStep, <1>1, <1>2, PTL DEF Spec, RollbackRestores

-----------------------------------------------------------------------------
(* What a setup that ends well has done to the selected stacks.             *)

Closing(p) ==
  /\ Active(p) /\ cmd[p].op = "setup"
  /\ pc[p] \notin {"snapshot", "restore", "clean", "relist"}
Rewriting(p) == pc[p] \in {"backup", "fill", "write"}

\* A direct call the migration has passed over, or none.
NoCall(p, s, x) == x.howdy => <<"migrate", s>> \in passed[p]

\* The migration first takes out every direct call, then every stack is hooked.
Closed(p) ==
  /\ todo[p] \subseteq cmd[p].on
  /\ pc[p] = "read" => cur[p] \in cmd[p].on
  /\ Rewriting(p) => Hooked(buf[p]) /\ NoCall(p, cur[p], buf[p])
  /\ ret[p] = "migrate" =>
       /\ pc[p] = "migrate" \/ Rewriting(p)
       /\ \A s \in cmd[p].on :
            s \in todo[p] \/ NoCall(p, s, file[s]) \/ (s = cur[p] /\ Rewriting(p))
  /\ ret[p] = "enable" =>
       /\ pc[p] # "migrate"
       /\ \A s \in cmd[p].on :
            /\ NoCall(p, s, file[s])
            /\ \/ s \in todo[p] \/ Hooked(file[s])
               \/ s = cur[p] /\ (pc[p] = "read" \/ Rewriting(p))

CloseInv == \A p \in Procs : Closing(p) => Closed(p)

LEMMA HooksAndCalls ==
  \A x \in Stacks :
    /\ Hooked(AddStanza(x)) /\ (~x.howdy => ~AddStanza(x).howdy)
    /\ Hooked(Rewrite(x)) /\ ~Rewrite(x).howdy
    /\ \A n \in Nat : /\ Hooked([x EXCEPT !.base = n]) <=> Hooked(x)
                      /\ [x EXCEPT !.base = n].howdy <=> x.howdy
  BY DEF Stacks, Hooked, AddStanza, Rewrite

LEMMA CloseEnable ==
  ASSUME Typed, CloseInv, NEW p \in Procs, Closing(p),
         ReadStack(p) \/ OpenBackup(p) \/ FillBackup(p) \/ WriteStack(p)
  PROVE  Closed(p)'
PROOF
  <1> USE DEF Typed, FileTypes, ProcTypes
  <1>1. /\ Closed(p) /\ Locals(p) /\ ret[p] \in {"migrate", "enable"}
        /\ cmd[p].on \subseteq Services /\ cur[p] \in Services
        /\ UNCHANGED <<cmd, ret, cur, todo, passed>>
    BY PamFilesAssumption DEF CloseInv, Closing, ControlInv, Locals, Standing, ReadStack,
       OpenBackup, FillBackup, WriteStack
  <1>2. CASE ReadStack(p)
    <2>1. pc[p] = "read" /\ UNCHANGED file /\ ret[p] = "enable" /\ cur[p] \in cmd[p].on
      BY <1>1, <1>2 DEF ReadStack, fsVars, Closed, Rewriting
    <2>2. CASE Hooked(file[cur[p]])
      <3>1. pc'[p] = "enable"
        BY <1>2, <2>1, <2>2 DEF ReadStack, Return, Goto
      <3> QED  BY <1>1, <2>1, <2>2, <3>1 DEF Closed, Rewriting, NoCall
    <2>3. CASE ~Hooked(file[cur[p]])
      <3>1. pc'[p] = "backup" /\ buf'[p] = AddStanza(file[cur[p]])
        BY <1>2, <2>3 DEF ReadStack, Goto
      <3>2. Hooked(buf'[p]) /\ NoCall(p, cur[p], buf'[p])
        BY <1>1, <2>1, <3>1, HooksAndCalls DEF Closed, NoCall
      <3> QED  BY <1>1, <2>1, <3>1, <3>2 DEF Closed, Rewriting, NoCall
    <2> QED  BY <2>2, <2>3
  <1>3. CASE OpenBackup(p) \/ FillBackup(p)
    <2>1. Rewriting(p) /\ Rewriting(p)' /\ UNCHANGED <<file, buf>>
      BY <1>3 DEF OpenBackup, FillBackup, Goto, Rewriting
    <2> QED  BY <1>1, <2>1 DEF Closed, Rewriting, NoCall
  <1>4. CASE WriteStack(p)
    <2>1. /\ pc[p] = "write" /\ pc'[p] = ret[p] /\ file' = [file EXCEPT ![cur[p]] = buf[p]]
          /\ Hooked(buf[p]) /\ NoCall(p, cur[p], buf[p])
      BY <1>1, <1>4 DEF WriteStack, Return, Goto, Closed, Rewriting
    <2> QED  BY <1>1, <2>1 DEF Closed, Rewriting, NoCall
  <1> QED  BY <1>2, <1>3, <1>4

LEMMA CloseSetup ==
  ASSUME Typed, CloseInv, NEW p \in Procs, Closing(p)',
         TakeSnapshot(p) \/ Migrate(p) \/ SkipUnreadable(p) \/ EnableNext(p)
  PROVE  Closed(p)'
PROOF
  <1> USE DEF Typed, FileTypes, ProcTypes
  <1>1. /\ Active(p) /\ cmd[p].op = "setup" /\ cmd[p].on \subseteq Services
        /\ Standing(p) /\ UNCHANGED <<file, cmd>>
    BY PamFilesAssumption DEF TakeSnapshot, Migrate, SkipUnreadable, EnableNext, Active, Ended,
       ControlInv, Standing, Locals, fsVars
  <1>6. SkipUnreadable(p) \/ UNCHANGED passed
    BY DEF TakeSnapshot, Migrate, EnableNext
  <1>2. CASE TakeSnapshot(p)
    <2>1. /\ pc[p] = "snapshot" /\ pc'[p] = "migrate" /\ todo'[p] = cmd[p].on
          /\ UNCHANGED ret
      BY <1>2 DEF TakeSnapshot, Goto
    <2>2. ret[p] = "migrate"
      BY <1>1, <2>1 DEF ControlInv, Standing
    <2> QED  BY <1>1, <2>1, <2>2 DEF Closed, Rewriting, NoCall
  <1>3. CASE Migrate(p)
    <2>1. pc[p] = "migrate" /\ Closed(p) /\ ret[p] = "migrate" /\ UNCHANGED passed
      BY <1>1, <1>3 DEF Migrate, CloseInv, Closing, Closed, Standing
    <2>2. ASSUME NEW s \in todo[p], todo' = [todo EXCEPT ![p] = todo[p] \ {s}],
                 cur' = [cur EXCEPT ![p] = s], UNCHANGED ret, pc'[p] = "backup",
                 buf' = [buf EXCEPT ![p] = Rewrite(file[s])]
          PROVE  Closed(p)'
      <3>1. Hooked(buf'[p]) /\ ~buf'[p].howdy
        BY <1>1, <2>1, <2>2, HooksAndCalls DEF Closed
      <3> QED  BY <1>1, <2>1, <2>2, <3>1 DEF Closed, Rewriting, NoCall
    <2>3. ASSUME NEW s \in todo[p], todo' = [todo EXCEPT ![p] = todo[p] \ {s}],
                 UNCHANGED <<ret, pc>>, ~Direct(file[s])
          PROVE  Closed(p)'
      BY <1>1, <2>1, <2>3 DEF Closed, Rewriting, NoCall, Direct
    <2>4. ASSUME todo[p] = {}, todo' = [todo EXCEPT ![p] = cmd[p].on], pc'[p] = "refresh",
                 ret' = [ret EXCEPT ![p] = "enable"]
          PROVE  Closed(p)'
      BY <1>1, <2>1, <2>4 DEF Closed, Rewriting, NoCall
    <2> QED  BY <1>3, <2>2, <2>3, <2>4 DEF Migrate, Goto
  <1>4. CASE SkipUnreadable(p)
    <2>1. /\ pc[p] = "migrate" /\ Closed(p) /\ ret[p] = "migrate" /\ pc[p] \in Passing
          /\ UNCHANGED <<pc, ret, cur, buf>> /\ todo[p] \subseteq Services
      BY <1>1, <1>4 DEF SkipUnreadable, CloseInv, Closing, Closed, Standing, Passing
    <2>2. PICK s \in todo[p] : todo' = [todo EXCEPT ![p] = todo[p] \ {s}] /\ PassOver(p, {s})
      BY <1>4 DEF SkipUnreadable
    <2>3. <<"migrate", s>> \in passed'[p] /\ passed[p] \subseteq passed'[p]
      BY <2>1, <2>2, PassingOver
    <2> QED  BY <1>1, <2>1, <2>2, <2>3 DEF Closed, Rewriting, NoCall
  <1>5. CASE EnableNext(p)
    <2>1. pc[p] = "enable" /\ Closed(p) /\ ret[p] = "enable" /\ UNCHANGED <<ret, passed>>
      BY <1>1, <1>5 DEF EnableNext, CloseInv, Closing, Closed, Standing, Rewriting
    <2>2. ASSUME NEW s \in todo[p], todo' = [todo EXCEPT ![p] = todo[p] \ {s}],
                 cur' = [cur EXCEPT ![p] = s], pc'[p] = "read"
          PROVE  Closed(p)'
      BY <1>1, <2>1, <2>2 DEF Closed, Rewriting, NoCall
    <2>3. pc'[p] # "done"
      BY DEF Closing, Active, Ended
    <2> QED  BY <1>5, <2>2, <2>3 DEF EnableNext, Goto
  <1> QED  BY <1>2, <1>3, <1>4, <1>5

LEMMA CloseStep ==
  ASSUME Typed, CloseInv, [Next]_vars
  PROVE  CloseInv'
PROOF
  <1> USE DEF Typed, FileTypes, ProcTypes
  <1>1. ASSUME NEW p \in Procs, Step(p) PROVE CloseInv'
    <2>1. Active(p) \/ Quiet
      BY <1>1 DEF Step, Start, ReadStack, OpenBackup, FillBackup, WriteStack, Lookup, Put, Refresh,
             WriteManifest, TakeSnapshot, Migrate, SkipUnreadable, EnableNext, Fail, FailToRemove,
             Restore, Clean, MissArtifacts, Relist, Sweep, CopyBack, Crash, Active, Ended
    <2>2. \A q \in Procs \ {p} : pc'[q] = pc[q]
      <3>1. ASSUME NEW m \in Commands, Start(p, m) PROVE \A q \in Procs \ {p} : pc'[q] = pc[q]
        <4>1. m.op \in Ops
          BY PamFilesAssumption
        <4>2. CASE m.op \in {"enable", "disable"}
          BY <3>1, <4>2 DEF Start, Goto
        <4>3. CASE m.op = "setup"
          BY <3>1, <4>3 DEF Start, Goto
        <4>4. CASE m.op = "uninstall"
          BY <3>1, <4>4 DEF Start, Goto
        <4> QED  BY <4>1, <4>2, <4>3, <4>4 DEF Ops
      <3> QED  BY <1>1, <3>1 DEF Step, ReadStack, OpenBackup, FillBackup, WriteStack, Lookup, Put,
             Refresh, WriteManifest, TakeSnapshot, Migrate, SkipUnreadable, EnableNext, Fail,
             FailToRemove, GiveUp, Restore, Clean, MissArtifacts, Relist, Sweep, CopyBack, Crash,
             Goto, Return
    <2>3. \A q \in Procs : Active(q)' => q = p
      BY <2>1, <2>2, NoOther
    <2>4. SUFFICES ASSUME Closing(p)' PROVE Closed(p)'
      BY <2>3 DEF CloseInv, Closing
    <2>5. ASSUME NEW m \in Commands, Start(p, m) PROVE FALSE
      <3>1. cmd'[p] = m
        BY <2>5 DEF Start
      <3>2. m.op = "setup" => pc'[p] = "snapshot"
        BY <2>5 DEF Start, Goto
      <3> QED  BY <2>4, <3>1, <3>2 DEF Closing
    <2>6. ASSUME ReadStack(p) \/ OpenBackup(p) \/ FillBackup(p) \/ WriteStack(p)
          PROVE  Closed(p)'
      <3>1. Closing(p)
        BY <2>4, <2>6 DEF Closing, ReadStack, OpenBackup, FillBackup, WriteStack, Active, Ended
      <3> QED  BY <2>6, <3>1, CloseEnable
    <2>7. ASSUME TakeSnapshot(p) \/ Migrate(p) \/ SkipUnreadable(p) \/ EnableNext(p)
          PROVE  Closed(p)'
      BY <2>4, <2>7, CloseSetup
    <2>8. ~(Lookup(p) \/ Put(p) \/ Sweep(p) \/ CopyBack(p))
      BY <2>4 DEF Lookup, Put, Sweep, CopyBack, Closing, ControlInv, Standing, Active, Ended
    <2>9. ASSUME Refresh(p) \/ WriteManifest(p) PROVE Closed(p)'
      <3>1. /\ Closing(p) /\ pc[p] \in {"refresh", "list"}
            /\ UNCHANGED <<file, cmd, ret, todo, cur, buf>>
        BY <2>4, <2>9 DEF Closing, Refresh, WriteManifest, Active, Ended, fsVars
      <3>4. passed[p] \subseteq passed'[p]
        <4>1. UNCHANGED passed \/ \E S \in SUBSET Migrated : pc[p] = "refresh" /\ PassOver(p, S)
          BY <2>9 DEF Refresh, WriteManifest
        <4> QED  BY <4>1, PassingOver DEF Passing, Migrated
      <3>2. Closed(p) /\ ret[p] = "enable"
        BY <3>1 DEF CloseInv, Closed, Closing, ControlInv, Standing, Rewriting
      <3>3. pc'[p] \in {"list", "enable"}
        BY <2>9, <3>2 DEF Refresh, WriteManifest, Goto, Return
      <3> QED  BY <3>1, <3>2, <3>3, <3>4 DEF Closed, Rewriting, NoCall
    <2>10. ~(Fail(p) \/ FailToRemove(p) \/ Crash(p))
      BY <2>4 DEF Fail, FailToRemove, GiveUp, Crash, Closing, Active, Ended, Goto
    <2>11. ~(Restore(p) \/ Clean(p) \/ MissArtifacts(p) \/ Relist(p))
      BY <2>4 DEF Restore, Clean, MissArtifacts, Relist, Closing, Active, Ended, Goto
    <2> QED  BY <1>1, <2>5, <2>6, <2>7, <2>8, <2>9, <2>10, <2>11 DEF Step
  <1>2. ASSUME NEW s \in Services, Edit(s) PROVE CloseInv'
    <2>1. /\ file' = [file EXCEPT ![s] = [file[s] EXCEPT !.base = edits + 2]]
          /\ UNCHANGED procVars /\ edits + 2 \in Nat
      BY <1>2 DEF Edit, CountTypes
    <2>2. \A t \in Services : /\ Hooked(file'[t]) <=> Hooked(file[t])
                              /\ file'[t].howdy <=> file[t].howdy
      BY <2>1, HooksAndCalls
    <2>3. ASSUME NEW p \in Procs, Closing(p) PROVE cmd[p].on \subseteq Services
      BY <2>3, PamFilesAssumption DEF Closing, ControlInv, Locals
    <2> QED  BY <2>1, <2>2, <2>3 DEF CloseInv, Closing, Closed, Rewriting, NoCall, Active, procVars
  <1>3. CASE UNCHANGED vars
    BY <1>3 DEF vars, fsVars, procVars, CloseInv, Closing, Closed, Rewriting, NoCall, Active
  <1> QED  BY <1>1, <1>2, <1>3 DEF Next

\* The step that ends a setup.
LEMMA CloseEnd ==
  ASSUME Typed, CloseInv, [Next]_vars, NEW p \in Procs, pc[p] = "enable", pc'[p] = "done",
         NEW s \in cmd[p].on
  PROVE  Hooked(file[s]) /\ NoCall(p, s, file[s])
PROOF
  <1> USE DEF Typed, FileTypes, ProcTypes
  <1>1. Active(p) /\ Standing(p)
    BY DEF Active, Ended, ControlInv
  <1>2. Closed(p) /\ ret[p] = "enable"
    BY <1>1 DEF CloseInv, Closing, Standing, Closed, Rewriting
  <1>3. ASSUME NEW q \in Procs, Step(q) PROVE todo[p] = {}
    <2>1. ~\E m \in Commands : Start(q, m)
      BY <1>1 DEF Start, Quiet
    <2>2. Active(q)
      BY <1>3, <2>1 DEF Step, ReadStack, OpenBackup, FillBackup, WriteStack, Lookup, Put,
             Refresh, WriteManifest, TakeSnapshot, Migrate, SkipUnreadable, EnableNext, Fail,
             FailToRemove, Restore, Clean, MissArtifacts, Relist, Sweep, CopyBack, Crash,
             Active, Ended
    <2>3. q = p
      BY <1>1, <2>2 DEF ControlInv
    <2>4. EnableNext(p) \/ Crash(p)
      BY <1>3, <2>1, <2>3 DEF Step, ReadStack, OpenBackup, FillBackup, WriteStack, Lookup, Put,
             Refresh, WriteManifest, TakeSnapshot, Migrate, SkipUnreadable, Fail, FailToRemove,
             Restore, Clean, MissArtifacts, Relist, Sweep, CopyBack
    <2> QED  BY <2>4 DEF EnableNext, Crash, Goto
  <1>4. todo[p] = {}
    BY <1>3 DEF Next, Edit, vars, procVars
  <1> QED  BY <1>2, <1>4 DEF Closed, Rewriting, NoCall

\* A setup that ends well leaves the module in every selected stack, and a direct
\* Howdy call only where the migration could not read the stack: also when the
\* administrator edits stacks meanwhile and other commands failed or were killed
\* before (migrate_direct_howdy_pam_in and pam_enable in run_pam_transaction).
THEOREM SetupCloses == Spec => SetupClosesBypass
PROOF
  <1>1. Init => CloseInv
    BY DEF Init, CloseInv, Closing, Active
  <1>2. Typed /\ CloseInv /\ [Next]_vars =>
          [\A p \in Procs : pc[p] = "enable" /\ pc'[p] = "done" =>
             \A s \in cmd[p].on :
               /\ Hooked(file[s])
               /\ file[s].howdy => <<"migrate", s>> \in passed[p]]_vars
    <2>1. ASSUME Typed, CloseInv, [Next]_vars, NEW p \in Procs, pc[p] = "enable",
                 pc'[p] = "done", NEW s \in cmd[p].on
          PROVE  Hooked(file[s]) /\ (file[s].howdy => <<"migrate", s>> \in passed[p])
      BY <2>1, CloseEnd DEF NoCall
    <2> QED  BY <2>1
  <1> QED  BY TypedInit, TypedStep, CloseStep, <1>1, <1>2, PTL DEF Spec, SetupClosesBypass

-----------------------------------------------------------------------------
(* The manifest between commands.                                           *)

NoErrors == \A p \in Procs : pc[p] \in {"error", "dead"} => cmd[p].op = "enable"

\* Some refresh could not read the stack.
Missed(s) == \E q \in Procs : <<"refresh", s>> \in passed[q]
ListsOf(m, M) == m \subseteq M /\ \A s \in M \ m : Missed(s)
Lists(m) == ListsOf(m, Migrated)
MigratedThen(p) == {s \in Services : snap[p].file[s].marked}

\* The history only grows.
LEMMA PassedGrows ==
  ASSUME Typed, [Next]_vars
  PROVE  \A q \in Procs : passed[q] \subseteq passed'[q]
PROOF
  <1> USE DEF Typed, ProcTypes
  <1>1. ASSUME NEW p \in Procs, Step(p)
        PROVE  UNCHANGED passed \/ \E S \in SUBSET Services : pc[p] \in Passing /\ PassOver(p, S)
    <2>1. CASE MissArtifacts(p) \/ SkipUnreadable(p) \/ Refresh(p)
      <3>1. todo[p] \subseteq Services \/ pc[p] = "refresh"
        BY <2>1 DEF MissArtifacts, SkipUnreadable, Refresh, ControlInv, Locals, Active, Ended
      <3> QED  BY <2>1, <3>1 DEF MissArtifacts, SkipUnreadable, Refresh, Migrated, Passing
    <2>2. CASE Restore(p) \/ Clean(p) \/ Relist(p) \/ Fail(p) \/ FailToRemove(p) \/ Sweep(p)
               \/ CopyBack(p) \/ Crash(p) \/ \E m \in Commands : Start(p, m)
      BY <2>2 DEF Restore, Clean, Relist, Fail, FailToRemove, Sweep, CopyBack, Crash, Start
    <2>3. CASE ReadStack(p) \/ OpenBackup(p) \/ FillBackup(p) \/ WriteStack(p) \/ Lookup(p)
               \/ Put(p) \/ WriteManifest(p) \/ TakeSnapshot(p) \/ Migrate(p) \/ EnableNext(p)
      BY <2>3 DEF ReadStack, OpenBackup, FillBackup, WriteStack, Lookup, Put, WriteManifest,
         TakeSnapshot, Migrate, EnableNext
    <2> QED  BY <1>1, <2>1, <2>2, <2>3 DEF Step
  <1>2. UNCHANGED passed \/ \E p \in Procs : \E S \in SUBSET Services :
                             pc[p] \in Passing /\ PassOver(p, S)
    BY <1>1 DEF Next, Edit, vars, procVars
  <1> QED  BY <1>2, PassingOver

LEMMA MissedStays ==
  ASSUME Typed, [Next]_vars
  PROVE  \A s \in Services : Missed(s) => Missed(s)'
  BY PassedGrows DEF Missed


\* The manifest is as accurate as it gets but where a command has changed stacks since, and
\* then a new list is on its way or the snapshot's is put back.
Listed(p) ==
  /\ pc[p] = "list" => Lists(list[p])
  /\ \/ cmd[p].op = "enable"
     \/ cmd[p].op \in {"disable", "uninstall"} /\ pc[p] \in {"lookup", "put", "sweep"}
     \/ /\ cmd[p].op = "setup"
        /\ \/ pc[p] = "snapshot"
           \/ ret[p] = "enable" /\ (pc[p] \in {"enable", "read"} \/ Rewriting(p))
     => Lists(manifest)
  /\ Rewriting(p) /\ ret[p] # "migrate" => (buf[p].marked <=> file[cur[p]].marked)
  /\ cmd[p].op = "setup" /\ pc[p] # "snapshot" =>
       ListsOf(snap[p].manifest, MigratedThen(p))

ManifestInv ==
  NoErrors /\ installed =>
    /\ Quiet => Lists(manifest)
    /\ \A p \in Procs : Active(p) => Listed(p)

LEMMA ManifestFrom ==
  ASSUME Typed, NEW p \in Procs, Active(p) \/ Quiet, \A q \in Procs \ {p} : pc'[q] = pc[q],
         NoErrors' /\ installed' =>
           /\ ~Active(p)' => Lists(manifest)'
           /\ Active(p)' => Listed(p)'
  PROVE  ManifestInv'
  BY NoOther DEF ManifestInv, Quiet

\* A command that goes on or ends has met no error itself.
LEMMA NoErrorsBefore ==
  ASSUME Typed, NEW p \in Procs, Active(p), \A q \in Procs \ {p} : pc'[q] = pc[q],
         UNCHANGED cmd, NoErrors'
  PROVE  NoErrors
  BY DEF NoErrors, Active, Ended

LEMMA ManifestStart ==
  ASSUME Typed, [Next]_vars, ManifestInv, NEW p \in Procs, NEW m \in Commands, Start(p, m)
  PROVE  ManifestInv'
PROOF
  <1> USE DEF Typed, FileTypes, ProcTypes
  <1>0. \A s \in Services : Missed(s) => Missed(s)'
    BY MissedStays
  <1>1. m.op \in Ops
    BY PamFilesAssumption
  <1>2. /\ UNCHANGED <<file, manifest, installed>> /\ Quiet /\ pc[p] = "ready" /\ cmd' = [cmd EXCEPT ![p] = m]
    BY DEF Start, fsVars
  <1>3. \/ m.op = "enable" /\ pc' = [pc EXCEPT ![p] = "read"]
        \/ m.op = "disable" /\ pc' = [pc EXCEPT ![p] = "lookup"]
        \/ m.op = "setup" /\ pc' = [pc EXCEPT ![p] = "snapshot"]
        \/ m.op = "uninstall" /\ pc' = [pc EXCEPT ![p] = "sweep"]
    <2>1. CASE m.op \in {"enable", "disable"}
      BY <2>1 DEF Start, Goto
    <2>2. CASE m.op = "setup"
      BY <2>2 DEF Start, Goto
    <2>3. CASE m.op = "uninstall"
      BY <2>3 DEF Start, Goto
    <2> QED  BY <1>1, <2>1, <2>2, <2>3 DEF Ops
  <1>4. \A q \in Procs \ {p} : pc'[q] = pc[q] /\ cmd'[q] = cmd[q]
    BY <1>2, <1>3
  <1>5. NoErrors' => NoErrors
    BY <1>2, <1>4 DEF NoErrors
  <1>6. NoErrors' /\ installed' => Lists(manifest)' /\ Listed(p)'
    <2> SUFFICES ASSUME NoErrors', installed' PROVE Lists(manifest)' /\ Listed(p)'
      OBVIOUS
    <2>1. Lists(manifest)'
      BY <1>0, <1>2, <1>5 DEF ManifestInv, Lists, ListsOf, Migrated
    <2> QED  BY <1>0, <1>2, <1>3, <2>1 DEF Listed, Lists, ListsOf, MigratedThen, Rewriting
  <1>7. Active(p)'
    BY <1>3 DEF Active, Ended
  <1> QED  BY <1>2, <1>4, <1>6, <1>7, ManifestFrom

LEMMA ManifestEnable ==
  ASSUME Typed, [Next]_vars, ManifestInv, NEW p \in Procs,
         ReadStack(p) \/ OpenBackup(p) \/ FillBackup(p) \/ WriteStack(p)
  PROVE  ManifestInv'
PROOF
  <1> USE DEF Typed, FileTypes, ProcTypes
  <1>0. \A s \in Services : Missed(s) => Missed(s)'
    BY MissedStays
  <1>1. /\ Active(p) /\ pc[p] \in {"read", "backup", "fill", "write"}
        /\ Standing(p) /\ cur[p] \in Services /\ cmd[p].op \in {"enable", "setup"}
        /\ UNCHANGED <<manifest, installed, cmd, ret, cur, snap>>
    BY DEF ReadStack, OpenBackup, FillBackup, WriteStack, Active, Ended, ControlInv, Locals,
           Standing, fsVars
  <1>2. \A q \in Procs \ {p} : pc'[q] = pc[q]
    BY DEF ReadStack, OpenBackup, FillBackup, WriteStack, Return, Goto
  <1>3. SUFFICES ASSUME NoErrors', installed'
                 PROVE  (~Active(p)' => Lists(manifest)') /\ (Active(p)' => Listed(p)')
    BY <1>1, <1>2, ManifestFrom
  <1>4. Listed(p)
    BY <1>1, <1>2, <1>3, NoErrorsBefore DEF ManifestInv
  <1>5. CASE ReadStack(p)
    <2>1. pc[p] = "read" /\ UNCHANGED file /\ ret[p] # "migrate" /\ Lists(manifest)
      BY <1>1, <1>4, <1>5 DEF ReadStack, fsVars, Standing, Listed
    <2>2. CASE Hooked(file[cur[p]])
      <3>1. pc'[p] = ret[p]
        BY <1>5, <2>2 DEF ReadStack, Return, Goto
      <3> QED  BY <1>0, <1>1, <1>4, <2>1, <3>1 DEF Listed, Lists, ListsOf, Migrated, MigratedThen,
                  Rewriting, Standing
    <2>3. CASE ~Hooked(file[cur[p]])
      <3>1. pc'[p] = "backup" /\ buf'[p] = AddStanza(file[cur[p]])
        BY <1>5, <2>3 DEF ReadStack, Goto
      <3>2. buf'[p].marked <=> file[cur[p]].marked
        BY <1>1, <3>1 DEF AddStanza, Stacks
      <3>3. Active(p)'
        BY <3>1 DEF Active, Ended
      <3> QED  BY <1>0, <1>1, <1>4, <2>1, <3>1, <3>2, <3>3 DEF Listed, Lists, ListsOf, Migrated,
                  MigratedThen, Rewriting
    <2> QED  BY <2>2, <2>3
  <1>6. CASE OpenBackup(p) \/ FillBackup(p)
    <2>1. Rewriting(p) /\ Rewriting(p)' /\ UNCHANGED <<file, buf>>
      BY <1>6 DEF OpenBackup, FillBackup, Goto, Rewriting
    <2>2. Active(p)'
      BY <2>1 DEF Active, Ended, Rewriting
    <2> QED  BY <1>0, <1>1, <1>4, <2>1, <2>2 DEF Listed, Lists, ListsOf, Migrated, MigratedThen,
                Rewriting
  <1>7. CASE WriteStack(p)
    <2>1. pc[p] = "write" /\ pc'[p] = ret[p] /\ file' = [file EXCEPT ![cur[p]] = buf[p]]
      BY <1>7 DEF WriteStack, Return, Goto
    <2>2. CASE ret[p] = "migrate"
      BY <1>0, <1>1, <1>4, <2>1, <2>2 DEF Listed, Lists, ListsOf, MigratedThen, Rewriting,
         Standing, Active, Ended
    <2>3. CASE ret[p] # "migrate"
      <3>1. /\ Lists(manifest) /\ (buf[p].marked <=> file[cur[p]].marked)
        BY <1>0, <1>1, <1>4, <2>1, <2>3 DEF Listed, Lists, ListsOf, MigratedThen, Rewriting, Standing
      <3>2. Migrated' = Migrated
        BY <1>1, <2>1, <3>1 DEF Migrated
      <3>3. Lists(manifest)'
        <4>1. Migrated \subseteq Services
          BY DEF Migrated
        <4> QED  BY <1>0, <1>1, <3>1, <3>2, <4>1 DEF Lists, ListsOf
      <3>4. CASE ~Active(p)'
        BY <3>3, <3>4
      <3>5. CASE Active(p)'
        <4>1. ~Rewriting(p)' /\ pc'[p] # "list"
          BY <1>1, <2>1, <2>3 DEF Rewriting, Standing
        <4>2. cmd[p].op = "setup" => ListsOf(snap[p].manifest, MigratedThen(p))'
          BY <1>0, <1>1, <1>4, <2>1 DEF Listed, ListsOf, MigratedThen
        <4> QED  BY <1>1, <3>3, <4>1, <4>2 DEF Listed
      <3> QED  BY <3>4, <3>5
    <2> QED  BY <2>2, <2>3
  <1> QED  BY <1>5, <1>6, <1>7

LEMMA ManifestDisable ==
  ASSUME Typed, [Next]_vars, ManifestInv, NEW p \in Procs,
         Lookup(p) \/ Put(p) \/ Refresh(p) \/ WriteManifest(p)
  PROVE  ManifestInv'
PROOF
  <1> USE DEF Typed, FileTypes, ProcTypes
  <1>0. \A s \in Services : Missed(s) => Missed(s)'
    BY MissedStays
  <1>1. /\ Active(p) /\ pc[p] \in {"lookup", "put", "refresh", "list"}
        /\ Standing(p) /\ cmd[p].op # "enable"
        /\ UNCHANGED <<installed, cmd, ret, cur, snap>>
    BY DEF Lookup, Put, Refresh, WriteManifest, Active, Ended, ControlInv, Standing, fsVars
  <1>2. \A q \in Procs \ {p} : pc'[q] = pc[q]
    BY DEF Lookup, Put, Refresh, WriteManifest, Return, Goto
  <1>3. SUFFICES ASSUME NoErrors', installed'
                 PROVE  (~Active(p)' => Lists(manifest)') /\ (Active(p)' => Listed(p)')
    BY <1>1, <1>2, ManifestFrom
  <1>4. Listed(p)
    BY <1>1, <1>2, <1>3, NoErrorsBefore DEF ManifestInv
  <1>5. CASE Lookup(p)
    <2>1. pc[p] = "lookup" /\ pc'[p] = "put" /\ UNCHANGED <<file, manifest>> /\ Active(p)'
      BY <1>5 DEF Lookup, Goto, fsVars, Active, Ended
    <2> QED  BY <1>0, <1>1, <1>4, <2>1 DEF Listed, Lists, ListsOf, Migrated, MigratedThen, Rewriting
  <1>6. CASE Put(p)
    <2>1. pc'[p] = "refresh" /\ UNCHANGED manifest /\ cmd[p].op # "setup" /\ Active(p)'
      BY <1>1, <1>6 DEF Put, Goto, AfterPut, Standing, Active, Ended
    <2> QED  BY <1>0, <1>1, <1>4, <2>1 DEF Listed, Lists, ListsOf, MigratedThen, Rewriting
  <1>7. CASE Refresh(p)
    <2>1. /\ pc'[p] = "list" /\ UNCHANGED <<file, manifest>> /\ Active(p)' /\ pc[p] = "refresh"
      BY <1>7 DEF Refresh, Goto, fsVars, Active, Ended
    <2>2. Migrated' = Migrated /\ Migrated \subseteq Services
      BY <2>1 DEF Migrated
    <2>3. Lists(list[p])'
      <3>1. CASE list'[p] = Migrated
        BY <2>2, <3>1 DEF Lists, ListsOf
      <3>2. ASSUME NEW S \in SUBSET Migrated, PassOver(p, S), list'[p] = Migrated \ S
            PROVE  Lists(list[p])'
        <4>1. \A s \in S : <<"refresh", s>> \in passed'[p]
          BY <2>1, <2>2, <3>2, PassingOver DEF Passing
        <4>2. \A s \in S : Missed(s)'
          BY <4>1 DEF Missed
        <4>3. \A s \in Migrated \ list'[p] : s \in S
          BY <3>2
        <4> QED  BY <2>2, <3>2, <4>2, <4>3 DEF Lists, ListsOf
      <3>3. \/ list' = [list EXCEPT ![p] = Migrated]
            \/ \E S \in SUBSET Migrated : PassOver(p, S) /\ list' = [list EXCEPT ![p] = Migrated \ S]
        BY <1>7 DEF Refresh
      <3>4. \/ list'[p] = Migrated
            \/ \E S \in SUBSET Migrated : PassOver(p, S) /\ list'[p] = Migrated \ S
        BY <3>3
      <3> QED  BY <3>1, <3>2, <3>4
    <2>4. (cmd[p].op = "setup" /\ pc[p] # "snapshot" => ListsOf(snap[p].manifest, MigratedThen(p)))'
      BY <1>0, <1>1, <1>4, <2>1 DEF Listed, ListsOf, MigratedThen
    <2> QED  BY <1>1, <2>1, <2>3, <2>4 DEF Listed, Rewriting
  <1>8. CASE WriteManifest(p)
    <2>1. /\ pc[p] = "list" /\ pc'[p] = ret[p] /\ UNCHANGED file /\ manifest' = list[p]
      BY <1>8 DEF WriteManifest, Return, Goto
    <2>2. Lists(manifest)'
      BY <1>0, <1>4, <2>1 DEF Listed, Lists, ListsOf, Migrated, MigratedThen
    <2> QED  BY <1>0, <1>1, <1>4, <2>1, <2>2 DEF Listed, Lists, ListsOf, MigratedThen, Rewriting,
                Standing
  <1> QED  BY <1>5, <1>6, <1>7, <1>8

LEMMA ManifestSetup ==
  ASSUME Typed, [Next]_vars, ManifestInv, NEW p \in Procs,
         TakeSnapshot(p) \/ Migrate(p) \/ SkipUnreadable(p) \/ EnableNext(p)
  PROVE  ManifestInv'
PROOF
  <1> USE DEF Typed, FileTypes, ProcTypes
  <1>0. \A s \in Services : Missed(s) => Missed(s)'
    BY MissedStays
  <1>1. /\ Active(p) /\ Standing(p) /\ cmd[p].op = "setup"
        /\ pc[p] \in {"snapshot", "migrate", "enable"}
        /\ UNCHANGED <<file, manifest, installed, cmd>>
    BY DEF TakeSnapshot, Migrate, SkipUnreadable, EnableNext, Active, Ended, ControlInv, Standing,
           fsVars
  <1>2. \A q \in Procs \ {p} : pc'[q] = pc[q]
    BY DEF TakeSnapshot, Migrate, SkipUnreadable, EnableNext, Goto
  <1>3. SUFFICES ASSUME NoErrors', installed'
                 PROVE  (~Active(p)' => Lists(manifest)') /\ (Active(p)' => Listed(p)')
    BY <1>1, <1>2, ManifestFrom
  <1>4. Listed(p)
    BY <1>1, <1>2, <1>3, NoErrorsBefore DEF ManifestInv
  <1>5. CASE TakeSnapshot(p)
    <2>1. /\ pc[p] = "snapshot" /\ pc'[p] = "migrate" /\ UNCHANGED <<ret, cur, buf>> /\ Active(p)'
          /\ snap'[p] = [file |-> file, bak |-> bak, manifest |-> manifest]
      BY <1>5 DEF TakeSnapshot, Goto, Active, Ended
    <2>2. ret[p] = "migrate" /\ Lists(manifest)
      BY <1>1, <1>4, <2>1 DEF Listed, Standing
    <2> QED  BY <1>0, <1>1, <2>1, <2>2 DEF Listed, Lists, ListsOf, Migrated, MigratedThen, Rewriting
  <1>6. CASE Migrate(p) \/ SkipUnreadable(p)
    <2>1. /\ pc[p] = "migrate" /\ UNCHANGED snap
          /\ \/ pc'[p] \in {"migrate", "backup"} /\ UNCHANGED ret
             \/ pc'[p] = "refresh"
      BY <1>6 DEF Migrate, SkipUnreadable, Goto
    <2>2. ret[p] = "migrate" /\ Active(p)'
      BY <1>1, <2>1 DEF Standing, Active, Ended
    <2> QED  BY <1>0, <1>1, <1>4, <2>1, <2>2 DEF Listed, Lists, ListsOf, MigratedThen, Rewriting
  <1>7. CASE EnableNext(p)
    <2>1. pc[p] = "enable" /\ pc'[p] \in {"read", "done"} /\ UNCHANGED <<ret, buf, snap>>
      BY <1>7 DEF EnableNext, Goto
    <2>2. Lists(manifest)
      BY <1>1, <1>4, <2>1 DEF Listed, Standing
    <2> QED  BY <1>0, <1>1, <1>4, <2>1, <2>2 DEF Listed, Lists, ListsOf, Migrated, MigratedThen,
                Rewriting
  <1> QED  BY <1>5, <1>6, <1>7

LEMMA ManifestFail ==
  ASSUME Typed, [Next]_vars, ManifestInv, NEW p \in Procs, Fail(p) \/ FailToRemove(p) \/ Crash(p)
  PROVE  ManifestInv'
PROOF
  <1> USE DEF Typed, FileTypes, ProcTypes
  <1>0. \A s \in Services : Missed(s) => Missed(s)'
    BY MissedStays
  <1>1. /\ Active(p) /\ Standing(p)
        /\ UNCHANGED <<file, manifest, installed, cmd, ret, cur, buf, list, snap>>
    BY DEF Fail, FailToRemove, Crash, Active, Ended, ControlInv, fsVars
  <1>2. \A q \in Procs \ {p} : pc'[q] = pc[q]
    BY DEF Fail, FailToRemove, GiveUp, Crash, Goto
  <1>3. SUFFICES ASSUME NoErrors', installed'
                 PROVE  (~Active(p)' => Lists(manifest)') /\ (Active(p)' => Listed(p)')
    BY <1>1, <1>2, ManifestFrom
  <1>4. Listed(p)
    BY <1>1, <1>2, <1>3, NoErrorsBefore DEF ManifestInv
  <1>5. CASE ~Crash(p) /\ cmd[p].op = "setup" /\ pc[p] # "snapshot"
    <2>1. pc'[p] = "restore" /\ Active(p)'
      BY <1>5 DEF Fail, FailToRemove, GiveUp, Goto, Active, Ended
    <2> QED  BY <1>0, <1>1, <1>4, <1>5, <2>1 DEF Listed, Lists, ListsOf, MigratedThen, Rewriting
  <1>6. CASE Crash(p) \/ ~(cmd[p].op = "setup" /\ pc[p] # "snapshot")
    <2>1. pc'[p] \in {"error", "dead"} /\ ~Active(p)'
      BY <1>6 DEF Fail, FailToRemove, GiveUp, Crash, Goto, Active, Ended
    <2>2. cmd[p].op = "enable"
      BY <1>1, <1>3, <2>1 DEF NoErrors
    <2> QED  BY <1>0, <1>1, <1>4, <2>1, <2>2 DEF Listed, Lists, ListsOf, Migrated
  <1> QED  BY <1>5, <1>6

LEMMA ManifestRollback ==
  ASSUME Typed, [Next]_vars, ManifestInv, RestoreInv, NEW p \in Procs, Restore(p) \/ Clean(p) \/ MissArtifacts(p) \/ Relist(p)
  PROVE  ManifestInv'
PROOF
  <1> USE DEF Typed, FileTypes, ProcTypes
  <1>0. \A s \in Services : Missed(s) => Missed(s)'
    BY MissedStays
  <1>1. /\ Active(p) /\ cmd[p].op = "setup" /\ snap[p] \in Snapshots
        /\ pc[p] \in {"restore", "clean", "relist"}
        /\ UNCHANGED <<installed, cmd, ret, cur, buf, list, snap>>
    BY DEF Restore, Clean, MissArtifacts, Relist, Active, Ended, ControlInv, Standing, Locals, fsVars
  <1>2. \A q \in Procs \ {p} : pc'[q] = pc[q]
    BY DEF Restore, Clean, MissArtifacts, Relist, Goto
  <1>3. SUFFICES ASSUME NoErrors', installed'
                 PROVE  (~Active(p)' => Lists(manifest)') /\ (Active(p)' => Listed(p)')
    BY <1>1, <1>2, ManifestFrom
  <1>4. Listed(p)
    BY <1>1, <1>2, <1>3, NoErrorsBefore DEF ManifestInv
  <1>5. CASE Restore(p) \/ Clean(p) \/ MissArtifacts(p)
    <2>1. pc'[p] \in {"restore", "clean", "relist"} /\ Active(p)'
      BY <1>1, <1>5 DEF Restore, Clean, MissArtifacts, Goto, Active, Ended
    <2> QED  BY <1>0, <1>1, <1>4, <2>1 DEF Listed, Lists, ListsOf, MigratedThen, Rewriting
  <1>6. CASE Relist(p)
    <2>1. /\ pc[p] = "relist" /\ pc'[p] \in {"rolled", "error"} /\ UNCHANGED file
          /\ pc'[p] = "rolled" => ~failed[p] /\ manifest' = snap[p].manifest
      BY <1>6 DEF Relist, RestoredManifest, Goto
    <2>2. pc'[p] = "rolled" /\ ~Active(p)'
      BY <1>1, <1>3, <2>1 DEF NoErrors, Active, Ended
    <2>3. \A s \in Services : file[s].marked <=> snap[p].file[s].marked
      BY <1>6, <2>1, <2>2 DEF RestoreInv, Rolling, Restored, Agrees, Relist
    <2>4. Migrated' = MigratedThen(p)
      BY <2>1, <2>3 DEF Migrated, MigratedThen
    <2> QED  BY <1>0, <1>1, <1>4, <2>1, <2>2, <2>4 DEF Listed, Lists, ListsOf, Migrated, MigratedThen
  <1> QED  BY <1>5, <1>6

LEMMA ManifestUninstall ==
  ASSUME Typed, [Next]_vars, ManifestInv, NEW p \in Procs, Sweep(p) \/ CopyBack(p)
  PROVE  ManifestInv'
PROOF
  <1> USE DEF Typed, FileTypes, ProcTypes
  <1>0. \A s \in Services : Missed(s) => Missed(s)'
    BY MissedStays
  <1>1. /\ Active(p) /\ cmd[p].op = "uninstall" /\ pc[p] \in {"sweep", "copyback"}
        /\ UNCHANGED cmd
    BY DEF Sweep, CopyBack, Active, Ended, ControlInv, Standing
  <1>2. \A q \in Procs \ {p} : pc'[q] = pc[q]
    BY DEF Sweep, CopyBack, Goto
  <1>3. SUFFICES ASSUME NoErrors', installed'
                 PROVE  (~Active(p)' => Lists(manifest)') /\ (Active(p)' => Listed(p)')
    BY <1>1, <1>2, ManifestFrom
  <1>4. CASE Sweep(p)
    <2>1. /\ pc[p] = "sweep" /\ pc'[p] \in {"sweep", "lookup", "copyback"} /\ Active(p)'
          /\ UNCHANGED <<file, manifest, installed>>
      BY <1>4 DEF Sweep, Goto, fsVars, Active, Ended
    <2>2. Listed(p)
      BY <1>1, <1>2, <1>3, <2>1, NoErrorsBefore DEF ManifestInv
    <2> QED  BY <1>0, <1>1, <2>1, <2>2 DEF Listed, Lists, ListsOf, Migrated, MigratedThen, Rewriting
  <1>5. CASE CopyBack(p)
    <2>1. pc'[p] = "copyback" /\ Active(p)'
      BY <1>3, <1>5 DEF CopyBack, Goto, Active, Ended
    <2> QED  BY <1>0, <1>1, <2>1 DEF Listed, Lists, ListsOf, MigratedThen, Rewriting
  <1> QED  BY <1>4, <1>5

LEMMA ManifestStep ==
  ASSUME Typed, ManifestInv, RestoreInv, [Next]_vars
  PROVE  ManifestInv'
PROOF
  <1>1. ASSUME NEW s \in Services, Edit(s) PROVE ManifestInv'
    <2>1. /\ file' = [file EXCEPT ![s] = [file[s] EXCEPT !.base = edits + 2]]
          /\ UNCHANGED <<manifest, installed, procVars>>
      BY <1>1 DEF Edit
    <2>2. \A t \in Services : file'[t].marked <=> file[t].marked
      BY <2>1 DEF Typed, FileTypes, Stacks
    <2>3. Migrated' = Migrated
      BY <2>2 DEF Migrated
    <2>4. ASSUME NEW p \in Procs, Active(p) PROVE pc[p] \in {"write", "fill", "backup"} => cur[p] \in Services
      BY <2>4 DEF Typed, ControlInv, Locals
    <2> QED  BY <2>1, <2>2, <2>3, <2>4 DEF ManifestInv, NoErrors, Quiet, Active, Listed, Lists,
             ListsOf, MigratedThen, Missed, Rewriting, procVars
  <1>2. CASE UNCHANGED vars
    BY <1>2 DEF vars, fsVars, procVars, ManifestInv, NoErrors, Quiet, Active, Listed, Lists, ListsOf,
       Migrated, MigratedThen, Missed, Rewriting
  <1>3. ASSUME NEW p \in Procs, NEW m \in Commands, Start(p, m) PROVE ManifestInv'
    BY <1>3, ManifestStart
  <1>4. ASSUME NEW p \in Procs,
               \/ ReadStack(p) \/ OpenBackup(p) \/ FillBackup(p) \/ WriteStack(p)
               \/ Lookup(p) \/ Put(p) \/ Refresh(p) \/ WriteManifest(p)
               \/ TakeSnapshot(p) \/ Migrate(p) \/ SkipUnreadable(p) \/ EnableNext(p)
        PROVE  ManifestInv'
    BY <1>4, ManifestEnable, ManifestDisable, ManifestSetup
  <1>5. ASSUME NEW p \in Procs,
               \/ Fail(p) \/ FailToRemove(p) \/ Crash(p) \/ Sweep(p) \/ CopyBack(p)
               \/ Restore(p) \/ Clean(p) \/ MissArtifacts(p) \/ Relist(p)
        PROVE  ManifestInv'
    BY <1>5, ManifestFail, ManifestRollback, ManifestUninstall
  <1> QED  BY <1>1, <1>2, <1>3, <1>4, <1>5 DEF Next, Step

\* Between commands the manifest lists only stacks that carry IRAuth's marker, and
\* all of them but the ones some refresh could not read, unless a command other
\* than an enable met an error or was killed: refresh_migration_manifest_in in
\* pam_disable and in the transaction, the manifest of the snapshot in its
\* rollback.
THEOREM ManifestIsAccurate == Spec => []ManifestAccurate
PROOF
  <1>1. Init => RestoreInv
    BY DEF Init, RestoreInv, Rolling
  <1>2. Init => ManifestInv
    BY DEF Init, ManifestInv, Lists, ListsOf, Migrated, Active, Plain
  <1>3. ManifestInv => ManifestAccurate
    BY DEF ManifestInv, ManifestAccurate, NoErrors, Lists, ListsOf, Missed
  <1> QED  BY TypedInit, TypedStep, RestoreStep, ManifestStep, <1>1, <1>2, <1>3, PTL DEF Spec

-----------------------------------------------------------------------------
(* The stack that disabling gives back.                                     *)

\* An untouched stack is the original one, unless its backup was never filled.
SameUnlessTorn == \A s \in Services : Pristine(file[s]) => file[s] = orig[s] \/ Torn(s)

\* A snapshot has the backups that are there still, and the original stack where
\* an untouched one is to be put back without a backup that was not filled.
SnapOrig(p) ==
  \A s \in Services :
    /\ snap[p].bak[s] # NoBackup => bak[s] = snap[p].bak[s]
    /\ Pristine(snap[p].file[s]) => snap[p].file[s] = orig[s] \/ snap[p].bak[s] = Empty
    /\ snap[p].bak[s] = NoBackup /\ Pristine(file[s]) => file[s] = orig[s]

OrigAt(p) ==
  /\ Rewriting(p) => ~Pristine(buf[p])
  /\ pc[p] = "fill" => file[cur[p]] = orig[cur[p]]
  /\ pc[p] = "put" => buf[p] = orig[cur[p]] \/ Torn(cur[p])
  /\ cmd[p].op = "setup" /\ pc[p] # "snapshot" => SnapOrig(p)

OrigInv ==
  /\ orig \in [Services -> Stacks] /\ SameUnlessTorn
  /\ \A s \in Services : bak[s] = NoBackup \/ Torn(s) \/ bak[s] = orig[s]
  /\ \A p \in Procs : Active(p) => OrigAt(p)

LEMMA StripOfUntouched == \A x \in Stacks : Pristine(x) => Strip(x) = x
  BY DEF Stacks, Pristine, Hooked, Strip

LEMMA HookedIsTouched ==
  \A x \in Stacks : ~Pristine(AddStanza(x)) /\ ~Pristine(Rewrite(x))
  BY HooksAndCalls DEF Pristine

LEMMA NoBackupIsNotTorn == NoBackup # Empty
  BY PamFilesAssumption, StackEdits

LEMMA OrigInit == Init => OrigInv
PROOF
  <1> SUFFICES ASSUME Init PROVE OrigInv
    OBVIOUS
  <1>1. orig \in [Services -> Stacks]
    BY TypedInit DEF Init, Typed, FileTypes
  <1> QED  BY <1>1 DEF Init, OrigInv, SameUnlessTorn, Active

\* What a step of p has to establish.
LEMMA OrigFrom ==
  ASSUME Typed, OrigInv, NEW p \in Procs, Active(p) \/ Quiet,
         \A q \in Procs \ {p} : pc'[q] = pc[q], orig' \in [Services -> Stacks],
         SameUnlessTorn', \A s \in Services : bak'[s] = NoBackup \/ Torn(s)' \/ bak'[s] = orig'[s],
         Active(p)' => OrigAt(p)'
  PROVE  OrigInv'
  BY NoOther DEF OrigInv

\* A step that touches no file keeps all but what it says of its own place.
LEMMA OrigStill ==
  ASSUME Typed, OrigInv, NEW p \in Procs, Active(p) \/ Quiet,
         \A q \in Procs \ {p} : pc'[q] = pc[q], UNCHANGED <<file, bak, orig>>,
         Active(p)' => OrigAt(p)'
  PROVE  OrigInv'
  BY OrigFrom DEF OrigInv, SameUnlessTorn, Torn

LEMMA OrigStart ==
  ASSUME Typed, OrigInv, NEW p \in Procs, NEW m \in Commands, Start(p, m)
  PROVE  OrigInv'
PROOF
  <1> USE DEF Typed, FileTypes, ProcTypes
  <1>1. /\ UNCHANGED <<file, bak, orig>> /\ Quiet /\ pc[p] = "ready"
        /\ cmd' = [cmd EXCEPT ![p] = m]
    BY DEF Start, fsVars
  <1>2. /\ \E l \in {"read", "lookup", "snapshot", "sweep"} : pc' = [pc EXCEPT ![p] = l]
        /\ m.op = "setup" => pc' = [pc EXCEPT ![p] = "snapshot"]
    <2>1. m.op \in Ops
      BY PamFilesAssumption
    <2>2. CASE m.op \in {"enable", "disable"}
      BY <2>2 DEF Start, Goto
    <2>3. CASE m.op = "setup"
      BY <2>3 DEF Start, Goto
    <2>4. CASE m.op = "uninstall"
      BY <2>4 DEF Start, Goto
    <2> QED  BY <2>1, <2>2, <2>3, <2>4 DEF Ops
  <1>3. OrigAt(p)'
    BY <1>1, <1>2 DEF OrigAt, Rewriting
  <1> QED  BY <1>1, <1>2, <1>3, OrigStill

LEMMA OrigEnable ==
  ASSUME Typed, WayInv, OrigInv, NEW p \in Procs,
         ReadStack(p) \/ OpenBackup(p) \/ FillBackup(p) \/ WriteStack(p)
  PROVE  OrigInv'
PROOF
  <1> USE DEF Typed, FileTypes, ProcTypes
  <1>1. /\ Active(p) /\ pc[p] \in {"read", "backup", "fill", "write"}
        /\ Standing(p) /\ cur[p] \in Services /\ OrigAt(p) /\ Inside(p)
        /\ UNCHANGED <<cmd, ret, cur, snap>> /\ \A q \in Procs \ {p} : pc'[q] = pc[q]
    BY DEF ReadStack, OpenBackup, FillBackup, WriteStack, Active, Ended, ControlInv, Locals,
           OrigInv, WayInv, Return, Goto
  <1>2. cmd[p].op = "setup" => SnapOrig(p) /\ (pc[p] = "fill" => snap[p].bak[cur[p]] = NoBackup)
    BY <1>1 DEF OrigAt, Inside, Kept
  <1>3. CASE ReadStack(p)
    <2>1. UNCHANGED <<file, bak, orig>> /\ pc[p] = "read"
      BY <1>3 DEF ReadStack, fsVars
    <2>2. \/ pc'[p] = ret[p] /\ UNCHANGED buf
          \/ pc'[p] = "backup" /\ buf'[p] = AddStanza(file[cur[p]])
      BY <1>3 DEF ReadStack, Return, Goto
    <2>3. (Rewriting(p) => ~Pristine(buf[p]))' /\ pc'[p] \notin {"fill", "put"}
      BY <1>1, <2>2, HookedIsTouched DEF Rewriting, Standing
    <2>4. OrigAt(p)'
      BY <1>1, <1>2, <2>1, <2>3 DEF OrigAt, SnapOrig
    <2> QED  BY <1>1, <2>1, <2>4, OrigStill
  <1>4. CASE OpenBackup(p)
    <2>1. /\ UNCHANGED <<file, orig, buf>> /\ pc[p] = "backup" /\ Rewriting(p)
          /\ \/ /\ pc'[p] = "fill" /\ bak' = [bak EXCEPT ![cur[p]] = Empty]
                /\ bak[cur[p]] = NoBackup
             \/ pc'[p] = "write" /\ UNCHANGED bak
      BY <1>4 DEF OpenBackup, Goto, NeedsBackup, Rewriting
    <2>2. CASE pc'[p] = "write"
      <3>1. OrigAt(p)'
        BY <1>1, <1>2, <2>1, <2>2 DEF OrigAt, SnapOrig, Rewriting
      <3> QED  BY <1>1, <2>1, <2>2, <3>1, OrigStill
    <2>3. CASE pc'[p] = "fill"
      <3>1. file[cur[p]] = orig[cur[p]]
        BY <1>1, <2>1, <2>3, NoBackupIsNotTorn DEF OrigInv, SameUnlessTorn, Torn, WayInv, Saved
      <3>2. SameUnlessTorn' /\ \A s \in Services : bak'[s] = NoBackup \/ Torn(s)' \/ bak'[s] = orig'[s]
        BY <1>1, <2>1, <2>3 DEF OrigInv, SameUnlessTorn, Torn
      <3>3. cmd[p].op = "setup" => SnapOrig(p)'
        BY <1>1, <1>2, <2>1, <2>3 DEF SnapOrig
      <3>4. OrigAt(p)'
        BY <1>1, <2>1, <2>3, <3>1, <3>3 DEF OrigAt, Rewriting
      <3> QED  BY <1>1, <2>1, <3>2, <3>4, OrigFrom DEF OrigInv
    <2> QED  BY <2>1, <2>2, <2>3
  <1>5. CASE FillBackup(p)
    <2>1. /\ UNCHANGED <<file, orig, buf>> /\ pc[p] = "fill" /\ pc'[p] = "write" /\ Rewriting(p)
          /\ bak' = [bak EXCEPT ![cur[p]] = file[cur[p]]]
      BY <1>5 DEF FillBackup, Goto, Rewriting
    <2>2. file[cur[p]] = orig[cur[p]]
      BY <1>1, <2>1 DEF OrigAt
    <2>3. SameUnlessTorn' /\ \A s \in Services : bak'[s] = NoBackup \/ Torn(s)' \/ bak'[s] = orig'[s]
      BY <1>1, <2>1, <2>2 DEF OrigInv, SameUnlessTorn, Torn
    <2>4. cmd[p].op = "setup" => SnapOrig(p)'
      BY <1>1, <1>2, <2>1 DEF SnapOrig
    <2>5. OrigAt(p)'
      BY <1>1, <2>1, <2>4 DEF OrigAt, Rewriting
    <2> QED  BY <1>1, <2>1, <2>3, <2>5, OrigFrom DEF OrigInv
  <1>6. CASE WriteStack(p)
    <2>1. /\ UNCHANGED <<bak, buf>> /\ pc[p] = "write" /\ pc'[p] = ret[p]
          /\ file' = [file EXCEPT ![cur[p]] = buf[p]]
      BY <1>6 DEF WriteStack, Return, Goto
    <2>2. /\ orig' \in [Services -> Stacks]
          /\ \A s \in Services : orig'[s] # orig[s] => s = cur[p] /\ Torn(s)
      BY <1>1, <1>6 DEF WriteStack, OrigInv, SameUnlessTorn
    <2>3. ~Pristine(buf[p]) /\ ret[p] \in {"done", "migrate", "enable"}
      BY <1>1, <2>1 DEF OrigAt, Rewriting, Standing
    <2>4. SameUnlessTorn' /\ \A s \in Services : bak'[s] = NoBackup \/ Torn(s)' \/ bak'[s] = orig'[s]
      BY <1>1, <2>1, <2>2, <2>3 DEF OrigInv, SameUnlessTorn, Torn
    <2>5. cmd[p].op = "setup" => SnapOrig(p)'
      <3> SUFFICES ASSUME cmd[p].op = "setup", NEW s \in Services
                   PROVE  /\ snap[p].bak[s] # NoBackup => bak[s] = snap[p].bak[s]
                          /\ Pristine(snap[p].file[s]) =>
                               snap[p].file[s] = orig'[s] \/ snap[p].bak[s] = Empty
                          /\ snap[p].bak[s] = NoBackup /\ Pristine(file'[s]) => file'[s] = orig'[s]
        BY <1>1, <2>1 DEF SnapOrig
      <3>1. CASE orig'[s] = orig[s]
        BY <1>1, <1>2, <2>1, <2>3, <3>1 DEF SnapOrig
      <3>2. CASE orig'[s] # orig[s]
        <4>1. s = cur[p] /\ bak[s] = Empty /\ Pristine(file[s]) /\ file[s] # orig[s]
          BY <1>1, <1>6, <2>2, <3>2 DEF Torn, WriteStack, OrigInv
        <4>2. snap[p].bak[s] = Empty
          BY <1>2, <4>1 DEF SnapOrig
        <4> QED  BY <1>1, <1>2, <2>1, <2>3, <4>1, <4>2 DEF SnapOrig
      <3> QED  BY <3>1, <3>2
    <2>6. OrigAt(p)'
      BY <1>1, <2>1, <2>3, <2>5 DEF OrigAt, Rewriting
    <2> QED  BY <1>1, <2>2, <2>4, <2>6, OrigFrom
  <1> QED  BY <1>3, <1>4, <1>5, <1>6

LEMMA OrigDisable ==
  ASSUME Typed, WayInv, OrigInv, NEW p \in Procs,
         Lookup(p) \/ Put(p) \/ Refresh(p) \/ WriteManifest(p)
  PROVE  OrigInv'
PROOF
  <1> USE DEF Typed, FileTypes, ProcTypes
  <1>1. /\ Active(p) /\ pc[p] \in {"lookup", "put", "refresh", "list"}
        /\ Standing(p) /\ (pc[p] \in {"lookup", "put"} => cur[p] \in Services) /\ OrigAt(p)
        /\ UNCHANGED <<bak, orig, cmd, ret, cur, snap>> /\ \A q \in Procs \ {p} : pc'[q] = pc[q]
    BY DEF Lookup, Put, Refresh, WriteManifest, Active, Ended, ControlInv, Locals,
           OrigInv, Return, Goto, fsVars
  <1>2. CASE Lookup(p)
    <2>1. /\ pc[p] = "lookup" /\ pc'[p] = "put" /\ UNCHANGED file
          /\ buf' = [buf EXCEPT ![p] = WayBack(cur[p])]
      BY <1>2 DEF Lookup, fsVars, Goto
    <2>2. WayBack(cur[p]) = orig[cur[p]] \/ Torn(cur[p])
      <3>1. CASE bak[cur[p]] = NoBackup
        <4>1. Pristine(file[cur[p]]) /\ file[cur[p]] \in Stacks
          BY <1>1, <2>1, <3>1 DEF WayInv, Saved
        <4> QED  BY <1>1, <2>1, <3>1, <4>1, StripOfUntouched DEF WayBack, OrigInv, SameUnlessTorn
      <3>2. CASE bak[cur[p]] # NoBackup
        BY <1>1, <2>1, <3>2 DEF WayBack, OrigInv
      <3> QED  BY <3>1, <3>2
    <2>3. OrigAt(p)'
      BY <1>1, <2>1, <2>2 DEF OrigAt, SnapOrig, Rewriting, Torn, Standing
    <2> QED  BY <1>1, <2>1, <2>3, OrigStill
  <1>3. CASE Put(p)
    <2>1. /\ pc[p] = "put" /\ pc'[p] = "refresh" /\ cmd[p].op # "setup"
          /\ file' = [file EXCEPT ![cur[p]] = buf[p]]
      BY <1>1, <1>3 DEF Put, Goto, AfterPut, Standing
    <2>2. OrigAt(p)'
      BY <1>1, <2>1 DEF OrigAt, Rewriting
    <2>3. SameUnlessTorn'
      BY <1>1, <2>1 DEF OrigInv, OrigAt, SameUnlessTorn, Torn
    <2> QED  BY <1>1, <2>2, <2>3, OrigFrom DEF OrigInv, Torn
  <1>4. CASE Refresh(p) \/ WriteManifest(p)
    <2>1. pc[p] \in {"refresh", "list"} /\ UNCHANGED file /\ pc'[p] \in {"list", ret[p]}
      BY <1>4 DEF Refresh, WriteManifest, fsVars, Return, Goto
    <2>2. OrigAt(p)'
      BY <1>1, <2>1 DEF OrigAt, SnapOrig, Rewriting, Standing
    <2> QED  BY <1>1, <2>1, <2>2, OrigStill
  <1> QED  BY <1>2, <1>3, <1>4

LEMMA OrigSetup ==
  ASSUME Typed, OrigInv, NEW p \in Procs,
         TakeSnapshot(p) \/ Migrate(p) \/ SkipUnreadable(p) \/ EnableNext(p)
  PROVE  OrigInv'
PROOF
  <1> USE DEF Typed, FileTypes, ProcTypes
  <1>1. /\ Active(p) /\ Locals(p) /\ OrigAt(p) /\ cmd[p].op = "setup"
        /\ pc[p] \in {"snapshot", "migrate", "enable"}
        /\ UNCHANGED <<file, bak, orig, cmd>> /\ \A q \in Procs \ {p} : pc'[q] = pc[q]
    BY DEF TakeSnapshot, Migrate, SkipUnreadable, EnableNext, Active, Ended, ControlInv,
           OrigInv, Standing, fsVars, Goto
  <1>2. CASE TakeSnapshot(p)
    <2>1. /\ pc'[p] = "migrate"
          /\ snap'[p] = [file |-> file, bak |-> bak, manifest |-> manifest]
      BY <1>2 DEF TakeSnapshot, Goto
    <2>2. SnapOrig(p)'
      BY <1>1, <2>1, NoBackupIsNotTorn DEF SnapOrig, OrigInv, SameUnlessTorn, Torn
    <2>3. OrigAt(p)'
      BY <2>1, <2>2 DEF OrigAt, Rewriting
    <2> QED  BY <1>1, <2>3, OrigStill
  <1>3. CASE Migrate(p)
    <2>1. pc[p] = "migrate" /\ todo[p] \subseteq Services /\ UNCHANGED snap
      BY <1>1, <1>3 DEF Migrate, Locals
    <2>2. \/ pc'[p] \in {"migrate", "refresh"}
          \/ \E s \in todo[p] : pc'[p] = "backup" /\ buf'[p] = Rewrite(file[s])
      BY <1>3 DEF Migrate, Goto
    <2>3. (Rewriting(p) => ~Pristine(buf[p]))'
      BY <2>1, <2>2, HookedIsTouched DEF Rewriting
    <2>4. OrigAt(p)'
      BY <1>1, <2>1, <2>2, <2>3 DEF OrigAt, SnapOrig
    <2> QED  BY <1>1, <2>4, OrigStill
  <1>4. CASE SkipUnreadable(p) \/ EnableNext(p)
    <2>1. /\ pc[p] \in {"migrate", "enable"} /\ UNCHANGED snap
          /\ pc'[p] \in {"migrate", "read", "done"}
      BY <1>4 DEF SkipUnreadable, EnableNext, Goto
    <2>2. OrigAt(p)'
      BY <1>1, <2>1 DEF OrigAt, SnapOrig, Rewriting
    <2> QED  BY <1>1, <2>2, OrigStill
  <1> QED  BY <1>2, <1>3, <1>4

LEMMA OrigFail ==
  ASSUME Typed, WayInv, OrigInv, NEW p \in Procs, Fail(p) \/ FailToRemove(p) \/ Crash(p)
  PROVE  OrigInv'
PROOF
  <1> USE DEF Typed, FileTypes, ProcTypes
  <1>1. /\ Active(p) /\ OrigAt(p) /\ Inside(p) /\ Locals(p)
        /\ UNCHANGED <<file, orig, cmd, cur, snap>>
    BY DEF Fail, FailToRemove, Crash, Active, Ended, OrigInv, WayInv, ControlInv, fsVars
  <1>2. /\ pc'[p] \in {"restore", "error", "dead"} /\ \A q \in Procs \ {p} : pc'[q] = pc[q]
        /\ pc'[p] = "restore" => cmd[p].op = "setup" /\ pc[p] # "snapshot"
        /\ \/ UNCHANGED bak
           \/ pc[p] = "fill" /\ bak' = [bak EXCEPT ![cur[p]] = NoBackup]
    BY DEF Fail, FailToRemove, GiveUp, Crash, Goto, fsVars
  <1>3. CASE UNCHANGED bak
    <2>1. Active(p)' => OrigAt(p)'
      BY <1>1, <1>2, <1>3 DEF OrigAt, SnapOrig, Rewriting, Active, Ended
    <2> QED  BY <1>1, <1>2, <1>3, <2>1, OrigStill
  <1>4. CASE pc[p] = "fill" /\ bak' = [bak EXCEPT ![cur[p]] = NoBackup]
    <2>1. cur[p] \in Services /\ file[cur[p]] = orig[cur[p]]
      BY <1>1, <1>4 DEF OrigAt, Locals
    <2>2. SameUnlessTorn' /\ \A s \in Services : bak'[s] = NoBackup \/ Torn(s)' \/ bak'[s] = orig'[s]
      BY <1>1, <1>4, <2>1 DEF OrigInv, SameUnlessTorn, Torn
    <2>3. Active(p)' => OrigAt(p)'
      <3> SUFFICES ASSUME Active(p)' PROVE OrigAt(p)'
        OBVIOUS
      <3>1. pc'[p] = "restore" /\ cmd[p].op = "setup" /\ pc[p] # "snapshot"
        BY <1>2 DEF Active, Ended
      <3>2. SnapOrig(p) /\ snap[p].bak[cur[p]] = NoBackup
        BY <1>1, <1>4, <3>1 DEF OrigAt, Inside, Kept
      <3>3. SnapOrig(p)'
        BY <1>1, <1>4, <2>1, <3>2 DEF SnapOrig
      <3> QED  BY <3>1, <3>3 DEF OrigAt, Rewriting
    <2> QED  BY <1>1, <1>2, <2>2, <2>3, OrigFrom DEF OrigInv
  <1> QED  BY <1>2, <1>3, <1>4

LEMMA OrigRollback ==
  ASSUME Typed, WayInv, OrigInv, NEW p \in Procs,
         Restore(p) \/ Clean(p) \/ MissArtifacts(p) \/ Relist(p)
  PROVE  OrigInv'
PROOF
  <1> USE DEF Typed, FileTypes, ProcTypes
  <1>1. /\ Active(p) /\ Locals(p) /\ OrigAt(p) /\ Inside(p) /\ cmd[p].op = "setup"
        /\ pc[p] \in {"restore", "clean", "relist"}
        /\ UNCHANGED <<orig, cmd, cur, snap>> /\ \A q \in Procs \ {p} : pc'[q] = pc[q]
    BY DEF Restore, Clean, MissArtifacts, Relist, Active, Ended, ControlInv, Standing, OrigInv,
           WayInv, Goto
  <1>2. SnapOrig(p) /\ Kept(p)
    BY <1>1 DEF OrigAt, Inside
  <1>3. pc'[p] \in {"restore", "clean", "relist", "rolled", "error"}
    BY <1>1 DEF Restore, Clean, MissArtifacts, Relist, Goto
  <1>4. /\ \A s \in Services : file'[s] = file[s] \/ file'[s] = snap[p].file[s]
        /\ \A s \in Services : bak'[s] = bak[s] \/ (snap[p].bak[s] = NoBackup /\ bak'[s] = NoBackup)
    <2>1. CASE Restore(p)
      <3>1. /\ \/ UNCHANGED file
               \/ \E s \in Services : file' = [file EXCEPT ![s] = snap[p].file[s]]
            /\ \/ UNCHANGED bak
               \/ \E s \in Services : /\ snap[p].bak[s] # NoBackup
                                      /\ bak' = [bak EXCEPT ![s] = snap[p].bak[s]]
        <4>1. \A i \in todo[p] : /\ i[2] \in Services
                                 /\ i[1] = "backup" => snap[p].bak[i[2]] # NoBackup
          BY <1>1, <2>1 DEF Restore, Locals, ToRestore
        <4> QED  BY <2>1, <4>1 DEF Restore
      <3> QED  BY <1>2, <3>1 DEF SnapOrig
    <2>2. CASE Clean(p)
      <3>1. /\ UNCHANGED file
            /\ UNCHANGED bak \/ \E s \in todo[p] : bak' = [bak EXCEPT ![s] = NoBackup]
        BY <2>2 DEF Clean
      <3>2. \A s \in todo[p] : snap[p].bak[s] = NoBackup
        BY <1>2, <2>2 DEF Kept, Clean
      <3> QED  BY <3>1, <3>2
    <2>3. CASE MissArtifacts(p) \/ Relist(p)
      BY <2>3 DEF MissArtifacts, Relist, fsVars
    <2> QED  BY <2>1, <2>2, <2>3
  <1>5. SnapOrig(p)'
    BY <1>1, <1>2, <1>4, NoBackupIsNotTorn DEF SnapOrig
  <1>6. SameUnlessTorn'
    BY <1>1, <1>2, <1>4, NoBackupIsNotTorn DEF SnapOrig, OrigInv, SameUnlessTorn, Torn
  <1>7. \A s \in Services : bak'[s] = NoBackup \/ Torn(s)' \/ bak'[s] = orig'[s]
    BY <1>1, <1>4 DEF OrigInv, Torn
  <1>8. OrigAt(p)'
    BY <1>3, <1>5 DEF OrigAt, Rewriting
  <1> QED  BY <1>1, <1>6, <1>7, <1>8, OrigFrom DEF OrigInv

LEMMA OrigUninstall ==
  ASSUME Typed, OrigInv, NEW p \in Procs, Sweep(p) \/ CopyBack(p)
  PROVE  OrigInv'
PROOF
  <1> USE DEF Typed, FileTypes, ProcTypes
  <1>1. /\ Active(p) /\ Locals(p) /\ OrigAt(p) /\ cmd[p].op = "uninstall"
        /\ pc[p] \in {"sweep", "copyback"}
        /\ UNCHANGED <<bak, orig, cmd>> /\ \A q \in Procs \ {p} : pc'[q] = pc[q]
        /\ pc'[p] \in {"sweep", "lookup", "copyback", "done"}
    BY DEF Sweep, CopyBack, Active, Ended, ControlInv, Standing, OrigInv, Goto, fsVars
  <1>2. OrigAt(p)'
    BY <1>1 DEF OrigAt, Rewriting
  <1>3. SameUnlessTorn'
    <2>1. \/ UNCHANGED file
          \/ \E s \in todo[p] : bak[s] # NoBackup /\ file' = [file EXCEPT ![s] = bak[s]]
      BY DEF Sweep, CopyBack, fsVars
    <2>2. todo[p] \subseteq Services
      BY <1>1 DEF Locals
    <2> QED  BY <1>1, <2>1, <2>2 DEF OrigInv, SameUnlessTorn, Torn
  <1> QED  BY <1>1, <1>2, <1>3, OrigFrom DEF OrigInv, Torn

LEMMA OrigStep ==
  ASSUME Typed, WayInv, OrigInv, edits' = 0, [Next]_vars
  PROVE  OrigInv'
PROOF
  <1>1. ASSUME NEW s \in Services, Edit(s) PROVE FALSE
    BY <1>1, edits' = 0 DEF Edit, Typed, CountTypes
  <1>2. CASE UNCHANGED vars
    BY <1>2 DEF vars, fsVars, procVars, OrigInv, SameUnlessTorn, Torn, Active, OrigAt, SnapOrig,
       Rewriting
  <1> QED  BY <1>1, <1>2, OrigStart, OrigEnable, OrigDisable, OrigSetup, OrigFail,
              OrigRollback, OrigUninstall DEF Next, Step

\* Nobody takes an edit back.
LEMMA EditsStay == Typed /\ [Next]_vars /\ edits # 0 => edits' # 0
PROOF
  <1> SUFFICES ASSUME Typed, [Next]_vars, edits # 0 PROVE edits' # 0
    OBVIOUS
  <1>1. ASSUME NEW s \in Services, Edit(s) PROVE edits' # 0
    BY <1>1 DEF Edit, Typed, CountTypes
  <1>2. ASSUME NEW p \in Procs, Step(p) PROVE UNCHANGED edits
    <2>1. CASE Restore(p) \/ Clean(p) \/ MissArtifacts(p) \/ Relist(p) \/ Fail(p)
               \/ FailToRemove(p) \/ Sweep(p) \/ CopyBack(p) \/ Crash(p)
               \/ \E m \in Commands : Start(p, m)
      BY <2>1 DEF Restore, Clean, MissArtifacts, Relist, Fail, FailToRemove, Sweep, CopyBack,
         Crash, Start, countVars
    <2>2. CASE ReadStack(p) \/ OpenBackup(p) \/ FillBackup(p) \/ WriteStack(p) \/ Lookup(p)
               \/ Put(p) \/ Refresh(p) \/ WriteManifest(p)
      BY <2>2 DEF ReadStack, OpenBackup, FillBackup, WriteStack, Lookup, Put, Refresh,
         WriteManifest, countVars
    <2>3. CASE TakeSnapshot(p) \/ Migrate(p) \/ SkipUnreadable(p) \/ EnableNext(p)
      BY <2>3 DEF TakeSnapshot, Migrate, SkipUnreadable, EnableNext, countVars
    <2> QED  BY <1>2, <2>1, <2>2, <2>3 DEF Step
  <1> QED  BY <1>1, <1>2 DEF Next, vars, countVars

\* The step that gives a stack back.
LEMMA GivenBack ==
  ASSUME Typed, OrigInv, [Next]_vars, edits' = 0, NEW p \in Procs, NEW s \in Services,
         ~Torn(s), pc[p] \in {"put", "copyback"}, file'[s] # file[s]
  PROVE  file'[s] = orig[s]
PROOF
  <1> USE DEF Typed, FileTypes, ProcTypes
  <1>1. Active(p) /\ OrigAt(p) /\ Locals(p) /\ \A q \in Procs : Active(q) => q = p
    BY DEF Active, Ended, OrigInv, ControlInv
  <1>2. ASSUME NEW t \in Services, Edit(t) PROVE FALSE
    BY <1>2, edits' = 0 DEF Edit, CountTypes
  <1>3. Put(p) \/ CopyBack(p)
    <2>1. PICK q \in Procs : Step(q)
      BY <1>2 DEF Next, vars, fsVars
    <2>2. WriteStack(q) \/ Put(q) \/ Restore(q) \/ CopyBack(q)
      BY <2>1 DEF Step, Start, ReadStack, OpenBackup, FillBackup, Lookup, Refresh, WriteManifest,
             TakeSnapshot, Migrate, SkipUnreadable, EnableNext, Fail, FailToRemove, Clean,
             MissArtifacts, Relist, Sweep, Crash, fsVars
    <2>3. q = p
      BY <1>1, <2>2 DEF WriteStack, Put, Restore, CopyBack, Active, Ended
    <2> QED  BY <2>2, <2>3 DEF WriteStack, Restore
  <1>4. bak[s] # NoBackup => bak[s] = orig[s]
    BY DEF OrigInv
  <1>5. CASE Put(p)
    BY <1>1, <1>5 DEF Put, OrigAt
  <1>6. CASE CopyBack(p)
    <2>1. \E t \in todo[p] : bak[t] # NoBackup /\ file' = [file EXCEPT ![t] = bak[t]]
      BY <1>6 DEF CopyBack
    <2> QED  BY <1>1, <1>4, <2>1
  <1> QED  BY <1>3, <1>5, <1>6

\* Where nobody edits a stack, pam disable and the uninstaller give back every
\* stack as IRAuth found it, after any sequence of commands, errors and kills, until
\* a rollback reported that it was incomplete, unless the stack's backup is one
\* that create_backup_once opened and never filled.
THEOREM DisableGivesBack == Spec => DisableRestores
PROOF
  <1> DEFINE Exact == RollbackIncomplete \/ edits # 0 \/ OrigInv
  <1>1. Init => RollbackIncomplete \/ WayInv
    BY WayInit
  <1>2. Init => Exact
    BY OrigInit
  <1>3. Typed /\ (RollbackIncomplete \/ WayInv) /\ Exact /\ [Next]_vars => Exact'
    BY OrigStep, IncompleteStays, EditsStay
  <1>4. Typed /\ Exact /\ [Next]_vars =>
          [\A p \in Procs, s \in Services :
             (/\ ~RollbackIncomplete /\ ~Torn(s) /\ edits' = 0
              /\ pc[p] \in {"put", "copyback"} /\ file'[s] # file[s]) => file'[s] = orig[s]]_vars
    BY GivenBack, EditsStay
  <1> HIDE DEF Exact
  <1> QED  BY TypedInit, TypedStep, WayStep, <1>1, <1>2, <1>3, <1>4, PTL DEF Spec, DisableRestores
=============================================================================

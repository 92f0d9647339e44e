----------------------------- MODULE SetupProofs -----------------------------
(***************************************************************************)
(* Proofs about Setup, for any services, cameras, systems and bounds.       *)
(***************************************************************************)
EXTENDS Setup, TLAPS

-----------------------------------------------------------------------------
(* Which step each number stands for.                                       *)

LEMMA Numbers ==
  /\ DOMAIN Script = {"install", "setup", "uninstall"}
  /\ Len(Script["setup"]) = 17 /\ DOMAIN Script["setup"] = 1..17
  /\ Len(Script["install"]) = 7 /\ DOMAIN Script["install"] = 1..7
  /\ Len(Script["uninstall"]) = 10 /\ DOMAIN Script["uninstall"] = 1..10
  BY DEF Script, SettingUp, Installing, Uninstalling

LEMMA SetupSteps ==
  ASSUME cmd = "setup", Active, TypeOK
  PROVE  /\ pc \in 1..17
         /\ On("preflight") <=> pc = 1
         /\ On("models") <=> pc = 2
         /\ On("camera") <=> pc = 3
         /\ On("groups") <=> pc = 4
         /\ On("place") <=> pc \in {5, 9, 11}
         /\ On("mark") <=> pc \in {6, 10, 12}
         /\ On("face") <=> pc = 7
         /\ On("direct") <=> pc = 8
         /\ On("vhci") <=> pc = 13
         /\ On("enable") <=> pc = 14
         /\ On("ready") <=> pc = 15
         /\ On("validate") <=> pc = 16
         /\ On("stacks") <=> pc = 17
         /\ ~On("restore") /\ ~On("stop") /\ ~On("config") /\ ~On("programs")
         /\ ~On("remove") /\ ~On("unmark")
         /\ pc \in {5, 6} => This = "howdy"
         /\ pc \in {9, 10} => This = "passkey"
         /\ pc \in {11, 12} => This = "modules"
PROOF
  <1>1. pc \in 1..17
    BY Numbers DEF TypeOK, Active
  <1>2. Script[cmd][pc] = SettingUp[pc]
    BY DEF Script
  <1>3. /\ SettingUp[1][1] = "preflight" /\ SettingUp[2][1] = "models"
        /\ SettingUp[3][1] = "camera" /\ SettingUp[4][1] = "groups"
        /\ SettingUp[5][1] = "place" /\ SettingUp[6][1] = "mark"
        /\ SettingUp[7][1] = "face" /\ SettingUp[8][1] = "direct"
        /\ SettingUp[9][1] = "place" /\ SettingUp[10][1] = "mark"
        /\ SettingUp[11][1] = "place" /\ SettingUp[12][1] = "mark"
        /\ SettingUp[13][1] = "vhci" /\ SettingUp[14][1] = "enable"
        /\ SettingUp[15][1] = "ready" /\ SettingUp[16][1] = "validate"
        /\ SettingUp[17][1] = "stacks"
    BY DEF SettingUp, At, Placing, Marking, Removing
  <1>4. /\ SettingUp[5][2] = "howdy" /\ SettingUp[6][2] = "howdy"
        /\ SettingUp[9][2] = "passkey" /\ SettingUp[10][2] = "passkey"
        /\ SettingUp[11][2] = "modules" /\ SettingUp[12][2] = "modules"
    BY DEF SettingUp, Placing, Marking, Removing
  <1> QED  BY <1>1, <1>2, <1>3, <1>4 DEF On, This

LEMMA InstallSteps ==
  ASSUME cmd = "install", Active, TypeOK
  PROVE  /\ pc \in 1..7
         /\ On("place") <=> pc \in {2, 4, 6}
         /\ On("mark") <=> pc \in {3, 5, 7}
         /\ On("programs") <=> pc = 1
         /\ ~On("preflight") /\ ~On("models") /\ ~On("camera") /\ ~On("groups")
         /\ ~On("face") /\ ~On("direct") /\ ~On("vhci") /\ ~On("enable")
         /\ ~On("ready") /\ ~On("validate") /\ ~On("stacks") /\ ~On("restore")
         /\ ~On("stop") /\ ~On("config") /\ ~On("remove") /\ ~On("unmark")
         /\ pc \in {2, 3} => This = "unit"
         /\ pc \in {4, 5} => This = "rules"
         /\ pc \in {6, 7} => This = "passkey"
PROOF
  <1>1. pc \in 1..7
    BY Numbers DEF TypeOK, Active
  <1>2. Script[cmd][pc] = Installing[pc]
    BY DEF Script
  <1>3. /\ Installing[1][1] = "programs" /\ Installing[2][1] = "place"
        /\ Installing[3][1] = "mark" /\ Installing[4][1] = "place"
        /\ Installing[5][1] = "mark" /\ Installing[6][1] = "place"
        /\ Installing[7][1] = "mark"
    BY DEF Installing, At, Placing, Marking, Removing
  <1>4. /\ Installing[2][2] = "unit" /\ Installing[3][2] = "unit"
        /\ Installing[4][2] = "rules" /\ Installing[5][2] = "rules"
        /\ Installing[6][2] = "passkey" /\ Installing[7][2] = "passkey"
    BY DEF Installing, Placing, Marking, Removing
  <1> QED  BY <1>1, <1>2, <1>3, <1>4 DEF On, This

LEMMA UninstallSteps ==
  ASSUME cmd = "uninstall", Active, TypeOK
  PROVE  /\ pc \in 1..10
         /\ On("restore") <=> pc = 1
         /\ On("stop") <=> pc = 2
         /\ On("config") <=> pc = 3
         /\ On("programs") <=> pc = 4
         /\ On("remove") <=> pc \in {5, 6, 7, 8, 9}
         /\ On("unmark") <=> pc = 10
         /\ ~On("preflight") /\ ~On("models") /\ ~On("camera") /\ ~On("groups")
         /\ ~On("place") /\ ~On("mark") /\ ~On("face") /\ ~On("direct")
         /\ ~On("vhci") /\ ~On("enable") /\ ~On("ready") /\ ~On("validate")
         /\ ~On("stacks")
         /\ pc = 5 => This = "unit"
         /\ pc = 6 => This = "rules"
         /\ pc = 7 => This = "modules"
         /\ pc = 8 => This = "howdy"
         /\ pc = 9 => This = "passkey"
PROOF
  <1>1. pc \in 1..10
    BY Numbers DEF TypeOK, Active
  <1>2. Script[cmd][pc] = Uninstalling[pc]
    BY DEF Script
  <1>3. /\ Uninstalling[1][1] = "restore" /\ Uninstalling[2][1] = "stop"
        /\ Uninstalling[3][1] = "config" /\ Uninstalling[4][1] = "programs"
        /\ Uninstalling[5][1] = "remove" /\ Uninstalling[6][1] = "remove"
        /\ Uninstalling[7][1] = "remove" /\ Uninstalling[8][1] = "remove"
        /\ Uninstalling[9][1] = "remove" /\ Uninstalling[10][1] = "unmark"
    BY DEF Uninstalling, At, Placing, Marking, Removing
  <1>4. /\ Uninstalling[5][2] = "unit" /\ Uninstalling[6][2] = "rules"
        /\ Uninstalling[7][2] = "modules" /\ Uninstalling[8][2] = "howdy"
        /\ Uninstalling[9][2] = "passkey"
    BY DEF Uninstalling, Placing, Marking, Removing
  <1> QED  BY <1>1, <1>2, <1>3, <1>4 DEF On, This

\* The command, and the step of its script, that a kind of step belongs to.
LEMMA StepOf ==
  ASSUME TypeOK
  PROVE  /\ \A x : On(x) => Active
         /\ Active => cmd \in {"install", "setup", "uninstall"}
         /\ On("preflight") => cmd = "setup" /\ pc = 1
         /\ On("models") => cmd = "setup" /\ pc = 2
         /\ On("camera") => cmd = "setup" /\ pc = 3
         /\ On("groups") => cmd = "setup" /\ pc = 4
         /\ On("face") => cmd = "setup" /\ pc = 7
         /\ On("direct") => cmd = "setup" /\ pc = 8
         /\ On("vhci") => cmd = "setup" /\ pc = 13
         /\ On("enable") => cmd = "setup" /\ pc = 14
         /\ On("ready") => cmd = "setup" /\ pc = 15
         /\ On("validate") => cmd = "setup" /\ pc = 16
         /\ On("stacks") => cmd = "setup" /\ pc = 17
         /\ On("restore") => cmd = "uninstall" /\ pc = 1
         /\ On("stop") => cmd = "uninstall" /\ pc = 2
         /\ On("config") => cmd = "uninstall" /\ pc = 3
         /\ On("programs") => (cmd = "uninstall" /\ pc = 4) \/ (cmd = "install" /\ pc = 1)
         /\ On("remove") => cmd = "uninstall" /\ pc \in 5..9
         /\ On("unmark") => cmd = "uninstall" /\ pc = 10
         /\ On("place") => \/ cmd = "setup" /\ pc \in {5, 9, 11}
                           \/ cmd = "install" /\ pc \in {2, 4, 6}
         /\ On("mark") => \/ cmd = "setup" /\ pc \in {6, 10, 12}
                          \/ cmd = "install" /\ pc \in {3, 5, 7}
PROOF
  <1>1. /\ \A x : On(x) => Active
        /\ Active => cmd \in {"install", "setup", "uninstall"}
    BY Numbers DEF TypeOK, On, Active
  <1>2. CASE Active /\ cmd = "setup"
    BY <1>1, <1>2, SetupSteps
  <1>3. CASE Active /\ cmd = "install"
    BY <1>1, <1>3, InstallSteps
  <1>4. CASE Active /\ cmd = "uninstall"
    BY <1>1, <1>4, UninstallSteps
  <1>5. CASE ~Active
    BY <1>1, <1>5
  <1> QED  BY <1>1, <1>2, <1>3, <1>4, <1>5

\* A step on in the script, or two after a file that needs no marker.
LEMMA Moves ==
  ASSUME TypeOK, Active, NEW n \in {1, 2}, Ahead(n), n = 2 => On("place")
  PROVE  /\ cmd' = cmd
         /\ \/ pc' = pc + n /\ result' = result
            \/ pc' = 0 /\ result' = "done"
         /\ pc' # 0 => pc' \in DOMAIN Script[cmd']
         /\ pc' = 0 /\ cmd = "setup" => pc = 17
         /\ pc' = 0 /\ cmd = "uninstall" => pc = 10
PROOF
  <1>1. cmd' = cmd /\ pc \in Nat /\ pc > 0
    BY DEF Ahead, TypeOK, Active
  <1>2. CASE cmd = "setup"
    <2>1. pc \in 1..17 /\ (n = 2 => pc \in {5, 9, 11})
      BY <1>2, SetupSteps
    <2> QED  BY <1>1, <1>2, <2>1, Numbers DEF Ahead
  <1>3. CASE cmd = "install"
    <2>1. pc \in 1..7
      BY <1>3, InstallSteps
    <2> QED  BY <1>1, <1>3, <2>1, Numbers DEF Ahead
  <1>4. CASE cmd = "uninstall"
    <2>1. pc \in 1..10 /\ n = 1
      BY <1>4, UninstallSteps
    <2> QED  BY <1>1, <1>4, <2>1, Numbers DEF Ahead
  <1> QED  BY <1>2, <1>3, <1>4, StepOf

-----------------------------------------------------------------------------
(* Types.                                                                   *)

CmdOK ==
  /\ cmd \in {"none"} \cup DOMAIN Script
  /\ pc \in Nat /\ (pc # 0 => cmd \in DOMAIN Script /\ pc \in DOMAIN Script[cmd])
  /\ result \in {"none", "done", "error", "refused", "nohowdy", "dead"}

LEMMA AheadTyped ==
  ASSUME TypeOK, Active, NEW n \in {1, 2}, Ahead(n), n = 2 => On("place")
  PROVE  CmdOK'
PROOF
  <1>1. /\ cmd' = cmd
        /\ \/ pc' = pc + n /\ result' = result
           \/ pc' = 0 /\ result' = "done"
        /\ pc' # 0 => pc' \in DOMAIN Script[cmd']
    BY Moves
  <1>2. pc \in Nat /\ pc # 0 /\ cmd \in DOMAIN Script
    BY DEF TypeOK, Active
  <1>3. pc' \in Nat
    BY <1>1, <1>2
  <1> QED  BY <1>1, <1>2, <1>3 DEF TypeOK, CmdOK

LEMMA EndTyped ==
  ASSUME TypeOK, NEW r \in {"error", "refused", "nohowdy", "dead"}, End(r)
  PROVE  CmdOK'
  BY DEF End, TypeOK, CmdOK

LEMMA SameTyped ==
  ASSUME TypeOK, UNCHANGED cmdVars
  PROVE  CmdOK'
  BY DEF cmdVars, TypeOK, CmdOK

LEMMA CmdStep == TypeOK /\ [Next]_vars => CmdOK'
PROOF
  <1> SUFFICES ASSUME TypeOK, [Next]_vars PROVE CmdOK'
    OBVIOUS
  <1>1. ASSUME NEW m \in DOMAIN Script, Start(m) PROVE CmdOK'
    BY <1>1, Numbers DEF Start, CmdOK
  <1>2. CASE PlaceInstalling \/ PlaceSetup \/ PlaceHowdy
    BY <1>2, StepOf, AheadTyped, EndTyped DEF PlaceInstalling, PlaceSetup, PlaceHowdy, Create
  <1>3. CASE Mark \/ Remove \/ Unmark \/ Programs
    BY <1>3, StepOf, AheadTyped, EndTyped DEF Mark, Remove, Unmark, Programs
  <1>4. CASE Preflight \/ BindCamera
    BY <1>4, StepOf, AheadTyped, EndTyped DEF Preflight, BindCamera
  <1>5. CASE RepairModels \/ EnsureGroups \/ LoadVhci
    BY <1>5, StepOf, AheadTyped DEF RepairModels, EnsureGroups, LoadVhci, Provide
  <1>6. CASE ScanOpens
    BY <1>6, SameTyped DEF ScanOpens
  <1>7. CASE ScanEnds \/ ScanSkipped
    BY <1>7, StepOf, AheadTyped, EndTyped DEF ScanEnds, ScanSkipped
  <1>8. CASE EnableDaemon \/ WaitReady \/ Validate \/ Stack
    BY <1>8, StepOf, AheadTyped, EndTyped
    DEF EnableDaemon, WaitReady, DeadlinePasses, Validate, Stack
  <1>9. CASE Restore \/ StopDaemon \/ RestoreConfig
    BY <1>9, StepOf, AheadTyped, SameTyped DEF Restore, StopDaemon, RestoreConfig
  <1>10. CASE Fail \/ Kill \/ Reboot
    BY <1>10, EndTyped, SameTyped DEF Fail, Kill, Reboot, Killed
  <1>11. CASE DaemonUp \/ DaemonFails \/ DaemonScan \/ Change \/ OwnFile \/ Login
    BY <1>11, SameTyped DEF DaemonUp, DaemonFails, DaemonScan, Change, OwnFile, Login
  <1>12. CASE UNCHANGED vars
    BY <1>12, SameTyped DEF vars
  <1> QED  BY <1>1, <1>2, <1>3, <1>4, <1>5, <1>6, <1>7, <1>8, <1>9, <1>10, <1>11, <1>12
           DEF Next, Step, World


\* What a transaction makes of the stacks and the backups.
LEMMA HookTyped ==
  ASSUME TypeOK, NEW T \in SUBSET Services
  PROVE  /\ BackUps(T) \in [Services -> Stacks \cup {NoBackup}]
         /\ \A b \in [Services -> Stacks \cup {NoBackup}] : Hook(T, b) =>
              /\ stack' \in [Services -> Stacks]
              /\ bak' \in [Services -> Stacks \cup {NoBackup}]
PROOF
  <1>1. \A x \in Stacks : Rewrite(x) \in Stacks /\ AddStanza(x) \in Stacks
    BY DEF Stacks, Rewrite, AddStanza
  <1>2. \A x \in Stacks : Through(x) \in Stacks
    BY <1>1 DEF Through
  <1> QED  BY <1>2 DEF Hook, BackUps, TypeOK

LEMMA StacksTyped ==
  ASSUME TypeOK, (On("stacks") /\ HalfWay) \/ Hook(Services, BackUps(Services)) \/ UNCHANGED pamVars
  PROVE  /\ stack' \in [Services -> Stacks]
         /\ bak' \in [Services -> Stacks \cup {NoBackup}]
PROOF
  <1>1. Services \in SUBSET Services
    OBVIOUS
  <1>2. CASE Hook(Services, BackUps(Services))
    BY <1>1, <1>2, HookTyped
  <1>3. CASE UNCHANGED pamVars
    BY <1>3 DEF TypeOK, pamVars
  <1>4. ASSUME NEW T \in SUBSET Services, Hook(T, BackUps(T))
        PROVE  /\ stack' \in [Services -> Stacks]
               /\ bak' \in [Services -> Stacks \cup {NoBackup}]
    BY <1>4, HookTyped
  <1>5. ASSUME NEW T \in SUBSET Services, NEW s \in Services, NEW x \in {Empty, stack[s]},
               Hook(T, [BackUps(T) EXCEPT ![s] = x])
        PROVE  /\ stack' \in [Services -> Stacks]
               /\ bak' \in [Services -> Stacks \cup {NoBackup}]
    <2>1. BackUps(T) \in [Services -> Stacks \cup {NoBackup}]
      BY HookTyped
    <2>2. x \in Stacks
      <3>1. Empty \in Stacks
        BY DEF Empty, Plain, Stacks
      <3>2. stack[s] \in Stacks
        BY DEF TypeOK
      <3> QED  BY <3>1, <3>2
    <2> DEFINE b == [BackUps(T) EXCEPT ![s] = x]
    <2>3. b \in [Services -> Stacks \cup {NoBackup}]
      BY <2>1, <2>2
    <2>4. Hook(T, b)
      BY <1>5
    <2> HIDE DEF b
    <2> QED  BY <2>3, <2>4, HookTyped
  <1> QED  BY <1>2, <1>3, <1>4, <1>5 DEF HalfWay

LEMMA TypeInit == Init => TypeOK
PROOF
  <1> SUFFICES ASSUME Init PROVE TypeOK
    OBVIOUS
  <1>1. PICK y \in SystemTypes :
          /\ file = [f \in Managed |-> IF f \in y.foreign THEN "foreign" ELSE "none"]
          /\ stack = [s \in Services |-> Plain(1, s \in y.howdy)]
          /\ config = y.config /\ strict = y.strict /\ host = y.host
    BY SetupAssumption DEF Init
  <1>2. file \in [Managed -> {"none", "ours", "foreign"}]
    BY <1>1
  <1>3. stack \in [Services -> Stacks]
    BY <1>1 DEF Plain, Stacks
  <1>4. config \in Cameras \cup {NoCamera} /\ strict \subseteq Cameras /\ host \subseteq Parts
    BY <1>1 DEF SystemTypes
  <1>5. left \in [Spendable -> Nat]
    BY SetupAssumption DEF Init
  <1> QED  BY <1>2, <1>3, <1>4, <1>5 DEF Init, TypeOK

LEMMA TypeStep == TypeOK /\ [Next]_vars => TypeOK'
PROOF
  <1> SUFFICES ASSUME TypeOK, [Next]_vars PROVE TypeOK'
    OBVIOUS
  <1>1. CmdOK'
    BY CmdStep
  <1> USE DEF TypeOK, CmdOK
  <1>2. ASSUME NEW m \in DOMAIN Script, Start(m) PROVE TypeOK'
    <2>1. rerun' \in BOOLEAN
      BY <1>2 DEF Start
    <2>2. left' \in [Spendable -> Nat]
      BY <1>2 DEF Start, Spend, Spendable
    <2> QED  BY <1>1, <1>2, <2>1, <2>2 DEF Start, ownVars, pamVars, hostVars, runVars
  <1>3. CASE PlaceInstalling \/ PlaceSetup \/ PlaceHowdy
    <2>1. ASSUME NEW f, NEW l \in Services \cup {"none"}, Create(f, l)
          PROVE  file' \in [Managed -> {"none", "ours", "foreign"}]
                 /\ line' \in Services \cup {"none"}
      BY <2>1 DEF Create
    <2>2. /\ file' \in [Managed -> {"none", "ours", "foreign"}]
          /\ line' \in Services \cup {"none"}
      BY <1>3, <2>1 DEF PlaceInstalling, PlaceSetup, PlaceHowdy, Discoverable
    <2> QED  BY ZenonT(60), <1>1, <1>3, <2>2 DEF PlaceInstalling, PlaceSetup, PlaceHowdy,
               pamVars, hostVars, runVars, histVars
  <1>4. CASE Mark
    <2>1. cmd \in {"install", "setup"} /\ Active
      BY <1>4, StepOf DEF Mark
    <2>2. This \in Managed
      BY <1>4, <2>1, InstallSteps, SetupSteps, StepOf DEF Mark, Managed
    <2> QED  BY <1>1, <1>4, <2>2 DEF Mark, pamVars, hostVars, runVars, histVars
  <1>5. CASE Remove \/ Unmark \/ Programs
    <2>1. CASE Remove
      BY ZenonT(60), <1>1, <2>1 DEF Remove, pamVars, hostVars, runVars, histVars
    <2>2. CASE Unmark
      BY <1>1, <2>2 DEF Unmark, pamVars, hostVars, runVars, histVars
    <2>3. CASE Programs
      <3>1. installed' \in BOOLEAN /\ host' \subseteq Parts
        BY <2>3 DEF Programs, Parts, Packages
      <3>2. UNCHANGED <<file, marker, line, pamVars, config, cbak, strict, runVars, lens, left,
                        histVars>>
        BY <2>3 DEF Programs
      <3> QED  BY <1>1, <3>1, <3>2 DEF pamVars, runVars, histVars
    <2> QED  BY <1>5, <2>1, <2>2, <2>3
  <1>6. CASE Preflight \/ BindCamera
    BY ZenonT(60), <1>1, <1>6 DEF Preflight, BindCamera, ownVars, pamVars, hostVars, runVars, histVars
  <1>7. CASE RepairModels \/ EnsureGroups \/ LoadVhci
    BY ZenonT(60), <1>1, <1>7 DEF RepairModels, EnsureGroups, LoadVhci, Provide, Provides, Things,
      ownVars, pamVars, hostVars, histVars
  <1>8. CASE ScanOpens \/ ScanEnds \/ ScanSkipped
    BY ZenonT(60), <1>1, <1>8 DEF ScanOpens, ScanEnds, ScanSkipped, Things,
      cmdVars, ownVars, pamVars, hostVars, runVars, histVars
  <1>9. CASE EnableDaemon \/ WaitReady \/ Validate
    BY ZenonT(60), <1>1, <1>9 DEF EnableDaemon, WaitReady, Validate,
      ownVars, pamVars, hostVars, runVars, histVars
  <1>10. CASE Stack
    BY <1>1, <1>10, StacksTyped DEF Stack, ownVars, hostVars, runVars, histVars
  <1>11. CASE Restore
    BY <1>1, <1>11 DEF Restore, cmdVars, ownVars, hostVars, runVars, histVars
  <1>12. CASE StopDaemon \/ RestoreConfig
    BY ZenonT(60), <1>1, <1>12 DEF StopDaemon, RestoreConfig, ownVars, pamVars, hostVars, runVars,
       histVars
  <1>13. CASE Fail
    BY <1>1, <1>13 DEF Fail, Spend, Spendable, ownVars, pamVars, hostVars, runVars
  <1>14. ASSUME Killed PROVE /\ stack' \in [Services -> Stacks]
                             /\ bak' \in [Services -> Stacks \cup {NoBackup}]
                             /\ cut' \in BOOLEAN
    BY <1>14, StacksTyped DEF Killed, Between
  <1>15. CASE Kill
    BY <1>1, <1>14, <1>15 DEF Kill, Spend, Spendable, ownVars, hostVars, runVars
  <1>16. CASE Reboot
    BY <1>1, <1>14, <1>16 DEF Reboot, Spend, Spendable, Things, ownVars, hostVars
  <1>17. CASE DaemonUp \/ DaemonFails \/ DaemonScan
    <2>1. CASE DaemonUp
      BY <1>1, <2>1 DEF DaemonUp, ownVars, pamVars, hostVars, histVars
    <2>2. CASE DaemonFails
      BY <1>1, <2>2 DEF DaemonFails, Spend, Spendable, ownVars, pamVars, hostVars
    <2>3. CASE DaemonScan
      <3>1. lens' \subseteq {"setup", "daemon"}
        BY <2>3 DEF DaemonScan
      <3>2. UNCHANGED <<ownVars, pamVars, hostVars, runVars, left, histVars>>
        BY <2>3 DEF DaemonScan
      <3> QED  BY <1>1, <3>1, <3>2 DEF ownVars, pamVars, hostVars, runVars, histVars
    <2> QED  BY <1>17, <2>1, <2>2, <2>3
  <1>18. CASE Change
    BY <1>1, <1>18 DEF Change, Spend, Spendable, Parts, Packages, ownVars, pamVars, runVars
  <1>19. CASE OwnFile
    BY <1>1, <1>19 DEF OwnFile, Spend, Spendable, pamVars, hostVars, runVars, histVars
  <1>20. CASE Login
    BY <1>1, <1>20 DEF Login, ownVars, pamVars, hostVars, histVars
  <1>21. CASE UNCHANGED vars
    BY <1>1, <1>21 DEF vars, ownVars, pamVars, hostVars, runVars, histVars
  <1> QED
    BY <1>2, <1>3, <1>4, <1>5, <1>6, <1>7, <1>8, <1>9, <1>10, <1>11, <1>12, <1>13,
       <1>15, <1>16, <1>17, <1>18, <1>19, <1>20, <1>21 DEF Next, Step, World


-----------------------------------------------------------------------------
(* The progress of a setup.                                                 *)

\* What a step of setup leaves behind when it goes on.
Gained ==
  /\ pc = 1 => strict' # {} /\ Packages \subseteq host'
  /\ pc = 2 => "models" \in ready'
  /\ pc = 3 => config' \in strict'
  /\ pc = 4 => "groups" \in ready'
  /\ pc = 5 => file'["howdy"] # "none" /\ Discoverable # {}
  /\ pc = 9 => file'["passkey"] # "none"
  /\ pc = 13 => "vhci" \in ready'
  /\ pc = 14 => atboot' /\ file'["unit"] # "none"
  /\ pc = 15 => daemon' = "up"

OnWith == pc # 0 /\ pc' # 0 =>
  \/ pc' = pc
  \/ pc' = pc + 1 /\ Gained
  \/ pc' = pc + 2 /\ pc \in {5, 9, 11} /\ Gained

\* A setup goes on only by doing what its step is there for.
LEMMA SetupGains == TypeOK /\ [Next]_vars /\ cmd = "setup" => OnWith
PROOF
  <1> SUFFICES ASSUME TypeOK, [Next]_vars, cmd = "setup", pc # 0, pc' # 0, pc' # pc
               PROVE  \/ pc' = pc + 1 /\ Gained
                      \/ pc' = pc + 2 /\ pc \in {5, 9, 11} /\ Gained
    BY DEF OnWith
  <1>1. /\ Active /\ pc \in 1..17
        /\ "howdy" \in Managed /\ "passkey" \in Managed /\ "unit" \in Managed
        /\ file \in [Managed -> {"none", "ours", "foreign"}]
    BY SetupSteps DEF Active, Managed, TypeOK
  <1>2. ASSUME Ahead(1) PROVE pc' = pc + 1
    BY <1>1, <1>2, Moves
  <1>3. ASSUME Ahead(2), On("place") PROVE pc' = pc + 2
    BY <1>1, <1>3, Moves
  <1>4. \A r : ~End(r)
    BY DEF End
  <1>5. ASSUME NEW m \in DOMAIN Script, Start(m) PROVE FALSE
    BY <1>1, <1>5 DEF Start
  <1>6. CASE PlaceInstalling
    BY <1>6 DEF PlaceInstalling
  <1>7. CASE PlaceSetup
    <2>1. pc \in {9, 11} /\ (pc = 9 => This = "passkey")
      BY <1>1, <1>7, SetupSteps DEF PlaceSetup
    <2>2. /\ pc' = pc + 1 \/ pc' = pc + 2
          /\ pc = 9 => file'["passkey"] # "none"
      BY <1>1, <1>2, <1>3, <1>4, <1>7, <2>1 DEF PlaceSetup, Create
    <2> QED  BY <2>1, <2>2 DEF Gained
  <1>8. CASE PlaceHowdy
    <2>1. pc = 5
      BY <1>1, <1>8, SetupSteps DEF PlaceHowdy
    <2>2. /\ pc' = pc + 1 \/ pc' = pc + 2
          /\ file'["howdy"] # "none" /\ Discoverable # {}
      BY <1>1, <1>2, <1>3, <1>4, <1>8, <2>1 DEF PlaceHowdy, Create
    <2> QED  BY <2>1, <2>2 DEF Gained
  <1>9. CASE Mark
    BY <1>1, <1>2, <1>9, SetupSteps DEF Mark, Gained
  <1>10. CASE Remove \/ Unmark \/ Programs \/ Restore \/ StopDaemon \/ RestoreConfig
    BY <1>1, <1>10, SetupSteps DEF Remove, Unmark, Programs, Restore, StopDaemon, RestoreConfig
  <1>11. CASE Preflight
    BY <1>1, <1>2, <1>4, <1>11, SetupSteps DEF Preflight, hostVars, Gained
  <1>12. CASE BindCamera
    BY <1>1, <1>2, <1>4, <1>12, SetupSteps DEF BindCamera, Gained
  <1>13. CASE RepairModels \/ EnsureGroups \/ LoadVhci
    BY <1>1, <1>2, <1>13, SetupSteps
    DEF RepairModels, EnsureGroups, LoadVhci, Provide, Provides, Gained
  <1>14. CASE ScanOpens
    BY <1>14 DEF ScanOpens, cmdVars
  <1>15. CASE ScanEnds \/ ScanSkipped
    <2>1. pc \in {7, 8} /\ pc' = pc + 1
      BY <1>1, <1>2, <1>4, <1>15, SetupSteps DEF ScanEnds, ScanSkipped
    <2> QED  BY <2>1 DEF Gained
  <1>16. CASE EnableDaemon
    BY <1>1, <1>2, <1>4, <1>16, SetupSteps DEF EnableDaemon, ownVars, Gained
  <1>17. CASE WaitReady
    BY <1>1, <1>2, <1>4, <1>17, SetupSteps DEF WaitReady, DeadlinePasses, runVars, Gained
  <1>18. CASE Validate
    BY <1>1, <1>2, <1>4, <1>18, SetupSteps DEF Validate, Gained
  <1>19. CASE Stack
    BY <1>1, <1>2, <1>19, SetupSteps DEF Stack, Gained
  <1>20. CASE Fail \/ Kill \/ Reboot
    BY <1>1, <1>4, <1>20 DEF Fail, Kill, Reboot, Killed
  <1>21. CASE DaemonUp \/ DaemonFails \/ DaemonScan \/ Change \/ OwnFile \/ Login
    BY <1>21 DEF DaemonUp, DaemonFails, DaemonScan, Change, OwnFile, Login, cmdVars
  <1>22. CASE UNCHANGED vars
    BY <1>22 DEF vars, cmdVars
  <1> QED
    BY <1>5, <1>6, <1>7, <1>8, <1>9, <1>10, <1>11, <1>12, <1>13, <1>14, <1>15, <1>16,
       <1>17, <1>18, <1>19, <1>20, <1>21, <1>22 DEF Next, Step, World


\* What no command but the uninstaller takes back.
Kept ==
  /\ installed => installed'
  /\ atboot => atboot'
  /\ \A f \in Managed : file[f] # "none" => file'[f] # "none"
KeptReady ==
  /\ \A x \in {"groups", "models"} : x \in ready => x \in ready'
  /\ pc' # 0 /\ "vhci" \in ready => "vhci" \in ready'

LEMMA KeptByAll ==
  TypeOK /\ [Next]_vars =>
    /\ cmd # "uninstall" \/ pc \in {0, 1} => Kept
    /\ KeptReady
PROOF
  <1> SUFFICES ASSUME TypeOK, [Next]_vars
               PROVE  (cmd # "uninstall" \/ pc \in {0, 1} => Kept) /\ KeptReady
    OBVIOUS
  <1> USE DEF Kept, KeptReady
  <1>1. file \in [Managed -> {"none", "ours", "foreign"}]
    BY DEF TypeOK
  <1>2. ASSUME NEW m \in DOMAIN Script, Start(m) PROVE Kept /\ KeptReady
    BY <1>2 DEF Start, ownVars, runVars
  <1>3. CASE PlaceInstalling \/ PlaceSetup \/ PlaceHowdy
    BY <1>1, <1>3 DEF PlaceInstalling, PlaceSetup, PlaceHowdy, Create, runVars
  <1>4. CASE Mark \/ Unmark
    BY <1>4 DEF Mark, Unmark, runVars
  <1>5. CASE Remove
    BY <1>5, StepOf DEF Remove, runVars
  <1>6. CASE Programs
    <2>1. CASE cmd = "install"
      BY <1>6, <2>1 DEF Programs, runVars
    <2>2. CASE cmd = "uninstall" /\ pc = 4
      BY <1>6, <2>2 DEF Programs, runVars
    <2> QED  BY <1>6, <2>1, <2>2, StepOf DEF Programs
  <1>7. CASE Preflight \/ BindCamera
    BY <1>7 DEF Preflight, BindCamera, ownVars, runVars
  <1>8. CASE RepairModels \/ EnsureGroups \/ LoadVhci
    BY <1>8 DEF RepairModels, EnsureGroups, LoadVhci, Provide, ownVars
  <1>9. CASE ScanOpens \/ ScanEnds \/ ScanSkipped
    BY <1>9 DEF ScanOpens, ScanEnds, ScanSkipped, ownVars, runVars
  <1>10. CASE EnableDaemon \/ WaitReady \/ Validate \/ Stack
    BY <1>10 DEF EnableDaemon, WaitReady, Validate, Stack, ownVars, runVars
  <1>11. CASE Restore \/ RestoreConfig
    BY <1>11 DEF Restore, RestoreConfig, ownVars, runVars
  <1>12. CASE StopDaemon
    BY <1>12, StepOf DEF StopDaemon, ownVars
  <1>13. CASE Fail \/ Kill
    BY <1>13 DEF Fail, Kill, ownVars, runVars
  <1>14. CASE Reboot
    <2>1. pc' = 0
      BY <1>14 DEF Reboot, Killed, End, Active, cmdVars
    <2> QED  BY <1>14, <2>1 DEF Reboot, ownVars
  <1>15. CASE DaemonUp \/ DaemonFails \/ DaemonScan \/ Change \/ Login
    BY <1>15 DEF DaemonUp, DaemonFails, DaemonScan, Change, Login, ownVars, runVars
  <1>16. CASE OwnFile
    BY <1>1, <1>16 DEF OwnFile, runVars
  <1>17. CASE UNCHANGED vars
    BY <1>17 DEF vars, ownVars, runVars
  <1> QED
    BY <1>2, <1>3, <1>4, <1>5, <1>6, <1>7, <1>8, <1>9, <1>10, <1>11, <1>12, <1>13,
       <1>14, <1>15, <1>16, <1>17 DEF Next, Step, World

\* The command in progress is the same after a step, or has just been started.
LEMMA OneCommand ==
  TypeOK /\ [Next]_vars /\ pc' # 0 =>
    \/ cmd' = cmd /\ result' = result /\ pc # 0
    \/ pc = 0 /\ pc' = 1 /\ \E m \in DOMAIN Script : Start(m)
PROOF
  <1> SUFFICES ASSUME TypeOK, [Next]_vars, pc' # 0, \A m \in DOMAIN Script : ~Start(m)
               PROVE  cmd' = cmd /\ result' = result /\ pc # 0
    BY DEF Start, Active
  <1>1. ASSUME UNCHANGED cmdVars PROVE cmd' = cmd /\ result' = result /\ pc # 0
    BY <1>1 DEF cmdVars
  <1>2. CASE PlaceInstalling \/ PlaceSetup \/ PlaceHowdy
    BY <1>2 DEF PlaceInstalling, PlaceSetup, PlaceHowdy, Create, Ahead, End, On, Active
  <1>10. CASE Mark \/ Remove \/ Unmark \/ Programs
    BY <1>10 DEF Mark, Remove, Unmark, Programs, Ahead, End, On, Active
  <1>3. CASE Preflight \/ BindCamera \/ RepairModels \/ EnsureGroups \/ LoadVhci
    BY <1>3 DEF Preflight, BindCamera, RepairModels, EnsureGroups, LoadVhci, Provide,
      Ahead, End, On, Active
  <1>4. CASE ScanOpens \/ ScanEnds \/ ScanSkipped
    BY <1>1, <1>4 DEF ScanOpens, ScanEnds, ScanSkipped, Ahead, End, On, Active
  <1>5. CASE EnableDaemon \/ WaitReady \/ Validate \/ Stack
    BY <1>5 DEF EnableDaemon, WaitReady, DeadlinePasses, Validate, Stack,
      Ahead, End, On, Active
  <1>6. CASE Restore \/ StopDaemon \/ RestoreConfig
    BY <1>1, <1>6 DEF Restore, StopDaemon, RestoreConfig, Ahead, End, On, Active
  <1>7. CASE Fail \/ Kill \/ Reboot
    BY <1>1, <1>7 DEF Fail, Kill, Reboot, Killed, End
  <1>8. CASE DaemonUp \/ DaemonFails \/ DaemonScan \/ Change \/ OwnFile \/ Login
    BY <1>1, <1>8 DEF DaemonUp, DaemonFails, DaemonScan, Change, OwnFile, Login
  <1>9. CASE UNCHANGED vars
    BY <1>1, <1>9 DEF vars
  <1> QED  BY <1>2, <1>3, <1>4, <1>5, <1>6, <1>7, <1>8, <1>9, <1>10 DEF Next, Step, World

\* A setup that is at some step has done the steps before it.
ProgressInv ==
  cmd = "setup" /\ pc # 0 =>
    /\ installed
    /\ pc > 2 => "models" \in ready
    /\ pc > 4 => "groups" \in ready
    /\ pc > 5 => file["howdy"] # "none"
    /\ pc > 9 => file["passkey"] # "none"
    /\ pc > 13 => "vhci" \in ready
    /\ pc > 14 => atboot /\ file["unit"] # "none"

LEMMA ProgressStep == TypeOK /\ ProgressInv /\ [Next]_vars => ProgressInv'
PROOF
  <1> SUFFICES ASSUME TypeOK, ProgressInv, [Next]_vars, cmd' = "setup", pc' # 0
               PROVE  ProgressInv'
    BY DEF ProgressInv
  <1>1. CASE \E m \in DOMAIN Script : Start(m)
    BY <1>1 DEF Start, ownVars, ProgressInv
  <1>2. CASE ~\E m \in DOMAIN Script : Start(m)
    <2>1. cmd = "setup" /\ pc # 0
      BY <1>2, OneCommand
    <2>2. Kept /\ KeptReady
      BY <2>1, KeptByAll
    <2>3. \/ pc' = pc
          \/ pc' = pc + 1 /\ Gained
          \/ pc' = pc + 2 /\ pc \in {5, 9, 11} /\ Gained
      BY <2>1, SetupGains DEF OnWith
    <2>4. /\ pc \in 1..17
          /\ "howdy" \in Managed /\ "passkey" \in Managed /\ "unit" \in Managed
      BY <2>1, SetupSteps DEF Active, Managed
    <2>5. CASE pc' = pc
      BY <2>1, <2>2, <2>4, <2>5 DEF ProgressInv, Kept, KeptReady
    <2>6. CASE pc' = pc + 1 /\ Gained
      BY <2>1, <2>2, <2>4, <2>6 DEF ProgressInv, Kept, KeptReady, Gained
    <2>7. CASE pc' = pc + 2 /\ pc \in {5, 9, 11} /\ Gained
      BY <2>1, <2>2, <2>4, <2>7 DEF ProgressInv, Kept, KeptReady, Gained
    <2> QED  BY <2>3, <2>5, <2>6, <2>7
  <1> QED  BY <1>1, <1>2


\* And what it found stays so as long as nothing changes beside it.
FreshInv ==
  cmd = "setup" /\ pc # 0 /\ ~disturbed =>
    /\ pc > 1 => strict # {} /\ Packages \subseteq host
    /\ pc > 3 => config \in strict
    /\ pc > 15 => daemon = "up"

LEMMA FreshKept ==
  TypeOK /\ [Next]_vars /\ cmd = "setup" /\ pc # 0 /\ pc' # 0 /\ ~disturbed' =>
    /\ ~disturbed /\ strict' = strict /\ host' = host
    /\ pc > 3 => config' = config
    /\ daemon = "up" => daemon' = "up"
PROOF
  <1> SUFFICES ASSUME TypeOK, [Next]_vars, cmd = "setup", Active, pc' # 0, ~disturbed'
               PROVE  /\ ~disturbed /\ strict' = strict /\ host' = host
                      /\ pc > 3 => config' = config
                      /\ daemon = "up" => daemon' = "up"
    BY DEF Active
  <1>1. ASSUME NEW m \in DOMAIN Script, Start(m) PROVE FALSE
    BY <1>1 DEF Start
  <1>2. CASE PlaceInstalling \/ PlaceSetup \/ PlaceHowdy \/ Mark
    BY <1>2 DEF PlaceInstalling, PlaceSetup, PlaceHowdy, Mark, hostVars, runVars, histVars
  <1>3. CASE Remove \/ Unmark \/ Programs \/ Restore \/ StopDaemon \/ RestoreConfig
    BY <1>3, SetupSteps DEF Remove, Unmark, Programs, Restore, StopDaemon, RestoreConfig
  <1>4. CASE Preflight
    BY <1>4 DEF Preflight, hostVars, runVars, histVars
  <1>5. CASE BindCamera
    BY <1>5, SetupSteps DEF BindCamera, runVars, histVars
  <1>6. CASE RepairModels \/ EnsureGroups \/ LoadVhci
    BY <1>6 DEF RepairModels, EnsureGroups, LoadVhci, Provide, hostVars, histVars
  <1>7. CASE ScanOpens \/ ScanEnds \/ ScanSkipped
    BY <1>7 DEF ScanOpens, ScanEnds, ScanSkipped, hostVars, runVars, histVars
  <1>8. CASE EnableDaemon \/ WaitReady \/ Validate \/ Stack
    BY <1>8 DEF EnableDaemon, WaitReady, Validate, Stack, hostVars, runVars, histVars
  <1>9. CASE Fail \/ Kill \/ Reboot
    BY <1>9 DEF Fail, Kill, Reboot, Killed, End
  <1>10. CASE DaemonUp \/ DaemonFails \/ DaemonScan
    BY <1>10 DEF DaemonUp, DaemonFails, DaemonScan, hostVars, runVars, histVars
  <1>11. CASE Change \/ OwnFile \/ Login
    BY <1>11 DEF Change, OwnFile, Login, Active
  <1>12. CASE UNCHANGED vars
    BY <1>12 DEF vars, hostVars, runVars, histVars
  <1> QED  BY <1>1, <1>2, <1>3, <1>4, <1>5, <1>6, <1>7, <1>8, <1>9, <1>10, <1>11, <1>12
           DEF Next, Step, World

LEMMA FreshStep == TypeOK /\ FreshInv /\ [Next]_vars => FreshInv'
PROOF
  <1> SUFFICES ASSUME TypeOK, FreshInv, [Next]_vars, cmd' = "setup", pc' # 0, ~disturbed'
               PROVE  FreshInv'
    BY DEF FreshInv
  <1>1. CASE pc' = 1
    BY <1>1 DEF FreshInv
  <1>2. CASE pc' # 1
    <2>1. cmd = "setup" /\ pc # 0
      BY <1>2, OneCommand
    <2>2. /\ ~disturbed /\ strict' = strict /\ host' = host
          /\ pc > 3 => config' = config
          /\ daemon = "up" => daemon' = "up"
      BY <2>1, FreshKept
    <2>3. \/ pc' = pc
          \/ pc' = pc + 1 /\ Gained
          \/ pc' = pc + 2 /\ pc \in {5, 9, 11}
      BY <2>1, SetupGains DEF OnWith
    <2>4. pc \in 1..17
      BY <2>1, SetupSteps DEF Active
    <2> QED  BY <2>1, <2>2, <2>3, <2>4 DEF FreshInv, Gained
  <1> QED  BY <1>1, <1>2

-----------------------------------------------------------------------------
(* Stacks.                                                                  *)

\* The stack a service had before IRAuth changed it.
Origin(s) == IF bak[s] = NoBackup THEN stack[s] ELSE bak[s]

\* A stack without a backup was not changed; a backup has no hook; and where it is
\* not one that a kill left empty, the stack is what it was or what the transaction
\* makes of that.
StackInv ==
  \A s \in Services :
    /\ bak[s] = NoBackup => ~Hooked(stack[s])
    /\ bak[s] # NoBackup => ~Hooked(bak[s])
    /\ bak[s] \notin {NoBackup, Empty} => stack[s] \in {bak[s], Through(bak[s])}

\* There was a Howdy line, and it is there still unless a backup is empty.
LineKnown == \/ \E s \in Services : Origin(s).howdy
             \/ \E s \in Services : bak[s] = Empty

\* A backup is made by a setup that found a Howdy line.
FoundInv ==
  /\ (\E s \in Services : bak[s] # NoBackup) => LineKnown
  /\ cmd = "setup" /\ pc > 5 => LineKnown

LEMMA DiscoverableIsKnown ==
  ASSUME TypeOK, StackInv
  PROVE  /\ \A s \in Services : Origin(s).howdy => s \in Discoverable
         /\ Discoverable # {} => LineKnown
PROOF
  <1>1. \A s \in Services : Origin(s).howdy => s \in Discoverable
    BY DEF Discoverable, Origin
  <1>2. ASSUME NEW s \in Discoverable, bak[s] # Empty PROVE Origin(s).howdy
    <2>1. s \in Services
      BY <1>2 DEF Discoverable
    <2>2. CASE bak[s] = NoBackup
      BY <1>2, <2>2 DEF Discoverable, Origin
    <2>3. CASE bak[s] # NoBackup
      <3>1. bak[s] \in Stacks /\ stack[s] \in {bak[s], Through(bak[s])}
        BY <1>2, <2>1, <2>3 DEF StackInv, TypeOK
      <3>2. Through(bak[s]).howdy => bak[s].howdy
        BY <3>1 DEF Through, Direct, Rewrite, AddStanza, Stacks
      <3> QED  BY <1>2, <2>3, <3>1, <3>2 DEF Discoverable, Origin
    <2> QED  BY <2>2, <2>3
  <1>3. Discoverable \subseteq Services
    BY DEF Discoverable
  <1> QED  BY <1>1, <1>2, <1>3 DEF LineKnown

\* What a step may do to a stack and its backup: a hook and a backup come only from
\* setup's transaction.
Moved(s) ==
  /\ Hooked(stack'[s]) => Hooked(stack[s]) \/ On("stacks")
  /\ \/ bak'[s] = bak[s]
     \/ On("stacks") /\ bak[s] = NoBackup /\ bak'[s] \in {stack[s], Empty}
  /\ Origin(s)' = Origin(s) \/ bak'[s] = Empty
  /\ bak'[s] = NoBackup => ~Hooked(stack'[s])
  /\ bak'[s] # NoBackup => ~Hooked(bak'[s])
  /\ bak'[s] \notin {NoBackup, Empty} => stack'[s] \in {bak'[s], Through(bak'[s])}

\* A stack the transaction comes to, and one it does not: of the latter a backup may
\* have been begun.
LEMMA StackMoves ==
  ASSUME TypeOK, StackInv, NEW s \in Services, On("stacks"),
         \/ /\ stack'[s] = Through(stack[s])
            /\ bak'[s] = IF NeedsBackup(s) THEN stack[s] ELSE bak[s]
         \/ /\ stack'[s] = stack[s]
            /\ bak'[s] = bak[s] \/ (NeedsBackup(s) /\ bak'[s] \in {Empty, stack[s]})
  PROVE  Moved(s)
PROOF
  <1>1. stack[s] \in Stacks /\ bak[s] \in Stacks \cup {NoBackup} /\ NoBackup \notin Stacks
    BY SetupAssumption DEF TypeOK
  <1>2. Empty \in Stacks /\ ~Hooked(Empty)
    BY DEF Empty, Plain, Stacks, Hooked
  <1>3. \A x \in Stacks :
          Hooked(Through(x)) /\ ~Direct(Through(x)) /\ Through(Through(x)) = Through(x)
    <2> SUFFICES ASSUME NEW x \in Stacks
                 PROVE  /\ Hooked(Through(x)) /\ ~Direct(Through(x))
                        /\ Through(Through(x)) = Through(x)
      OBVIOUS
    <2>1. Hooked(Rewrite(x)) /\ ~Direct(Rewrite(x))
      BY DEF Direct, Rewrite, Hooked, Stacks
    <2>2. ~Direct(x) => Hooked(AddStanza(x)) /\ ~Direct(AddStanza(x))
      BY DEF Direct, AddStanza, Hooked, Stacks
    <2>3. Hooked(Through(x)) /\ ~Direct(Through(x))
      BY <2>1, <2>2 DEF Through
    <2> QED  BY <2>3 DEF Through
  <1>4. /\ bak[s] = NoBackup => ~Hooked(stack[s])
        /\ bak[s] # NoBackup => ~Hooked(bak[s])
        /\ bak[s] \notin {NoBackup, Empty} => stack[s] \in {bak[s], Through(bak[s])}
    BY DEF StackInv
  <1>5. bak[s] = NoBackup => NeedsBackup(s)
    BY <1>4 DEF NeedsBackup
  <1>6. CASE /\ stack'[s] = Through(stack[s])
             /\ bak'[s] = IF NeedsBackup(s) THEN stack[s] ELSE bak[s]
    <2>1. CASE bak[s] = NoBackup
      BY <1>1, <1>4, <1>5, <1>6, <2>1 DEF Moved, Origin
    <2>2. CASE bak[s] # NoBackup
      <3>1. bak'[s] = bak[s]
        BY <1>6, <2>2 DEF NeedsBackup
      <3> QED  BY <1>1, <1>3, <1>4, <1>6, <2>2, <3>1 DEF Moved, Origin
    <2> QED  BY <2>1, <2>2
  <1>7. CASE stack'[s] = stack[s] /\ bak'[s] = bak[s]
    BY <1>4, <1>7 DEF Moved, Origin
  <1>8. CASE stack'[s] = stack[s] /\ NeedsBackup(s) /\ bak'[s] \in {Empty, stack[s]}
    <2>1. bak[s] = NoBackup /\ bak'[s] # NoBackup
      BY <1>1, <1>2, <1>8 DEF NeedsBackup
    <2> QED  BY <1>2, <1>4, <1>8, <2>1 DEF Moved, Origin
  <1> QED  BY <1>6, <1>7, <1>8

LEMMA StacksMove ==
  ASSUME TypeOK, StackInv, [Next]_vars, NEW s \in Services
  PROVE  Moved(s)
PROOF
  <1>1. ASSUME UNCHANGED pamVars PROVE Moved(s)
    BY <1>1 DEF pamVars, Origin, StackInv, Moved
  <1>2. ASSUME Hook(Services, BackUps(Services)), On("stacks") PROVE Moved(s)
    <2>1. /\ stack'[s] = Through(stack[s])
          /\ bak'[s] = IF NeedsBackup(s) THEN stack[s] ELSE bak[s]
      BY <1>2 DEF Hook, BackUps
    <2> QED  BY <1>2, <2>1, StackMoves
  <1>3. ASSUME HalfWay, On("stacks") PROVE Moved(s)
    <2>1. PICK T \in SUBSET Services :
            \/ Hook(T, BackUps(T))
            \/ \E r \in Services \ T : /\ NeedsBackup(r)
                                      /\ \E x \in {Empty, stack[r]} :
                                           Hook(T, [BackUps(T) EXCEPT ![r] = x])
      BY <1>3 DEF HalfWay
    <2>2. /\ stack'[s] = IF s \in T THEN Through(stack[s]) ELSE stack[s]
          /\ BackUps(T)[s] = IF s \in T /\ NeedsBackup(s) THEN stack[s] ELSE bak[s]
          /\ DOMAIN BackUps(T) = Services
      BY <2>1 DEF Hook, BackUps
    <2>3. CASE Hook(T, BackUps(T))
      <3>1. bak'[s] = BackUps(T)[s]
        BY <2>3 DEF Hook
      <3> QED  BY <1>3, <2>2, <3>1, StackMoves
    <2>4. ASSUME NEW r \in Services \ T, NeedsBackup(r), NEW x \in {Empty, stack[r]},
                 Hook(T, [BackUps(T) EXCEPT ![r] = x])
          PROVE  Moved(s)
      <3>1. bak'[s] = IF s = r THEN x ELSE BackUps(T)[s]
        BY <2>2, <2>4 DEF Hook
      <3>2. CASE s = r
        <4>1. /\ stack'[s] = stack[s] /\ bak'[s] \in {Empty, stack[s]}
              /\ NeedsBackup(s)
          BY <2>2, <2>4, <3>1, <3>2
        <4> QED  BY <1>3, <4>1, StackMoves
      <3>3. CASE s # r
        BY <1>3, <2>2, <3>1, <3>3, StackMoves
      <3> QED  BY <3>2, <3>3
    <2> QED  BY <2>1, <2>3, <2>4
  <1>4. CASE Stack
    BY <1>2, <1>4 DEF Stack
  <1>5. CASE Restore
    <2>1. CASE UNCHANGED stack
      BY <1>1, <1>5, <2>1 DEF Restore, pamVars
    <2>2. CASE ~UNCHANGED stack
      <3>1. PICK r \in Services : bak[r] # NoBackup /\ stack' = [stack EXCEPT ![r] = bak[r]]
        BY <1>5, <2>2 DEF Restore
      <3>2. bak' = bak /\ stack \in [Services -> Stacks]
        BY <1>5 DEF Restore, TypeOK
      <3>3. /\ bak[s] = NoBackup => ~Hooked(stack[s])
            /\ bak[s] # NoBackup => ~Hooked(bak[s])
            /\ bak[s] \notin {NoBackup, Empty} => stack[s] \in {bak[s], Through(bak[s])}
        BY DEF StackInv
      <3>4. CASE s = r
        <4>1. stack'[s] = bak[s] /\ bak'[s] = bak[s] /\ bak[s] # NoBackup
          BY <3>1, <3>2, <3>4
        <4> QED  BY <3>3, <4>1 DEF Origin, Moved
      <3>5. CASE s # r
        <4>1. stack'[s] = stack[s] /\ bak'[s] = bak[s]
          BY <3>1, <3>2, <3>5
        <4> QED  BY <3>3, <4>1 DEF Origin, Moved
      <3> QED  BY <3>4, <3>5
    <2> QED  BY <2>1, <2>2
  <1>6. ASSUME NEW m \in DOMAIN Script, Start(m) PROVE Moved(s)
    BY <1>1, <1>6 DEF Start
  <1>7. CASE PlaceInstalling \/ PlaceSetup \/ PlaceHowdy \/ Mark \/ Remove \/ Unmark \/ Programs
    BY <1>1, <1>7 DEF PlaceInstalling, PlaceSetup, PlaceHowdy, Mark, Remove, Unmark, Programs
  <1>8. CASE Preflight \/ BindCamera \/ RepairModels \/ EnsureGroups \/ LoadVhci
    BY <1>1, <1>8 DEF Preflight, BindCamera, RepairModels, EnsureGroups, LoadVhci, Provide
  <1>9. CASE ScanOpens \/ ScanEnds \/ ScanSkipped \/ EnableDaemon \/ WaitReady \/ Validate
    BY <1>1, <1>9 DEF ScanOpens, ScanEnds, ScanSkipped, EnableDaemon, WaitReady, Validate
  <1>10. CASE StopDaemon \/ RestoreConfig \/ Fail
    BY <1>1, <1>10 DEF StopDaemon, RestoreConfig, Fail
  <1>11. CASE Kill \/ Reboot
    BY <1>1, <1>3, <1>11 DEF Kill, Reboot, Killed
  <1>12. CASE DaemonUp \/ DaemonFails \/ DaemonScan \/ Change \/ OwnFile \/ Login
    BY <1>1, <1>12 DEF DaemonUp, DaemonFails, DaemonScan, Change, OwnFile, Login
  <1>13. CASE UNCHANGED vars
    BY <1>1, <1>13 DEF vars
  <1> QED  BY <1>4, <1>5, <1>6, <1>7, <1>8, <1>9, <1>10, <1>11, <1>12, <1>13
           DEF Next, Step, World

LEMMA StackStep == TypeOK /\ StackInv /\ [Next]_vars => StackInv'
PROOF
  <1> SUFFICES ASSUME TypeOK, StackInv, [Next]_vars PROVE StackInv'
    OBVIOUS
  <1>1. \A s \in Services : Moved(s)
    BY StacksMove
  <1> QED  BY <1>1 DEF StackInv, Moved, Through, Direct, Rewrite, AddStanza, Hooked,
             Empty, Plain

\* The uninstaller leaves its first step only when every stack is restored.
LEMMA UninstallMoves ==
  ASSUME TypeOK, [Next]_vars, cmd = "uninstall", pc = 1, pc' \notin {0, 1}
  PROVE  Restore /\ UNCHANGED stack /\ \A t \in Services : bak[t] \in {NoBackup, stack[t]}
PROOF
  <1>1. Active
    BY DEF Active
  <1>2. CASE Restore
    BY <1>2 DEF Restore, cmdVars
  <1>3. ASSUME UNCHANGED pc PROVE FALSE
    BY <1>3
  <1>4. \A r : ~End(r)
    BY DEF End
  <1>5. ASSUME NEW m \in DOMAIN Script, Start(m) PROVE FALSE
    BY <1>1, <1>5 DEF Start
  <1>6. CASE PlaceInstalling \/ PlaceSetup \/ PlaceHowdy \/ Mark \/ Remove \/ Unmark \/ Programs
    BY <1>1, <1>6, UninstallSteps
    DEF PlaceInstalling, PlaceSetup, PlaceHowdy, Mark, Remove, Unmark, Programs
  <1>7. CASE Preflight \/ BindCamera \/ RepairModels \/ EnsureGroups \/ LoadVhci
    BY <1>1, <1>7, UninstallSteps
    DEF Preflight, BindCamera, RepairModels, EnsureGroups, LoadVhci, Provide
  <1>8. CASE ScanOpens \/ ScanEnds \/ ScanSkipped \/ EnableDaemon \/ WaitReady \/ Validate \/ Stack
    BY <1>1, <1>8, UninstallSteps
    DEF ScanOpens, ScanEnds, ScanSkipped, EnableDaemon, WaitReady, Validate, Stack
  <1>9. CASE StopDaemon \/ RestoreConfig
    BY <1>1, <1>9, UninstallSteps DEF StopDaemon, RestoreConfig
  <1>10. CASE Fail \/ Kill \/ Reboot
    BY <1>1, <1>4, <1>10 DEF Fail, Kill, Reboot, Killed
  <1>11. CASE DaemonUp \/ DaemonFails \/ DaemonScan \/ Change \/ OwnFile \/ Login
    BY <1>3, <1>11 DEF DaemonUp, DaemonFails, DaemonScan, Change, OwnFile, Login, cmdVars
  <1>12. CASE UNCHANGED vars
    BY <1>3, <1>12 DEF vars, cmdVars
  <1> QED  BY <1>2, <1>5, <1>6, <1>7, <1>8, <1>9, <1>10, <1>11, <1>12 DEF Next, Step, World

\* Nothing calls what the uninstaller has taken away.
ServedInv ==
  /\ HookedIsServed
  /\ cmd = "uninstall" /\ pc > 1 => \A s \in Services : ~Hooked(stack[s])

LEMMA ServedStep ==
  TypeOK /\ StackInv /\ ProgressInv /\ ServedInv /\ [Next]_vars => ServedInv'
PROOF
  <1> SUFFICES ASSUME TypeOK, StackInv, ProgressInv, ServedInv, [Next]_vars
               PROVE  ServedInv'
    OBVIOUS
  <1>1. \A s \in Services : Hooked(stack'[s]) => Hooked(stack[s]) \/ On("stacks")
    BY StacksMove DEF Moved
  <1>2. pc \in Nat /\ pc' \in Nat /\ (On("stacks") => cmd = "setup" /\ pc = 17)
    BY StepOf, TypeStep DEF TypeOK
  <1>3. ASSUME NEW s \in Services, Hooked(stack'[s])
        PROVE  /\ installed' /\ atboot' /\ "groups" \in ready'
               /\ file'["howdy"] # "none" /\ file'["unit"] # "none"
    <2>1. /\ installed /\ atboot /\ "groups" \in ready
          /\ file["howdy"] # "none" /\ file["unit"] # "none"
      BY <1>1, <1>2, <1>3 DEF ServedInv, HookedIsServed, ProgressInv
    <2>2. cmd # "uninstall" \/ pc \in {0, 1}
      BY <1>1, <1>2, <1>3 DEF ServedInv
    <2> QED  BY <2>1, <2>2, KeptByAll DEF Kept, KeptReady, Managed
  <1>4. ASSUME cmd' = "uninstall", pc' > 1, NEW s \in Services
        PROVE  ~Hooked(stack'[s])
    <2>1. cmd = "uninstall" /\ pc # 0
      BY <1>2, <1>4, OneCommand
    <2>2. CASE pc > 1
      BY <1>1, <1>2, <2>1, <2>2 DEF ServedInv
    <2>3. CASE pc = 1
      <3>1. Restore /\ UNCHANGED stack /\ \A t \in Services : bak[t] \in {NoBackup, stack[t]}
        BY <1>2, <1>4, <2>1, <2>3, UninstallMoves
      <3> QED  BY <3>1 DEF StackInv
    <2> QED  BY <1>2, <2>1, <2>2, <2>3
  <1> QED  BY <1>3, <1>4 DEF ServedInv, HookedIsServed


LEMMA FoundStep ==
  TypeOK /\ StackInv /\ FoundInv /\ [Next]_vars => FoundInv'
PROOF
  <1> SUFFICES ASSUME TypeOK, StackInv, FoundInv, [Next]_vars
               PROVE  FoundInv'
    OBVIOUS
  <1>1. ASSUME NEW s \in Services
        PROVE  /\ bak'[s] = bak[s] \/ (On("stacks") /\ bak[s] = NoBackup)
               /\ Origin(s)' = Origin(s) \/ bak'[s] = Empty
    BY StacksMove DEF Moved
  <1>2. pc \in Nat /\ (On("stacks") => cmd = "setup" /\ pc = 17)
    BY StepOf DEF TypeOK
  <1>3. LineKnown => LineKnown'
    <2>1. CASE \E s \in Services : bak[s] = Empty
      <3>1. NoBackup # Empty
        <4>1. Empty \in Stacks
          BY DEF Empty, Plain, Stacks
        <4> QED  BY <4>1, SetupAssumption
      <3>2. PICK s \in Services : bak[s] = Empty
        BY <2>1
      <3>3. bak'[s] = Empty
        BY <1>1, <3>1, <3>2
      <3> QED  BY <3>3 DEF LineKnown, Empty, Plain
    <2>2. ASSUME NEW s \in Services, Origin(s).howdy PROVE LineKnown'
      BY <1>1, <2>2 DEF LineKnown, Empty, Plain
    <2> QED  BY <2>1, <2>2 DEF LineKnown
  <1>4. ASSUME NEW s \in Services, bak'[s] # NoBackup PROVE LineKnown
    BY <1>1, <1>2, <1>4 DEF FoundInv
  <1>5. ASSUME cmd' = "setup", pc' > 5 PROVE LineKnown
    <2>1. cmd = "setup" /\ pc # 0
      BY <1>5, OneCommand
    <2>2. \/ pc' = pc
          \/ pc' = pc + 1 /\ Gained
          \/ pc' = pc + 2 /\ pc \in {5, 9, 11} /\ Gained
      BY <1>5, <2>1, SetupGains DEF OnWith
    <2>3. CASE pc > 5
      BY <2>1, <2>3 DEF FoundInv
    <2>4. CASE pc <= 5
      <3>1. pc = 5 /\ Gained
        BY <1>2, <1>5, <2>2, <2>4
      <3> QED  BY <3>1, DiscoverableIsKnown DEF Gained
    <2> QED  BY <1>2, <2>3, <2>4
  <1> QED  BY <1>3, <1>4, <1>5 DEF FoundInv

-----------------------------------------------------------------------------
(* Refusals.                                                                *)

\* A command in progress has no result yet.
RefusedInv == RefusesOnlyForeign /\ (pc # 0 => result = "none")

\* A refusal, and what can happen afterwards.
LEMMA Refusals ==
  ASSUME TypeOK, RefusedInv, [Next]_vars, result' \in {"refused", "nohowdy"}
  PROVE  \/ /\ pc = 0 /\ result' = result /\ UNCHANGED pamVars
            /\ \A f \in Managed : file[f] = "foreign" => file'[f] = "foreign"
         \/ /\ pc # 0 /\ UNCHANGED <<pamVars, file>>
            /\ result' = "refused" => \E f \in Managed : file[f] = "foreign"
            /\ result' = "nohowdy" => Discoverable = {}
PROOF
  <1> DEFINE Before == /\ pc = 0 /\ result' = result /\ UNCHANGED pamVars
                       /\ \A f \in Managed : file[f] = "foreign" => file'[f] = "foreign"
             Now == /\ pc # 0 /\ UNCHANGED <<pamVars, file>>
                    /\ result' = "refused" => \E f \in Managed : file[f] = "foreign"
                    /\ result' = "nohowdy" => Discoverable = {}
  <1>1. \A n : Active => ~Ahead(n)
    BY DEF Ahead, RefusedInv, Active
  <1>2. Active => ~End("error") /\ ~End("dead") /\ ~UNCHANGED cmdVars
    BY DEF End, RefusedInv, Active, cmdVars
  <1>3. \A x : On(x) => Active
    BY StepOf
  <1>4. "howdy" \in Managed /\ "passkey" \in Managed /\ "modules" \in Managed
    BY DEF Managed
  <1>5. ASSUME NEW m \in DOMAIN Script, Start(m) PROVE FALSE
    BY <1>5 DEF Start
  <1>6. CASE PlaceInstalling
    BY <1>1, <1>3, <1>6 DEF PlaceInstalling, Create
  <1>7. CASE PlaceSetup
    <2>1. This \in Managed
      BY <1>4, <1>7, StepOf, SetupSteps DEF PlaceSetup
    <2> QED  BY <1>1, <1>3, <1>7, <2>1 DEF PlaceSetup, Create, End, Active
  <1>8. CASE PlaceHowdy
    BY <1>1, <1>3, <1>4, <1>8 DEF PlaceHowdy, Create, End, Active
  <1>9. CASE Mark \/ Remove \/ Unmark \/ Programs
    BY <1>1, <1>2, <1>3, <1>9 DEF Mark, Remove, Unmark, Programs
  <1>10. CASE Preflight \/ BindCamera
    BY <1>1, <1>2, <1>3, <1>10 DEF Preflight, BindCamera
  <1>11. CASE RepairModels \/ EnsureGroups \/ LoadVhci
    BY <1>1, <1>3, <1>11 DEF RepairModels, EnsureGroups, LoadVhci, Provide
  <1>12. CASE ScanOpens \/ ScanEnds \/ ScanSkipped
    BY <1>1, <1>2, <1>3, <1>12 DEF ScanOpens, ScanEnds, ScanSkipped
  <1>13. CASE EnableDaemon \/ WaitReady \/ Validate \/ Stack
    BY <1>1, <1>2, <1>3, <1>13 DEF EnableDaemon, WaitReady, DeadlinePasses, Validate, Stack
  <1>14. CASE Restore \/ StopDaemon \/ RestoreConfig
    BY <1>1, <1>2, <1>3, <1>14 DEF Restore, StopDaemon, RestoreConfig
  <1>15. CASE Fail
    BY <1>2, <1>15 DEF Fail
  <1>16. ASSUME Killed PROVE pc = 0 /\ result' = result /\ UNCHANGED pamVars
    BY <1>2, <1>3, <1>16 DEF Killed, Active, cmdVars
  <1>17. CASE Kill \/ Reboot
    BY <1>16, <1>17 DEF Kill, Reboot, ownVars
  <1>18. CASE DaemonUp \/ DaemonFails \/ DaemonScan \/ Change \/ Login
    BY <1>2, <1>18 DEF DaemonUp, DaemonFails, DaemonScan, Change, Login, ownVars, cmdVars, Active
  <1>19. CASE OwnFile
    <2>1. PICK f \in Managed : file[f] = "none" /\ file' = [file EXCEPT ![f] = "foreign"]
      BY <1>19 DEF OwnFile
    <2>2. file \in [Managed -> {"none", "ours", "foreign"}]
      BY DEF TypeOK
    <2> QED  BY <1>19, <2>1, <2>2 DEF OwnFile, cmdVars, Active
  <1>20. CASE UNCHANGED vars
    BY <1>2, <1>20 DEF vars, ownVars, cmdVars, Active
  <1> QED
    BY <1>5, <1>6, <1>7, <1>8, <1>9, <1>10, <1>11, <1>12, <1>13, <1>14, <1>15, <1>17,
       <1>18, <1>19, <1>20 DEF Next, Step, World

LEMMA RefusedStep ==
  TypeOK /\ StackInv /\ FoundInv /\ RefusedInv /\ [Next]_vars => RefusedInv'
PROOF
  <1> SUFFICES ASSUME TypeOK, StackInv, FoundInv, RefusedInv, [Next]_vars
               PROVE  RefusedInv'
    OBVIOUS
  <1>1. ASSUME pc' # 0 PROVE result' = "none"
    BY <1>1, OneCommand DEF Start, RefusedInv
  <1>2. ASSUME result' = "refused" PROVE \E f \in Managed : file'[f] = "foreign"
    BY <1>2, Refusals DEF RefusedInv, RefusesOnlyForeign
  <1>3. ASSUME result' = "nohowdy"
        PROVE  /\ \A s \in Services : ~stack'[s].howdy
               /\ \/ \A s \in Services : bak'[s] = NoBackup
                  \/ \E s \in Services : bak'[s] = Empty
    <2>1. stack' = stack /\ bak' = bak
      BY <1>3, Refusals DEF pamVars
    <2>2. CASE pc = 0
      BY <1>3, <2>1, <2>2, Refusals DEF RefusedInv, RefusesOnlyForeign
    <2>3. CASE pc # 0
      <3>1. Discoverable = {}
        BY <1>3, <2>3, Refusals
      <3>2. \A s \in Services : ~stack[s].howdy
        BY <3>1 DEF Discoverable
      <3>3. (\A s \in Services : bak[s] = NoBackup) \/ (\E s \in Services : bak[s] = Empty)
        BY <3>1, DiscoverableIsKnown DEF FoundInv, LineKnown
      <3> QED  BY <2>1, <3>2, <3>3
    <2> QED  BY <2>2, <2>3
  <1> QED  BY <1>1, <1>2, <1>3 DEF RefusedInv, RefusesOnlyForeign


-----------------------------------------------------------------------------
(* The camera.                                                              *)

\* Setup has the camera open in its own scans only, before it starts the daemon;
\* the daemon only while it runs.
ScanInv ==
  /\ "setup" \in lens => cmd = "setup" /\ pc \in {7, 8}
  /\ cmd = "setup" /\ pc \in 1..14 /\ ~rerun => daemon = "off"
  /\ "daemon" \in lens => daemon # "off"

LEMMA ScanStep == TypeOK /\ ScanInv /\ [Next]_vars => ScanInv'
PROOF
  <1> SUFFICES ASSUME TypeOK, ScanInv, [Next]_vars PROVE ScanInv'
    OBVIOUS
  <1> USE DEF ScanInv
  <1>1. pc \in Nat /\ pc' \in Nat /\ lens \subseteq {"setup", "daemon"}
    BY TypeStep DEF TypeOK
  <1>2. \A n \in {1, 2} : Active /\ Ahead(n) => cmd' = cmd /\ pc' \in {0, pc + n}
    BY DEF Ahead
  <1>3. \A r : End(r) => cmd' = cmd /\ pc' = 0
    BY DEF End
  <1>4. \A x : On(x) => Active /\ pc # 0
    BY DEF On, Active
  <1>5. ASSUME NEW m \in DOMAIN Script, Start(m) PROVE ScanInv'
    <2>1. ~rerun' => daemon = "off"
      BY <1>5 DEF Start
    <2> QED  BY <1>1, <1>5, <2>1 DEF Start, Active, runVars
  <1>6. CASE PlaceInstalling \/ PlaceSetup \/ PlaceHowdy \/ Mark
    <2>0. /\ On("place") \/ On("mark")
          /\ Ahead(1) \/ Ahead(2) \/ End("refused") \/ End("nohowdy")
      BY <1>6 DEF PlaceInstalling, PlaceSetup, PlaceHowdy, Mark, Create
    <2>1. /\ pc \notin {7, 8} \/ cmd = "install"
          /\ cmd' = cmd /\ pc' \in {0, pc + 1, pc + 2} /\ pc # 0
      BY <1>2, <1>3, <1>4, <2>0, StepOf
    <2>2. UNCHANGED <<lens, daemon, rerun>>
      BY <1>6 DEF PlaceInstalling, PlaceSetup, PlaceHowdy, Mark, runVars, histVars
    <2> QED  BY <1>1, <2>1, <2>2
  <1>7. CASE Remove \/ Unmark \/ Programs
    BY <1>1, <1>2, <1>3, <1>4, <1>7, StepOf DEF Remove, Unmark, Programs, runVars, histVars
  <1>8. CASE Preflight \/ BindCamera
    BY <1>1, <1>2, <1>3, <1>4, <1>8, StepOf DEF Preflight, BindCamera, runVars, histVars
  <1>9. CASE RepairModels \/ EnsureGroups \/ LoadVhci
    BY <1>1, <1>2, <1>4, <1>9, StepOf
    DEF RepairModels, EnsureGroups, LoadVhci, Provide, histVars
  <1>10. CASE ScanOpens
    BY <1>1, <1>10, StepOf DEF ScanOpens, cmdVars, runVars, histVars
  <1>11. CASE ScanEnds \/ ScanSkipped
    BY <1>1, <1>2, <1>3, <1>4, <1>11, StepOf DEF ScanEnds, ScanSkipped, runVars, histVars
  <1>12. CASE EnableDaemon
    BY <1>1, <1>2, <1>3, <1>4, <1>12, StepOf DEF EnableDaemon, histVars
  <1>13. CASE WaitReady \/ Validate \/ Stack
    BY <1>1, <1>2, <1>3, <1>4, <1>13, StepOf
    DEF WaitReady, DeadlinePasses, Validate, Stack, runVars, histVars
  <1>14. CASE Restore \/ RestoreConfig
    BY <1>1, <1>2, <1>4, <1>14, StepOf DEF Restore, RestoreConfig, cmdVars, runVars, histVars
  <1>15. CASE StopDaemon
    BY <1>1, <1>2, <1>4, <1>15, StepOf DEF StopDaemon, histVars
  <1>16. CASE Fail
    BY <1>1, <1>3, <1>16 DEF Fail, runVars
  <1>17. ASSUME Killed PROVE pc' = 0
    BY <1>3, <1>17 DEF Killed, Active, cmdVars
  <1>18. CASE Kill
    BY <1>17, <1>18 DEF Kill, runVars
  <1>19. CASE Reboot
    BY <1>17, <1>19 DEF Reboot
  <1>20. CASE DaemonUp \/ DaemonFails
    BY <1>20 DEF DaemonUp, DaemonFails, cmdVars, histVars
  <1>21. CASE DaemonScan
    BY <1>21 DEF DaemonScan, CanScan, cmdVars, runVars, histVars
  <1>22. CASE Change \/ OwnFile \/ Login
    BY <1>22 DEF Change, OwnFile, Login, cmdVars, runVars, histVars
  <1>23. CASE UNCHANGED vars
    BY <1>23 DEF vars, cmdVars, runVars, histVars
  <1> QED
    BY <1>5, <1>6, <1>7, <1>8, <1>9, <1>10, <1>11, <1>12, <1>13, <1>14, <1>15, <1>16,
       <1>18, <1>19, <1>20, <1>21, <1>22, <1>23 DEF Next, Step, World

-----------------------------------------------------------------------------
(* Files and markers.                                                       *)

\* The uninstaller is past the file, and has removed it if it had a marker.
Past(f) ==
  \/ f = "unit" /\ pc > 5
  \/ f = "rules" /\ pc > 6
  \/ f = "modules" /\ pc > 7
  \/ f = "howdy" /\ pc > 8
  \/ f = "passkey" /\ pc > 9

\* As long as no command ended between a file and its marker, a marker stands
\* for a file of IRAuth's, and each of those has one.
MarkInv ==
  /\ On("mark") => file[This] = "ours"
  /\ ~cut => \A f \in Managed :
       /\ file[f] = "foreign" => f \notin marker
       /\ file[f] = "ours" /\ f \notin marker => On("mark") /\ This = f
       /\ file[f] = "none" /\ f \in marker => cmd = "uninstall" /\ pc > 5
       /\ cmd = "uninstall" /\ Past(f) => file[f] # "ours"

\* A marker comes after its file, and after nothing else.
LEMMA MarkFollowsPlace ==
  ASSUME TypeOK, Active, NEW n \in {1, 2}, Ahead(n), n = 2 => On("place")
  PROVE  /\ On("place") /\ n = 1 => On("mark")' /\ This' = This
         /\ On("mark")' => On("place") /\ n = 1
PROOF
  <1>1. cmd' = cmd /\ pc' = (IF pc + n > Len(Script[cmd]) THEN 0 ELSE pc + n)
    BY DEF Ahead
  <1>2. CASE cmd = "setup"
    <2>1. Script[cmd'] = SettingUp
      BY <1>1, <1>2 DEF Script
    <2>2. SettingUp[6] = <<"mark", "howdy">> /\ SettingUp[10] = <<"mark", "passkey">>
          /\ SettingUp[12] = <<"mark", "modules">>
          /\ SettingUp[1][1] = "preflight" /\ SettingUp[2][1] = "models"
          /\ SettingUp[3][1] = "camera" /\ SettingUp[4][1] = "groups"
          /\ SettingUp[5][1] = "place" /\ SettingUp[7][1] = "face"
          /\ SettingUp[8][1] = "direct" /\ SettingUp[9][1] = "place"
          /\ SettingUp[11][1] = "place" /\ SettingUp[13][1] = "vhci"
          /\ SettingUp[14][1] = "enable" /\ SettingUp[15][1] = "ready"
          /\ SettingUp[16][1] = "validate" /\ SettingUp[17][1] = "stacks"
      BY DEF SettingUp, At, Placing, Marking
    <2>3. pc' \in 0..17 /\ (pc' # 0 => pc' = pc + n) /\ pc \in 1..17
      BY <1>1, <1>2, SetupSteps, Numbers
    <2> QED  BY <1>1, <1>2, <2>1, <2>2, <2>3, SetupSteps, Numbers DEF On, This, Active
  <1>3. CASE cmd = "install"
    <2>1. Script[cmd'] = Installing
      BY <1>1, <1>3 DEF Script
    <2>2. Installing[3] = <<"mark", "unit">> /\ Installing[5] = <<"mark", "rules">>
          /\ Installing[7] = <<"mark", "passkey">>
          /\ Installing[1][1] = "programs" /\ Installing[2][1] = "place"
          /\ Installing[4][1] = "place" /\ Installing[6][1] = "place"
      BY DEF Installing, At, Placing, Marking
    <2>3. pc' \in 0..7 /\ (pc' # 0 => pc' = pc + n) /\ pc \in 1..7
      BY <1>1, <1>3, InstallSteps, Numbers
    <2> QED  BY <1>1, <1>3, <2>1, <2>2, <2>3, InstallSteps, Numbers DEF On, This, Active
  <1>4. CASE cmd = "uninstall"
    <2>1. Script[cmd'] = Uninstalling
      BY <1>1, <1>4 DEF Script
    <2>2. /\ Uninstalling[1][1] = "restore" /\ Uninstalling[2][1] = "stop"
          /\ Uninstalling[3][1] = "config" /\ Uninstalling[4][1] = "programs"
          /\ Uninstalling[5][1] = "remove" /\ Uninstalling[6][1] = "remove"
          /\ Uninstalling[7][1] = "remove" /\ Uninstalling[8][1] = "remove"
          /\ Uninstalling[9][1] = "remove" /\ Uninstalling[10][1] = "unmark"
      BY DEF Uninstalling, At, Removing
    <2>3. pc' \in 0..10 /\ pc \in 1..10
      BY <1>1, <1>4, UninstallSteps, Numbers
    <2> QED  BY <1>4, <2>1, <2>2, <2>3, UninstallSteps DEF On, Active
  <1> QED  BY <1>2, <1>3, <1>4, StepOf

\* A step that touches neither files nor markers, unless it is one of those a
\* command must not end at.
LEMMA QuietMark ==
  ASSUME TypeOK, MarkInv, UNCHANGED <<file, marker>>,
         \/ UNCHANGED <<cmdVars, cut>>
         \/ /\ pc' \in Nat /\ (cmd' = "uninstall" => pc' <= 5) /\ ~On("mark")'
            /\ cut' \/ (~Between /\ UNCHANGED cut)
  PROVE  MarkInv'
PROOF
  <1>1. CASE UNCHANGED <<cmdVars, cut>>
    BY <1>1 DEF MarkInv, cmdVars, Past, On, Active, This
  <1>2. CASE cut' /\ ~On("mark")'
    BY <1>2 DEF MarkInv
  <1>3. CASE /\ pc' \in Nat /\ (cmd' = "uninstall" => pc' <= 5) /\ ~On("mark")'
             /\ ~Between /\ UNCHANGED cut
    <2>1. cmd = "uninstall" => pc <= 5
      <3> SUFFICES ASSUME cmd = "uninstall", pc > 5 PROVE FALSE
        BY DEF TypeOK
      <3> QED  BY <1>3, UninstallSteps DEF Active, Between, TypeOK
    <2>2. ASSUME ~cut, NEW f \in Managed
          PROVE  /\ file[f] = "foreign" => f \notin marker
                 /\ file[f] = "ours" => f \in marker
                 /\ file[f] = "none" => f \notin marker
      BY <1>3, <2>1, <2>2 DEF MarkInv, Between, TypeOK
    <2>3. ASSUME NEW f \in Managed PROVE ~(cmd' = "uninstall" /\ Past(f)')
      BY <1>3 DEF Past
    <2> QED  BY <1>3, <2>2, <2>3 DEF MarkInv
  <1> QED  BY <1>1, <1>2, <1>3

\* A setup creates a file it then marks.
LEMMA PlaceMark ==
  ASSUME TypeOK, MarkInv, [Next]_vars, PlaceInstalling \/ PlaceSetup \/ PlaceHowdy
  PROVE  MarkInv'
PROOF
  <1>1. /\ pc' \in Nat /\ file \in [Managed -> {"none", "ours", "foreign"}]
    BY TypeStep DEF TypeOK
  <1>2. \A x : On(x) => Active
    BY StepOf
  <1>3. /\ On("place") /\ marker' = marker /\ cut' = cut
        /\ \/ (Ahead(2) \/ End("refused") \/ End("nohowdy")) /\ file' = file
           \/ /\ Ahead(1) /\ file[This] # "foreign"
              /\ file' = [file EXCEPT ![This] = "ours"]
    <2>1. CASE PlaceInstalling
      BY <2>1 DEF PlaceInstalling, Create, histVars
    <2>2. CASE PlaceSetup
      BY <2>2 DEF PlaceSetup, Create, histVars
    <2>3. CASE PlaceHowdy
      BY <2>3 DEF PlaceHowdy, Create, histVars
    <2> QED  BY <2>1, <2>2, <2>3
  <1>4. /\ cmd \in {"install", "setup"} /\ ~Between /\ Active
    BY <1>2, <1>3, StepOf, InstallSteps, SetupSteps DEF Between
  <1>5. This \in Managed
    BY <1>3, <1>4, StepOf, InstallSteps, SetupSteps DEF Managed
  <1>6. cmd' = cmd
    BY <1>3 DEF Ahead, End
  <1>7. CASE file' = file /\ (Ahead(2) \/ End("refused") \/ End("nohowdy"))
    <2>1. ~On("mark")'
      BY <1>3, <1>4, <1>7, MarkFollowsPlace DEF End, On, Active
    <2> QED  BY <1>1, <1>3, <1>4, <1>6, <1>7, <2>1, QuietMark
  <1>8. CASE /\ Ahead(1) /\ file[This] # "foreign"
             /\ file' = [file EXCEPT ![This] = "ours"]
    <2>1. On("mark")' /\ This' = This
      BY <1>3, <1>4, <1>8, MarkFollowsPlace
    <2>2. ASSUME ~cut, NEW f \in Managed
          PROVE  /\ file[f] = "foreign" => f \notin marker
                 /\ file[f] = "ours" => f \in marker
                 /\ file[f] = "none" => f \notin marker
      BY <1>1, <1>4, <2>2 DEF MarkInv, Between
    <2>3. ASSUME ~cut, NEW f \in Managed
          PROVE  /\ file'[f] = "foreign" => f \notin marker
                 /\ file'[f] = "ours" /\ f \notin marker => f = This
                 /\ file'[f] = "none" => f \notin marker
      BY <1>1, <1>5, <1>8, <2>2, <2>3
    <2>4. cmd' # "uninstall" /\ file'[This] = "ours"
      BY <1>1, <1>4, <1>5, <1>6, <1>8
    <2> QED  BY <1>3, <2>1, <2>3, <2>4 DEF MarkInv
  <1> QED  BY <1>3, <1>7, <1>8

\* A file is marked right after it was placed.
LEMMA MarkMark ==
  ASSUME TypeOK, MarkInv, [Next]_vars, Mark
  PROVE  MarkInv'
PROOF
  <1>1. /\ On("mark") /\ Active /\ Ahead(1)
        /\ marker' = marker \cup {This} /\ UNCHANGED <<file, cut>>
    BY StepOf DEF Mark, histVars
  <1>2. cmd \in {"install", "setup"} /\ cmd' = cmd /\ ~On("place")
    BY <1>1, StepOf, SetupSteps, InstallSteps DEF Ahead
  <1>3. ~On("mark")'
    BY <1>1, <1>2, MarkFollowsPlace
  <1>4. ASSUME ~cut, NEW f \in Managed
        PROVE  /\ file[f] = "foreign" => f \notin marker \cup {This}
               /\ file[f] = "ours" => f \in marker \cup {This}
               /\ file[f] = "none" => f \notin marker \cup {This}
    BY <1>1, <1>2, <1>4 DEF MarkInv
  <1> QED  BY <1>1, <1>2, <1>3, <1>4 DEF MarkInv

\* The uninstaller takes a file with a marker, and then the markers.
LEMMA RemoveMark ==
  ASSUME TypeOK, MarkInv, [Next]_vars, Remove
  PROVE  MarkInv'
PROOF
  <1>1. /\ On("remove") /\ Active /\ Ahead(1) /\ UNCHANGED <<marker, cut>>
        /\ file' = IF Removable(This) THEN [file EXCEPT ![This] = "none"] ELSE file
    BY StepOf DEF Remove, histVars
  <1>2. cmd = "uninstall" /\ pc \in 5..9 /\ ~On("place") /\ ~On("mark")
    BY <1>1, StepOf, UninstallSteps
  <1>3. ~On("mark")'
    BY <1>1, <1>2, MarkFollowsPlace
  <1>4. cmd' = cmd /\ pc' = pc + 1
    BY <1>1, <1>2, Moves
  <1>5. file \in [Managed -> {"none", "ours", "foreign"}]
    BY DEF TypeOK
  <1>6. ASSUME ~cut, NEW f \in Managed
        PROVE  /\ file'[f] = "foreign" => f \notin marker
               /\ file'[f] = "ours" => f \in marker
               /\ Past(f)' => file'[f] # "ours"
    <2>1. /\ file[f] = "foreign" => f \notin marker
          /\ file[f] = "ours" => f \in marker
          /\ Past(f) => file[f] # "ours"
      BY <1>2, <1>6 DEF MarkInv
    <2>2. CASE This = f
      <3>1. file'[f] # "ours"
        BY <1>1, <1>5, <2>1, <2>2 DEF Removable
      <3>2. file'[f] = "foreign" => file[f] = "foreign"
        BY <1>1, <1>5, <2>2
      <3> QED  BY <2>1, <3>1, <3>2
    <2>3. CASE This # f
      <3>1. file'[f] = file[f]
        BY <1>1, <1>5, <2>3
      <3>2. Past(f)' => Past(f)
        BY <1>1, <1>2, <1>4, <2>3, UninstallSteps DEF Past
      <3> QED  BY <2>1, <3>1, <3>2
    <2> QED  BY <2>2, <2>3
  <1> QED  BY <1>1, <1>2, <1>3, <1>4, <1>6 DEF MarkInv

LEMMA UnmarkMark ==
  ASSUME TypeOK, MarkInv, [Next]_vars, Unmark
  PROVE  MarkInv'
PROOF
  <1>1. /\ On("unmark") /\ Active /\ Ahead(1) /\ marker' = {} /\ UNCHANGED <<file, cut>>
    BY StepOf DEF Unmark, histVars
  <1>2. cmd = "uninstall" /\ pc = 10 /\ ~On("place") /\ ~On("mark")
    BY <1>1, StepOf, UninstallSteps
  <1>3. ~On("mark")'
    BY <1>1, <1>2, MarkFollowsPlace
  <1>4. ASSUME ~cut, NEW f \in Managed PROVE file[f] # "ours"
    BY <1>2, <1>4 DEF MarkInv, Past, Managed
  <1> QED  BY <1>1, <1>3, <1>4 DEF MarkInv


LEMMA MarkStep == TypeOK /\ MarkInv /\ [Next]_vars => MarkInv'
PROOF
  <1> SUFFICES ASSUME TypeOK, MarkInv, [Next]_vars PROVE MarkInv'
    OBVIOUS
  <1>1. pc \in Nat /\ pc' \in Nat
    BY TypeStep DEF TypeOK
  <1>2. \A x : On(x) => Active
    BY StepOf
  <1>3. ASSUME NEW r, End(r) PROVE pc' = 0 /\ ~On("mark")'
    BY <1>3 DEF End, On, Active
  <1>4. ASSUME Ahead(1), Active, ~On("place"), ~Between, UNCHANGED cut,
               cmd = "uninstall" => pc < 5
        PROVE  /\ cmd' = "uninstall" => pc' <= 5
               /\ ~On("mark")'
    <2>1. ~On("mark")'
      BY <1>4, MarkFollowsPlace
    <2>2. cmd' = cmd /\ pc' \in {0, pc + 1}
      BY <1>4 DEF Ahead
    <2> QED  BY <1>1, <1>4, <2>1, <2>2
  <1>5. ASSUME Active, ~On("place"), ~Between, UNCHANGED <<file, marker, cut>>,
               cmd = "uninstall" => pc < 5,
               Ahead(1) \/ (\E r : End(r)) \/ UNCHANGED cmdVars
        PROVE  MarkInv'
    <2>1. CASE Ahead(1)
      BY <1>1, <1>4, <1>5, <2>1, QuietMark
    <2>2. CASE \E r : End(r)
      <3>1. pc' = 0 /\ ~On("mark")'
        BY <1>3, <2>2
      <3> QED  BY <1>5, <3>1, QuietMark
    <2>3. CASE UNCHANGED cmdVars
      BY <1>5, <2>3, QuietMark
    <2> QED  BY <1>5, <2>1, <2>2, <2>3
  <1>6. ASSUME NEW m \in DOMAIN Script, Start(m) PROVE MarkInv'
    <2>1. /\ ~Between /\ pc' = 1 /\ cmd' = m /\ cut' = cut /\ UNCHANGED <<file, marker>>
      BY <1>6 DEF Start, Between, On, ownVars
    <2>2. ~On("mark")'
      <3>1. SettingUp[1][1] # "mark" /\ Installing[1][1] # "mark" /\ Uninstalling[1][1] # "mark"
        BY DEF SettingUp, Installing, Uninstalling, At
      <3>2. Script[m] \in {SettingUp, Installing, Uninstalling}
        BY Numbers DEF Script
      <3> QED  BY <2>1, <3>1, <3>2 DEF On
    <2> QED  BY <2>1, <2>2, QuietMark
  <1>7. CASE PlaceInstalling \/ PlaceSetup \/ PlaceHowdy
    BY <1>7, PlaceMark
  <1>8. CASE Mark \/ Remove \/ Unmark
    BY <1>8, MarkMark, RemoveMark, UnmarkMark
  <1>9. CASE Programs \/ Restore \/ StopDaemon \/ RestoreConfig
    <2>1. /\ Active /\ ~On("place") /\ ~Between
          /\ cmd = "uninstall" => pc < 5
      BY <1>9, StepOf, UninstallSteps, InstallSteps
      DEF Programs, Restore, StopDaemon, RestoreConfig, Between
    <2>2. /\ UNCHANGED <<file, marker, cut>>
          /\ Ahead(1) \/ End("error") \/ UNCHANGED cmdVars
      BY <1>9 DEF Programs, Restore, StopDaemon, RestoreConfig, ownVars, histVars
    <2> QED  BY <1>5, <2>1, <2>2
  <1>10. CASE \/ Preflight \/ BindCamera \/ RepairModels \/ EnsureGroups \/ LoadVhci
    <2>1. Active /\ ~On("place") /\ ~Between /\ cmd = "setup"
      BY <1>10, StepOf, SetupSteps
      DEF Preflight, BindCamera, RepairModels, EnsureGroups, LoadVhci, Provide, Between
    <2>2. UNCHANGED <<file, marker, cut>> /\ (Ahead(1) \/ End("error"))
      BY <1>10 DEF Preflight, BindCamera, RepairModels, EnsureGroups, LoadVhci, Provide,
        ownVars, histVars
    <2> QED  BY <1>5, <2>1, <2>2
  <1>11. CASE ScanOpens \/ ScanEnds \/ ScanSkipped
    <2>1. Active /\ ~On("place") /\ ~Between /\ cmd = "setup"
      BY <1>11, StepOf, SetupSteps DEF ScanOpens, ScanEnds, ScanSkipped, Between
    <2>2. /\ UNCHANGED <<file, marker, cut>>
          /\ Ahead(1) \/ End("error") \/ UNCHANGED cmdVars
      BY <1>11 DEF ScanOpens, ScanEnds, ScanSkipped, ownVars, histVars
    <2> QED  BY <1>5, <2>1, <2>2
  <1>12. CASE EnableDaemon \/ WaitReady \/ Validate \/ Stack
    <2>1. Active /\ ~On("place") /\ ~Between /\ cmd = "setup"
      BY <1>12, StepOf, SetupSteps DEF EnableDaemon, WaitReady, Validate, Stack, Between
    <2>2. UNCHANGED <<file, marker, cut>> /\ (Ahead(1) \/ End("error"))
      BY <1>12 DEF EnableDaemon, WaitReady, DeadlinePasses, Validate, Stack, ownVars, histVars
    <2> QED  BY <1>5, <2>1, <2>2
  <1>13. ASSUME cut' = (cut \/ Between), UNCHANGED <<file, marker>>, pc' = 0
         PROVE  MarkInv'
    <2>1. ~On("mark")'
      BY <1>13 DEF On, Active
    <2>2. cut' \/ (~Between /\ UNCHANGED cut)
      BY <1>13 DEF TypeOK
    <2> QED  BY <1>13, <2>1, <2>2, QuietMark
  <1>14. CASE Fail \/ Kill \/ Reboot
    <2>1. pc' = 0
      BY <1>14 DEF Fail, Kill, Reboot, Killed, End, Active, cmdVars
    <2> QED  BY <1>13, <1>14, <2>1 DEF Fail, Kill, Reboot, Killed, ownVars
  <1>15. CASE DaemonUp \/ DaemonFails \/ DaemonScan \/ Change \/ Login
    BY <1>15, QuietMark DEF DaemonUp, DaemonFails, DaemonScan, Change, Login, ownVars, histVars
  <1>16. CASE OwnFile
    <2>1. PICK f \in Managed : file[f] = "none" /\ file' = [file EXCEPT ![f] = "foreign"]
      BY <1>16 DEF OwnFile
    <2>2. file \in [Managed -> {"none", "ours", "foreign"}] /\ pc = 0
          /\ UNCHANGED <<cmdVars, marker, cut>>
      BY <1>16 DEF OwnFile, TypeOK, Active, histVars
    <2>3. ~On("mark") /\ ~On("mark")' /\ \A g : ~Past(g) /\ ~Past(g)'
      BY <2>2 DEF On, Active, Past, cmdVars
    <2>4. ASSUME ~cut, NEW g \in Managed
          PROVE  /\ file[g] = "foreign" => g \notin marker
                 /\ file[g] = "ours" => g \in marker
                 /\ file[g] = "none" => g \notin marker
      BY <2>2, <2>3, <2>4 DEF MarkInv
    <2>5. ASSUME ~cut, NEW g \in Managed
          PROVE  /\ file'[g] = "foreign" => g \notin marker
                 /\ file'[g] = "ours" => g \in marker
                 /\ file'[g] = "none" => g \notin marker
      BY <2>1, <2>2, <2>4, <2>5
    <2> QED  BY <2>2, <2>3, <2>5 DEF MarkInv
  <1>17. CASE UNCHANGED vars
    BY <1>17, QuietMark DEF vars, ownVars, histVars
  <1> QED  BY <1>6, <1>7, <1>8, <1>9, <1>10, <1>11, <1>12, <1>14, <1>15, <1>16, <1>17
           DEF Next, Step, World


\* Who changes a file.
LEMMA FileChanges ==
  TypeOK /\ [Next]_vars =>
    \/ file' = file
    \/ On("place") /\ file[This] # "foreign" /\ file' = [file EXCEPT ![This] = "ours"]
    \/ On("remove") /\ Removable(This) /\ file' = [file EXCEPT ![This] = "none"]
    \/ /\ ~Active
       /\ \E f \in Managed : file[f] = "none" /\ file' = [file EXCEPT ![f] = "foreign"]
PROOF
  <1> SUFFICES ASSUME TypeOK, [Next]_vars
               PROVE  \/ file' = file
                      \/ /\ On("place") /\ file[This] # "foreign"
                         /\ file' = [file EXCEPT ![This] = "ours"]
                      \/ /\ On("remove") /\ Removable(This)
                         /\ file' = [file EXCEPT ![This] = "none"]
                      \/ /\ ~Active
                         /\ \E f \in Managed : /\ file[f] = "none"
                                               /\ file' = [file EXCEPT ![f] = "foreign"]
    OBVIOUS
  <1>1. ASSUME NEW m \in DOMAIN Script, Start(m) PROVE file' = file
    BY <1>1 DEF Start, ownVars
  <1>2. CASE PlaceInstalling
    BY <1>2 DEF PlaceInstalling, Create
  <1>3. CASE PlaceSetup
    BY <1>3 DEF PlaceSetup, Create
  <1>4. CASE PlaceHowdy
    BY <1>4 DEF PlaceHowdy, Create
  <1>5. CASE Remove
    BY <1>5 DEF Remove
  <1>6. CASE Mark \/ Unmark \/ Programs
    BY <1>6 DEF Mark, Unmark, Programs
  <1>7. CASE Preflight \/ BindCamera \/ RepairModels \/ EnsureGroups \/ LoadVhci
    BY <1>7 DEF Preflight, BindCamera, RepairModels, EnsureGroups, LoadVhci, Provide, ownVars
  <1>8. CASE ScanOpens \/ ScanEnds \/ ScanSkipped
    BY <1>8 DEF ScanOpens, ScanEnds, ScanSkipped, ownVars
  <1>9. CASE EnableDaemon \/ WaitReady \/ Validate \/ Stack
    BY <1>9 DEF EnableDaemon, WaitReady, Validate, Stack, ownVars
  <1>10. CASE Restore \/ StopDaemon \/ RestoreConfig
    BY <1>10 DEF Restore, StopDaemon, RestoreConfig, ownVars
  <1>11. CASE Fail \/ Kill \/ Reboot
    BY <1>11 DEF Fail, Kill, Reboot, ownVars
  <1>12. CASE DaemonUp \/ DaemonFails \/ DaemonScan \/ Change \/ Login
    BY <1>12 DEF DaemonUp, DaemonFails, DaemonScan, Change, Login, ownVars
  <1>13. CASE OwnFile
    BY <1>13 DEF OwnFile
  <1>14. CASE UNCHANGED vars
    BY <1>14 DEF vars, ownVars
  <1> QED  BY <1>1, <1>2, <1>3, <1>4, <1>5, <1>6, <1>7, <1>8, <1>9, <1>10, <1>11, <1>12,
              <1>13, <1>14 DEF Next, Step, World

\* A command that is done has done its last step.
LEMMA Finished ==
  TypeOK /\ RefusedInv /\ [Next]_vars /\ Active /\ result' = "done" =>
    /\ cmd = "setup" => pc = 17
    /\ cmd = "uninstall" => pc = 10
PROOF
  <1> SUFFICES ASSUME TypeOK, RefusedInv, [Next]_vars, Active, result' = "done"
               PROVE  /\ cmd = "setup" => pc = 17
                      /\ cmd = "uninstall" => pc = 10
    OBVIOUS
  <1> DEFINE Goal == /\ cmd = "setup" => pc = 17
                     /\ cmd = "uninstall" => pc = 10
  <1>1. ASSUME NEW n \in {1, 2}, Ahead(n), n = 2 => On("place") PROVE Goal
    BY <1>1, Moves DEF RefusedInv, Active
  <1>2. ASSUME NEW r \in {"error", "refused", "nohowdy", "dead"}, End(r) PROVE FALSE
    BY <1>2 DEF End
  <1>3. ASSUME UNCHANGED cmdVars PROVE FALSE
    BY <1>3 DEF cmdVars, RefusedInv, Active
  <1>4. ASSUME NEW m \in DOMAIN Script, Start(m) PROVE FALSE
    BY <1>4 DEF Start
  <1>5. CASE PlaceInstalling \/ PlaceSetup \/ PlaceHowdy
    BY <1>1, <1>2, <1>5 DEF PlaceInstalling, PlaceSetup, PlaceHowdy, Create
  <1>6. CASE Mark \/ Remove \/ Unmark \/ Programs
    BY <1>1, <1>2, <1>6 DEF Mark, Remove, Unmark, Programs
  <1>7. CASE Preflight \/ BindCamera \/ RepairModels \/ EnsureGroups \/ LoadVhci
    BY <1>1, <1>2, <1>7
    DEF Preflight, BindCamera, RepairModels, EnsureGroups, LoadVhci, Provide
  <1>8. CASE ScanOpens \/ ScanEnds \/ ScanSkipped
    BY <1>1, <1>2, <1>3, <1>8 DEF ScanOpens, ScanEnds, ScanSkipped
  <1>9. CASE EnableDaemon \/ WaitReady \/ Validate \/ Stack
    BY <1>1, <1>2, <1>9 DEF EnableDaemon, WaitReady, DeadlinePasses, Validate, Stack
  <1>10. CASE Restore \/ StopDaemon \/ RestoreConfig
    BY <1>1, <1>3, <1>10 DEF Restore, StopDaemon, RestoreConfig
  <1>11. CASE Fail \/ Kill \/ Reboot
    BY <1>2, <1>11 DEF Fail, Kill, Reboot, Killed
  <1>12. CASE DaemonUp \/ DaemonFails \/ DaemonScan \/ Change \/ OwnFile \/ Login
    BY <1>3, <1>12 DEF DaemonUp, DaemonFails, DaemonScan, Change, OwnFile, Login
  <1>13. CASE UNCHANGED vars
    BY <1>3, <1>13 DEF vars
  <1> QED  BY <1>4, <1>5, <1>6, <1>7, <1>8, <1>9, <1>10, <1>11, <1>12, <1>13
           DEF Next, Step, World

-----------------------------------------------------------------------------
(* Theorems.                                                                *)

IInv == /\ TypeOK /\ ProgressInv /\ FreshInv
        /\ StackInv /\ ServedInv /\ FoundInv
        /\ RefusedInv /\ ScanInv /\ MarkInv

LEMMA InitIInv == Init => IInv
PROOF
  <1> SUFFICES ASSUME Init PROVE IInv
    OBVIOUS
  <1>1. /\ cmd = "none" /\ pc = 0 /\ result = "none" /\ lens = {} /\ marker = {}
        /\ bak = [s \in Services |-> NoBackup]
    BY DEF Init
  <1>2. TypeOK
    BY TypeInit
  <1>3. PICK y \in SystemTypes :
          /\ file = [f \in Managed |-> IF f \in y.foreign THEN "foreign" ELSE "none"]
          /\ stack = [s \in Services |-> Plain(1, s \in y.howdy)]
    BY SetupAssumption DEF Init
  <1>4. ProgressInv /\ FreshInv /\ RefusedInv /\ ScanInv
    BY <1>1 DEF ProgressInv, FreshInv, RefusedInv, RefusesOnlyForeign, ScanInv
  <1>5. \A s \in Services : ~Hooked(stack[s]) /\ bak[s] = NoBackup
    BY <1>1, <1>3 DEF Plain, Hooked
  <1>6. StackInv /\ ServedInv
    BY <1>1, <1>5 DEF StackInv, ServedInv, HookedIsServed
  <1>7. FoundInv
    BY <1>1 DEF FoundInv
  <1>8. MarkInv
    BY <1>1, <1>3 DEF MarkInv, On, Active, Past
  <1> QED  BY <1>2, <1>4, <1>6, <1>7, <1>8 DEF IInv

LEMMA NextIInv == IInv /\ [Next]_vars => IInv'
  BY TypeStep, ProgressStep, FreshStep, StackStep, ServedStep, FoundStep, RefusedStep,
     ScanStep, MarkStep DEF IInv

\* The invariant that the properties follow from.
THEOREM Invariance == Spec => []IInv
  BY InitIInv, NextIInv, PTL DEF Spec

\* Commands stay in their scripts and every variable in its type.
THEOREM TypeCorrect == Spec => []TypeOK
  BY Invariance, PTL DEF IInv

\* A stack routed through pam_irauth.so finds all it calls, wherever a command
\* was stopped.
THEOREM HooksAreServed == Spec => []HookedIsServed
PROOF
  <1>1. IInv => HookedIsServed
    BY DEF IInv, ServedInv
  <1> QED  BY <1>1, Invariance, PTL

\* Setup refuses only what is not IRAuth's, and finds a Howdy line that was there,
\* save where a kill left a backup empty.
THEOREM RefusalsAreForeign == Spec => []RefusesOnlyForeign
PROOF
  <1>1. IInv => RefusesOnlyForeign
    BY DEF IInv, RefusedInv
  <1> QED  BY <1>1, Invariance, PTL

\* The first setup's own scans never meet a ceremony of the daemon.
THEOREM FirstScansAreAlone == Spec => []ScansMeetOnlyOnRerun
PROOF
  <1>1. IInv => ScansMeetOnlyOnRerun
    BY DEF IInv, ScanInv, ScansMeetOnlyOnRerun
  <1> QED  BY <1>1, Invariance, PTL

\* What setup reports as configured, doctor finds configured, but for what waits for
\* the user's next login and the TPM that setup was told to do without.
THEOREM SetupSatisfiesDoctor == Spec => DoctorAgrees
PROOF
  <1>1. IInv /\ [Next]_vars =>
          [cmd = "setup" /\ Active /\ result' = "done" /\ ~disturbed =>
             DoctorFails \subseteq LoginPending \cup WithoutTPM]_vars
    <2> SUFFICES ASSUME IInv, [Next]_vars, cmd = "setup", Active, result' = "done", ~disturbed,
                        NEW x \in Checks, ~Passes(x)
                 PROVE  x \in LoginPending \cup WithoutTPM
      BY DEF DoctorFails
    <2>1. pc = 17
      BY Finished DEF IInv
    <2>2. /\ installed /\ file["howdy"] # "none" /\ file["passkey"] # "none"
          /\ {"models", "groups", "vhci"} \subseteq ready
      BY <2>1 DEF IInv, ProgressInv
    <2>3. strict # {} /\ config \in strict /\ daemon = "up" /\ Packages \subseteq host
      BY <2>1 DEF IInv, FreshInv
    <2>4. x \in {"tpm", "access", "groups"}
      BY <2>2, <2>3 DEF Passes, Checks, Packages, Parts
    <2>5. CASE x = "tpm"
      BY <2>5 DEF Passes, Parts, WithoutTPM
    <2>6. CASE x = "access"
      BY <2>6 DEF Passes, LoginPending, WithoutTPM
    <2>7. CASE x = "groups"
      BY <2>7 DEF Passes, LoginPending
    <2> QED  BY <2>4, <2>5, <2>6, <2>7
  <1> QED  BY <1>1, Invariance, PTL DEF Spec, DoctorAgrees

\* No file of the administrator's is lost, and an uninstall takes all of IRAuth's.
THEOREM UninstallIsExact == Spec => UninstallTakesOwn
PROOF
  <1> DEFINE Exact == ~cut => /\ \A f \in Managed : file[f] = "foreign" => file'[f] = "foreign"
                              /\ cmd = "uninstall" /\ Active /\ result' = "done" =>
                                   \A f \in Managed : file'[f] # "ours"
  <1>1. IInv /\ [Next]_vars => [Exact]_vars
    <2> SUFFICES ASSUME IInv, [Next]_vars, ~cut
                 PROVE  Exact
      OBVIOUS
    <2>1. file \in [Managed -> {"none", "ours", "foreign"}]
      BY DEF IInv, TypeOK
    <2>2. ASSUME NEW f \in Managed, file[f] = "foreign" PROVE file'[f] = "foreign"
      <3>1. f \notin marker
        BY <2>2 DEF IInv, MarkInv
      <3>2. \/ file' = file
            \/ file[This] # "foreign" /\ file' = [file EXCEPT ![This] = "ours"]
            \/ This \in marker /\ file' = [file EXCEPT ![This] = "none"]
            \/ \E g \in Managed : file[g] = "none" /\ file' = [file EXCEPT ![g] = "foreign"]
        BY FileChanges DEF IInv, Removable
      <3> QED  BY <2>1, <2>2, <3>1, <3>2
    <2>3. ASSUME cmd = "uninstall", Active, result' = "done", NEW f \in Managed
          PROVE  file'[f] # "ours"
      <3>1. pc = 10
        BY <2>3, Finished DEF IInv
      <3>2. file[f] # "ours"
        BY <2>3, <3>1 DEF IInv, MarkInv, Past, Managed
      <3>3. file' = file
        BY <2>3, <3>1, FileChanges, StepOf DEF IInv
      <3> QED  BY <3>2, <3>3
    <2> QED  BY <2>2, <2>3
  <1> QED  BY <1>1, Invariance, PTL DEF Spec, UninstallTakesOwn

=============================================================================

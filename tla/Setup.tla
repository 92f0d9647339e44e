-------------------------------- MODULE Setup --------------------------------
(***************************************************************************)
(* scripts/install.sh, irauthctl setup and scripts/uninstall.sh as scripts  *)
(* of steps over what they leave on the system: installed programs, the     *)
(* files IRAuth creates with their markers, PAM stacks with their backups,  *)
(* Howdy's camera, groups, face model, kernel module and the daemon.        *)
(*                                                                         *)
(* A command may meet an error, be killed, or be cut by a reboot at every   *)
(* step; commands run one after the other.  The daemon runs beside them and *)
(* uses the camera for its own clients.  Modelled elsewhere and one step    *)
(* here: the PAM transaction (PamFiles), the selection of a camera          *)
(* (CameraPolicy), the binding (HowdyConfig), a ceremony (Irauthd).         *)
(***************************************************************************)
EXTENDS Naturals, Sequences, PamStack

CONSTANTS
  Services,    \* PAM services setup selects
  Cameras, NoCamera,
  NoBackup,
  Systems,     \* systems to begin with: records in SystemTypes
  Bounds       \* bounds on commands and on accidents: records over Spendable

\* Files IRAuth creates: the daemon's unit, the udev rule, the module-load
\* file, and the PAM services irauth-howdy and irauth-passkey.
Managed == {"unit", "rules", "modules", "howdy", "passkey"}
\* Accidents: errors, kills, reboots, changes by hand, failures of the daemon.
Spendable == {"commands", "accidents"}

\* The TPM, and the two programs of other packages.
Packages == {"howdy", "pamtester"}
Parts == Packages \cup {"tpm"}

\* Names that are taken, stacks with a Howdy line, the camera Howdy is
\* configured for, the cameras the hardware policy accepts, and what is there.
SystemTypes == [foreign : SUBSET Managed, howdy : SUBSET Services,
                config : Cameras \cup {NoCamera}, strict : SUBSET Cameras,
                host : SUBSET Parts]

Stacks == [base : 0..1, howdy : BOOLEAN, marked : BOOLEAN, inline : BOOLEAN, stanza : BOOLEAN]

ASSUME SetupAssumption ==
  /\ Systems \subseteq SystemTypes
  /\ Bounds \subseteq [Spendable -> Nat]
  /\ NoCamera \notin Cameras /\ NoBackup \notin Stacks \cup Cameras \cup {NoCamera}

\* The scripts.  A "place" is followed by its "mark", which it may skip.
At(x) == <<x, "">>
Placing(f) == <<"place", f>>
Marking(f) == <<"mark", f>>
Removing(f) == <<"remove", f>>
Uninstalling == <<At("restore"), At("stop"), At("config"), At("programs"), Removing("unit"),
  Removing("rules"), Removing("modules"), Removing("howdy"), Removing("passkey"), At("unmark")>>
SettingUp == <<At("preflight"), At("models"), At("camera"), At("groups"), Placing("howdy"),
  Marking("howdy"), At("face"), At("direct"), Placing("passkey"), Marking("passkey"),
  Placing("modules"), Marking("modules"), At("vhci"), At("enable"), At("ready"),
  At("validate"), At("stacks")>>
Installing == <<At("programs"), Placing("unit"), Marking("unit"), Placing("rules"),
  Marking("rules"), Placing("passkey"), Marking("passkey")>>

\* The same scripts with two steps in the wrong order.
ScriptEnabledEarly == [install |-> Installing, uninstall |-> Uninstalling,
  setup |-> <<At("groups"), At("enable")>> \o SettingUp]
ScriptProgramsFirst == [install |-> Installing, setup |-> SettingUp,
  uninstall |-> <<At("programs")>> \o Uninstalling]
Script == [install |-> Installing, setup |-> SettingUp, uninstall |-> Uninstalling]

VARIABLES
  cmd, pc, result,   \* the command, its next step (0: none), how the last one ended
  installed,         \* programs and PAM module are in place
  file, marker,      \* the managed files, and which of them have a marker
  line,              \* service whose Howdy line irauth-howdy carries
  stack, bak,        \* the selected stacks and their .irauth.bak
  config, cbak,      \* camera in Howdy's configuration, and in its backup
  strict,            \* cameras the hardware policy accepts now
  host,              \* which of the TPM, Howdy and pamtester are there
  ready,             \* done so far: "groups", "models", "face", "vhci"
  daemon, atboot,    \* irauthd: off, starting or up; enabled
  session,           \* the user's login session has the groups
  lens,              \* who has a camera open: "setup" itself, the "daemon"
  left,              \* what is left of each bound
  cut,               \* history: a command ended between a file and its marker
  disturbed,         \* history: the world changed since the command started
  rerun              \* history: the daemon ran when the command started

cmdVars == <<cmd, pc, result>>
ownVars == <<installed, file, marker, line>>
pamVars == <<stack, bak>>
hostVars == <<config, cbak, strict, host>>
runVars == <<ready, daemon, atboot, session>>
histVars == <<cut, disturbed, rerun>>
vars == <<cmdVars, ownVars, pamVars, hostVars, runVars, lens, left, histVars>>

Things == {"groups", "models", "face", "vhci"}

TypeOK ==
  /\ cmd \in {"none"} \cup DOMAIN Script
  /\ pc \in Nat /\ (pc # 0 => cmd \in DOMAIN Script /\ pc \in DOMAIN Script[cmd])
  /\ result \in {"none", "done", "error", "refused", "nohowdy", "dead"}
  /\ installed \in BOOLEAN /\ atboot \in BOOLEAN
  /\ file \in [Managed -> {"none", "ours", "foreign"}] /\ marker \subseteq Managed
  /\ line \in Services \cup {"none"}
  /\ stack \in [Services -> Stacks] /\ bak \in [Services -> Stacks \cup {NoBackup}]
  /\ config \in Cameras \cup {NoCamera} /\ cbak \in Cameras \cup {NoCamera, NoBackup}
  /\ strict \subseteq Cameras /\ host \subseteq Parts
  /\ ready \subseteq Things /\ session \in BOOLEAN
  /\ daemon \in {"off", "starting", "up"} /\ lens \subseteq {"setup", "daemon"}
  /\ left \in [Spendable -> Nat]
  /\ cut \in BOOLEAN /\ disturbed \in BOOLEAN /\ rerun \in BOOLEAN

Init ==
  /\ cmd = "none" /\ pc = 0 /\ result = "none"
  /\ installed = FALSE /\ marker = {} /\ line = "none"
  /\ \E y \in Systems :
       /\ file = [f \in Managed |-> IF f \in y.foreign THEN "foreign" ELSE "none"]
       /\ stack = [s \in Services |-> Plain(1, s \in y.howdy)]
       /\ config = y.config /\ strict = y.strict /\ host = y.host
  /\ bak = [s \in Services |-> NoBackup]
  /\ cbak = NoBackup
  /\ ready = {} /\ daemon = "off" /\ atboot = FALSE /\ session = FALSE /\ lens = {}
  /\ left \in Bounds
  /\ cut = FALSE /\ disturbed = FALSE /\ rerun = FALSE

Active == pc # 0
On(x) == Active /\ Script[cmd][pc][1] = x
\* The file a "place", "mark" or "remove" step is about.
This == Script[cmd][pc][2]
Spend(k) == left[k] > 0 /\ left' = [left EXCEPT ![k] = @ - 1]

\* On by n steps, to the end of the script after the last one; or an early end.
Ahead(n) ==
  /\ pc' = IF pc + n > Len(Script[cmd]) THEN 0 ELSE pc + n
  /\ result' = IF pc + n > Len(Script[cmd]) THEN "done" ELSE result
  /\ UNCHANGED cmd
End(r) == pc' = 0 /\ result' = r /\ UNCHANGED cmd

Start(m) ==
  /\ ~Active /\ Spend("commands")
  /\ m = "setup" => installed
  /\ cmd' = m /\ pc' = 1 /\ result' = "none"
  /\ disturbed' = FALSE /\ rerun' = (daemon # "off")
  /\ UNCHANGED <<ownVars, pamVars, hostVars, runVars, lens, cut>>

-----------------------------------------------------------------------------
(* Files and markers.                                                       *)

\* Services whose stack, or whose backup, has a direct Howdy line.
DiscoverableStacks == {s \in Services : stack[s].howdy}
Discoverable == {s \in Services : \/ stack[s].howdy
                                  \/ bak[s] # NoBackup /\ bak[s].howdy}

\* install(1) of a file that is not there, or atomic_write by setup.
Create(f, l) ==
  /\ file' = [file EXCEPT ![f] = "ours"] /\ line' = l /\ Ahead(1)

\* install.sh keeps whatever is there.
PlaceInstalling ==
  /\ cmd = "install" /\ On("place")
  /\ \/ file[This] = "none" /\ Create(This, line)
     \/ file[This] # "none" /\ Ahead(2) /\ UNCHANGED <<file, line>>
  /\ UNCHANGED <<installed, marker, pamVars, hostVars, runVars, lens, left, histVars>>

\* write_modules_load(), install_passkey_pam(): equal content is kept, other
\* content refused.
PlaceSetup ==
  /\ cmd = "setup" /\ On("place") /\ This # "howdy"
  /\ \/ file[This] = "none" /\ Create(This, line)
     \/ file[This] = "ours" /\ Ahead(2) /\ UNCHANGED <<file, line>>
     \/ file[This] = "foreign" /\ End("refused") /\ UNCHANGED <<file, line>>
  /\ UNCHANGED <<installed, marker, pamVars, hostVars, runVars, lens, left, histVars>>

\* install_irauth_howdy_pam(): the first Howdy line found in any PAM file, in
\* directory order.  A generated file with another line is written anew.
PlaceHowdy ==
  /\ cmd = "setup" /\ On("place") /\ This = "howdy"
  /\ \/ /\ \E s \in Discoverable :
             \/ file["howdy"] = "ours" /\ line = s /\ Ahead(2) /\ UNCHANGED <<file, line>>
             \/ /\ \/ file["howdy"] = "none"
                   \/ file["howdy"] = "ours" /\ line # s
                /\ Create("howdy", s)
             \/ file["howdy"] = "foreign" /\ End("refused") /\ UNCHANGED <<file, line>>
     \/ Discoverable = {} /\ End("nohowdy") /\ UNCHANGED <<file, line>>
  /\ UNCHANGED <<installed, marker, pamVars, hostVars, runVars, lens, left, histVars>>

Mark ==
  /\ On("mark") /\ marker' = marker \cup {This} /\ Ahead(1)
  /\ UNCHANGED <<installed, file, line, pamVars, hostVars, runVars, lens, left, histVars>>

\* The uninstaller compares each file but irauth-howdy with what IRAuth writes.
RemovableUnmarked(f) == file[f] = "ours" \/ f = "howdy"
Removable(f) == f \in marker /\ (file[f] = "ours" \/ f = "howdy")

Remove ==
  /\ On("remove") /\ Ahead(1)
  /\ file' = IF Removable(This) THEN [file EXCEPT ![This] = "none"] ELSE file
  /\ UNCHANGED <<installed, marker, line, pamVars, hostVars, runVars, lens, left, histVars>>

Unmark ==
  /\ On("unmark") /\ marker' = {} /\ Ahead(1)
  /\ UNCHANGED <<installed, file, line, pamVars, hostVars, runVars, lens, left, histVars>>

\* The binaries and the PAM module are copied, or removed.  install.sh installs
\* pamtester, and ends where Howdy is not there.
Programs ==
  /\ On("programs")
  /\ \/ /\ cmd = "install" /\ host' = host \cup {"pamtester"}
        /\ \/ "howdy" \in host /\ installed' = TRUE /\ Ahead(1)
           \/ "howdy" \notin host /\ End("error") /\ UNCHANGED installed
     \/ cmd = "uninstall" /\ installed' = FALSE /\ Ahead(1) /\ UNCHANGED host
  /\ UNCHANGED <<file, marker, line, pamVars, config, cbak, strict, runVars, lens, left, histVars>>

-----------------------------------------------------------------------------
(* cmd_setup.                                                               *)

\* No strict camera, no PAM module, no Howdy or no pamtester is an error, and so
\* is no TPM without --allow-no-tpm.
Preflight ==
  /\ On("preflight")
  /\ \/ /\ strict # {} /\ Packages \subseteq host
        /\ \E allow \in BOOLEAN : "tpm" \in host \/ allow
        /\ Ahead(1)
     \/ End("error")
  /\ UNCHANGED <<ownVars, pamVars, hostVars, runVars, lens, left, histVars>>

\* A camera that can be chosen is chosen, bound, and checked once more
\* (CameraPolicy has the steps in between).
BindCamera ==
  /\ On("camera")
  /\ \/ \E c \in strict :
          /\ config' = c
          /\ cbak' = IF cbak = NoBackup /\ c # config THEN config ELSE cbak
          /\ Ahead(1)
     \/ End("error") /\ UNCHANGED <<config, cbak>>
  /\ UNCHANGED <<ownVars, pamVars, strict, host, runVars, lens, left, histVars>>

\* What is there already is left as it is.
VhciOnce(x) == IF x = "vhci" /\ file["modules"] = "ours" /\ "modules" \notin marker
                 THEN {} ELSE {x}
Provides(x) == {x}
Provide(x) ==
  /\ On(x) /\ ready' = ready \cup Provides(x) /\ Ahead(1)
  /\ UNCHANGED <<ownVars, pamVars, hostVars, daemon, atboot, session, lens, left, histVars>>

RepairModels == Provide("models")   \* repair_dlib_assets()
EnsureGroups == Provide("groups")   \* ensure_group(), add_user_to_group()
LoadVhci == Provide("vhci")         \* modprobe, apply_vhci_permissions()

\* ensure_face_model and test_howdy_path use the camera themselves, without
\* the daemon's lock.
ScanOpens ==
  /\ (On("face") /\ "face" \notin ready) \/ On("direct")
  /\ "setup" \notin lens /\ config # NoCamera /\ "howdy" \in host
  /\ lens' = lens \cup {"setup"}
  /\ UNCHANGED <<cmdVars, ownVars, pamVars, hostVars, runVars, left, histVars>>

ScanEnds ==
  /\ On("face") \/ On("direct")
  /\ "setup" \in lens /\ lens' = lens \ {"setup"}
  /\ \/ Ahead(1) /\ ready' = ready \cup {"face"}
     \/ End("error") /\ UNCHANGED ready
  /\ UNCHANGED <<ownVars, pamVars, hostVars, daemon, atboot, session, left, histVars>>

\* A model is there already; or Howdy ends before it opens a camera.
ScanSkipped ==
  /\ lens \cap {"setup"} = {}
  /\ \/ On("face") /\ "face" \in ready /\ Ahead(1)
     \/ (On("face") \/ On("direct")) /\ End("error")
  /\ UNCHANGED <<ownVars, pamVars, hostVars, runVars, lens, left, histVars>>

\* systemctl enable --now: a daemon that runs already is left as it is.
EnableDaemon ==
  /\ On("enable")
  /\ \/ /\ file["unit"] # "none"
        /\ atboot' = TRUE /\ Ahead(1)
        /\ daemon' = IF daemon = "off" THEN "starting" ELSE daemon
     \/ file["unit"] = "none" /\ End("error") /\ UNCHANGED <<daemon, atboot>>
  /\ UNCHANGED <<ownVars, pamVars, hostVars, ready, session, lens, left, histVars>>

\* wait_for_daemon_ready(): PONG, or the deadline has passed after a probe.
DeadlinePassesNever == FALSE
DeadlinePasses == End("error")
WaitReady ==
  /\ On("ready")
  /\ \/ daemon = "up" /\ Ahead(1)
     \/ DeadlinePasses
  /\ UNCHANGED <<ownVars, pamVars, hostVars, runVars, lens, left, histVars>>

\* What a ceremony of the daemon needs.
CanScan == /\ daemon = "up" /\ file["howdy"] # "none" /\ Packages \subseteq host
           /\ config \in strict /\ {"models", "face"} \subseteq ready

\* The request answered with OK; no daemon, an ERR or the client's 35 s timeout
\* is the end.
Validate ==
  /\ On("validate")
  /\ \/ CanScan /\ Ahead(1)
     \/ End("error")
  /\ UNCHANGED <<ownVars, pamVars, hostVars, runVars, lens, left, histVars>>

\* What the transaction makes of a stack, and of its backup.
Through(x) == LET y == IF Direct(x) THEN Rewrite(x) ELSE x
              IN IF Hooked(y) THEN y ELSE AddStanza(y)
NeedsBackup(s) == bak[s] = NoBackup /\ (Direct(stack[s]) \/ ~Hooked(stack[s]))
BackUps(T) == [s \in Services |-> IF s \in T /\ NeedsBackup(s) THEN stack[s] ELSE bak[s]]
Hook(T, b) ==
  /\ stack' = [s \in Services |-> IF s \in T THEN Through(stack[s]) ELSE stack[s]]
  /\ bak' = b

Stack ==
  /\ On("stacks") /\ Hook(Services, BackUps(Services)) /\ Ahead(1)
  /\ UNCHANGED <<ownVars, hostVars, runVars, lens, left, histVars>>

-----------------------------------------------------------------------------
(* uninstall.sh beside the files: stacks, daemon, Howdy's camera.           *)

Restore ==
  /\ On("restore")
  /\ \/ \E s \in Services : /\ bak[s] # NoBackup /\ stack[s] # bak[s]
                            /\ stack' = [stack EXCEPT ![s] = bak[s]]
                            /\ UNCHANGED cmdVars
     \/ /\ \A s \in Services : bak[s] \in {NoBackup, stack[s]}
        /\ Ahead(1) /\ UNCHANGED stack
  /\ UNCHANGED <<ownVars, bak, hostVars, runVars, lens, left, histVars>>

StopDaemon ==
  /\ On("stop") /\ Ahead(1)
  /\ daemon' = "off" /\ atboot' = FALSE /\ lens' = lens \ {"daemon"}
  /\ UNCHANGED <<ownVars, pamVars, hostVars, ready, session, left, histVars>>

RestoreConfig ==
  /\ On("config") /\ Ahead(1)
  /\ config' = IF cbak = NoBackup THEN config ELSE cbak
  /\ UNCHANGED <<ownVars, pamVars, cbak, strict, host, runVars, lens, left, histVars>>

-----------------------------------------------------------------------------
(* What may happen at any step.                                             *)

\* Between a file and its marker, or between the removals and the markers'.
Between == On("mark") \/ On("remove") \/ On("unmark")

\* A step fails.  A transaction that fails is rolled back (PamFiles).
Fail ==
  /\ Active /\ Spend("accidents") /\ End("error")
  /\ cut' = (cut \/ Between) /\ lens' = lens \ {"setup"}
  /\ UNCHANGED <<ownVars, pamVars, hostVars, runVars, disturbed, rerun>>

\* A transaction that is killed is done with some stacks, and may have left the
\* backup of another one, filled or as create_backup_once opened it: empty.
HalfWay ==
  \E T \in SUBSET Services :
    \/ Hook(T, BackUps(T))
    \/ \E s \in Services \ T : /\ NeedsBackup(s)
                              /\ \E x \in {Empty, stack[s]} :
                                   Hook(T, [BackUps(T) EXCEPT ![s] = x])

Killed ==
  /\ IF On("stacks") THEN HalfWay ELSE UNCHANGED pamVars
  /\ IF Active THEN End("dead") ELSE UNCHANGED cmdVars
  /\ cut' = (cut \/ Between)

\* The terminal's interrupt: it reaches the howdy or pamtester below as well.
Kill ==
  /\ Active /\ Spend("accidents") /\ Killed /\ lens' = lens \ {"setup"}
  /\ UNCHANGED <<ownVars, hostVars, runVars, disturbed, rerun>>

\* The module-load file is read, what is enabled started, and the user logs in.
Reboot ==
  /\ Spend("accidents") /\ Killed /\ lens' = {} /\ disturbed' = TRUE
  /\ daemon' = IF atboot /\ installed THEN "starting" ELSE "off"
  /\ ready' = IF file["modules"] = "none" THEN ready \ {"vhci"} ELSE ready \cup {"vhci"}
  /\ session' = ("groups" \in ready)
  /\ UNCHANGED <<ownVars, hostVars, atboot, rerun>>

\* The user logs out and in again.
Login ==
  /\ ~Active /\ "groups" \in ready /\ ~session /\ session' = TRUE
  /\ UNCHANGED <<cmdVars, ownVars, pamVars, hostVars, ready, daemon, atboot, lens, left, histVars>>

\* irauthd listens once its group exists; systemd restarts it until then.
DaemonUp ==
  /\ daemon = "starting" /\ installed /\ "groups" \in ready
  /\ daemon' = "up"
  /\ UNCHANGED <<cmdVars, ownVars, pamVars, hostVars, ready, atboot, session, lens, left,
                 histVars>>

DaemonFails ==
  /\ daemon = "up" /\ Spend("accidents")
  /\ daemon' = "starting" /\ lens' = lens \ {"daemon"} /\ disturbed' = TRUE
  /\ UNCHANGED <<cmdVars, ownVars, pamVars, hostVars, ready, atboot, session, cut, rerun>>

\* A ceremony for one of the daemon's clients begins and ends.
DaemonScan ==
  /\ \/ CanScan /\ "daemon" \notin lens /\ lens' = lens \cup {"daemon"}
     \/ "daemon" \in lens /\ lens' = lens \ {"daemon"}
  /\ UNCHANGED <<cmdVars, ownVars, pamVars, hostVars, runVars, left, histVars>>

\* A camera is plugged in or taken away, Howdy configured by hand, or one of the
\* other packages installed or removed.
Change ==
  /\ Spend("accidents") /\ disturbed' = TRUE
  /\ \/ strict' \in SUBSET Cameras \ {strict} /\ UNCHANGED <<config, host>>
     \/ config' \in Cameras \ {config} /\ UNCHANGED <<strict, host>>
     \/ /\ \E x \in Packages : host' \in {host \ {x}, host \cup {x}} \ {host}
        /\ UNCHANGED <<config, strict>>
  /\ UNCHANGED <<cmdVars, ownVars, pamVars, cbak, runVars, lens, cut, rerun>>

\* The administrator puts a file of that name where there is none.
OwnFile ==
  /\ ~Active /\ Spend("accidents")
  /\ \E f \in Managed : file[f] = "none" /\ file' = [file EXCEPT ![f] = "foreign"]
  /\ UNCHANGED <<cmdVars, installed, marker, line, pamVars, hostVars, runVars, lens, histVars>>

Step ==
  \/ PlaceInstalling \/ PlaceSetup \/ PlaceHowdy \/ Mark \/ Remove \/ Unmark \/ Programs
  \/ Preflight \/ BindCamera \/ RepairModels \/ EnsureGroups \/ LoadVhci
  \/ ScanOpens \/ ScanEnds \/ ScanSkipped \/ EnableDaemon \/ WaitReady \/ Validate \/ Stack
  \/ Restore \/ StopDaemon \/ RestoreConfig

World == \/ Fail \/ Kill \/ Reboot \/ DaemonUp \/ DaemonFails \/ DaemonScan
         \/ Change \/ OwnFile \/ Login

Next == (\E m \in DOMAIN Script : Start(m)) \/ Step \/ World

Spec == Init /\ [][Next]_vars

\* A command goes on; howdy and pamtester, which setup runs without a timeout
\* of its own, end by themselves.
FairSpec == Spec /\ WF_vars(Step)

-----------------------------------------------------------------------------
(* Properties.                                                              *)

\* A stack that setup has routed through pam_irauth.so finds everything the
\* check needs, wherever a setup or an uninstall was stopped: the module, the
\* backend's PAM service, the daemon's group and unit, the daemon enabled.
HookedIsServed ==
  \A s \in Services : Hooked(stack[s]) =>
    /\ installed /\ atboot /\ "groups" \in ready
    /\ file["howdy"] # "none" /\ file["unit"] # "none"

\* irauthctl doctor: every check but the passkey bridge's (PasskeyService), the
\* socket's and the protocol's as one.
Checks == {"hardware", "tpm", "access", "vhci", "groups", "howdy", "pamtester", "models",
           "binding", "module", "backend", "passkey", "daemon"}
Passes(x) ==
  \/ x = "hardware" /\ strict # {}
  \/ x \in Parts /\ x \in host
  \/ x = "access" /\ "tpm" \in host /\ session
  \/ x = "groups" /\ ("groups" \in ready => session)
  \/ x \in {"vhci", "models"} /\ x \in ready
  \/ x = "binding" /\ config \in strict
  \/ x = "module" /\ installed
  \/ x = "backend" /\ file["howdy"] # "none"
  \/ x = "passkey" /\ file["passkey"] # "none"
  \/ x = "daemon" /\ daemon = "up"
DoctorFails == {x \in Checks : ~Passes(x)}

\* What setup tells the user is still to be done: log out and in, so that the
\* groups reach the session; and what it was told to do without.
LoginPending == IF session THEN {} ELSE {"groups", "access"}
WithoutTPM == IF "tpm" \in host THEN {} ELSE {"tpm", "access"}

\* When setup says that authentication is configured doctor finds nothing else to
\* complain of (the passkey bridge, which is installed after setup, aside),
\* unless the machine, the cameras or Howdy's configuration changed meanwhile.
DoctorAgrees ==
  [][cmd = "setup" /\ Active /\ result' = "done" /\ ~disturbed =>
       DoctorFails \subseteq LoginPending \cup WithoutTPM]_vars

\* A file of the administrator's is never changed nor removed, and an uninstall
\* leaves none of IRAuth's: unless some command ended between file and marker.
UninstallTakesOwn ==
  [][~cut => /\ \A f \in Managed : file[f] = "foreign" => file'[f] = "foreign"
             /\ cmd = "uninstall" /\ Active /\ result' = "done" =>
                  \A f \in Managed : file'[f] # "ours"]_vars

\* Setup can be repeated after whatever happened to earlier ones: it refuses only
\* a file that is not IRAuth's, and finds no Howdy line only where no stack had one
\* or a backup is one that a kill left empty, as the line of a stack that is
\* migrated over such a backup is lost.
RefusesOnlyForeign ==
  /\ result = "refused" => \E f \in Managed : file[f] = "foreign"
  /\ result = "nohowdy" =>
       /\ \A s \in Services : ~stack[s].howdy
       /\ (\A s \in Services : bak[s] = NoBackup) \/ (\E s \in Services : bak[s] = Empty)

\* The first setup has the camera for itself: its own scans, which do not take
\* the daemon's lock, meet a ceremony of the daemon only when irauthd ran
\* before, that is when setup is repeated on a configured system.
ScansMeetOnlyOnRerun == lens = {"setup", "daemon"} => rerun

\* Every command ends, also when the daemon never comes up: the wait for it has
\* a deadline.
CommandsEnd == Active ~> ~Active
=============================================================================

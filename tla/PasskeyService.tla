--------------------------- MODULE PasskeyService ---------------------------
(***************************************************************************)
(* irauthctl passkey install, adopt, start and stop, run by the desktop     *)
(* user, and the part of scripts/uninstall.sh that stops the bridge: the    *)
(* files under the user's home, the user service with its marker, and the   *)
(* switch from the upstream project's service to IRAuth's.                  *)
(*                                                                         *)
(* One action is one external command or one file that is written.  A       *)
(* command may fail or be killed at every step, the user may log out at     *)
(* every step, and a bridge may fail and be restarted by systemd.  Commands *)
(* run one at a time.                                                       *)
(***************************************************************************)
EXTENDS Naturals

CONSTANTS
  Homes,    \* homes IRAuth may find: records in HomeTypes
  Bounds    \* bounds: commands, errors, kills, logins, bridge failures

Old == "howdy-passkey-bridge.service"
New == "irauth-passkey.service"
Services == {Old, New}

\* What the commands tell apart: the upstream checkout, the bridge (not safe to
\* run, the user's own, built at the pinned commit), the vault (others may read
\* it, private, just initialised by IRAuth), the TPM-sealed key, the user unit
\* and the marker beside it that says IRAuth wrote it.
HomeTypes == [tree   : {"none", "foreign", "repo", "pinned"},
              binary : {"none", "unsafe", "user", "pinned"},
              vault  : {"none", "empty", "open", "private", "fresh"},
              sealed : {"none", "open", "private"},
              unit   : {"none", "foreign", "ours"},
              marker : BOOLEAN]
Spendable == {"commands", "errors", "kills", "logins", "failures"}

ASSUME PasskeyAssumption ==
  /\ Homes \subseteq {h \in HomeTypes : h.unit # "ours" /\ ~h.marker}
  /\ Bounds \in [Spendable -> Nat]

VARIABLES
  cmd, pc,   \* the command and where it stands
  home,      \* the user's files
  state,     \* per service: stopped, running, or waiting for systemd's restart
  enabled,   \* services started at login
  was,       \* what is-active and is-enabled answered about the old service
  left,      \* what is left of each bound
  cut,       \* history: a command ended between the unit and its marker
  missed     \* history: what is-active, asked last, and is-enabled, at any time, did
             \* not say of the old service although it runs or will, or is enabled

sysVars == <<state, enabled>>
vars == <<cmd, pc, home, sysVars, was, left, cut, missed>>

First == [adopt |-> "vet", install |-> "checkout", start |-> "start",
          stop |-> "stop", uninstall |-> "disable_new"]
Ended == {"idle", "done", "error", "refused", "dead"}

TypeOK ==
  /\ cmd \in DOMAIN First \cup {"none"}
  /\ pc \in Ended \cup {First[m] : m \in DOMAIN First} \cup
            {"build", "seal", "unit", "marker", "ask", "ask_enabled", "stop_old", "disable_old",
             "reload", "enable", "verify", "remove", "unmark"}
  /\ home \in HomeTypes
  /\ state \in [Services -> {"stopped", "running", "waiting"}]
  /\ enabled \subseteq Services /\ was \subseteq {"active", "enabled"}
  /\ left \in [Spendable -> Nat] /\ cut \in BOOLEAN /\ missed \subseteq {"active", "enabled"}

Init ==
  /\ cmd = "none" /\ pc = "idle"
  /\ home \in Homes
  /\ \E s \in {"stopped", "running", "waiting"} :
       state = [x \in Services |-> IF x = Old THEN s ELSE "stopped"]
  /\ enabled \in SUBSET {Old}
  /\ was = {} /\ left = Bounds /\ cut = FALSE /\ missed = {}

Spend(k) == left[k] > 0 /\ left' = [left EXCEPT ![k] = @ - 1]
Goto(l) == pc' = l
Active == pc \notin Ended

\* irauthctl passkey <m>, or the uninstaller run through sudo.
Start(m) ==
  /\ ~Active /\ Spend("commands")
  /\ cmd' = m /\ Goto(First[m])
  /\ UNCHANGED <<home, sysVars, was, cut, missed>>

-----------------------------------------------------------------------------
(* install() and adopt() up to configure_service().                         *)

\* checkout_upstream(): a directory that is no repository is removed and cloned
\* anew, then the pinned commit is fetched and checked out.
CheckoutUpstream ==
  /\ pc = "checkout"
  /\ \/ home.tree = "foreign" /\ home' = [home EXCEPT !.tree = "none"] /\ UNCHANGED pc
     \/ home.tree = "none" /\ home' = [home EXCEPT !.tree = "repo"] /\ UNCHANGED pc
     \/ /\ home.tree \in {"repo", "pinned"}
        /\ home' = [home EXCEPT !.tree = "pinned"] /\ Goto("build")
  /\ UNCHANGED <<cmd, sysVars, was, left, cut, missed>>

Build ==
  /\ pc = "build"
  /\ home' = [home EXCEPT !.binary = "pinned"] /\ Goto("seal")
  /\ UNCHANGED <<cmd, sysVars, was, left, cut, missed>>

\* Credentials are there: vault.json exists and is not empty.
HasCredentials(h) == h.vault \in {"open", "private", "fresh"}

\* howdy-bridge --tpm-init: with the passphrase it moves the vault under the
\* new key, without it starts a new one.
Sealed(h) == IF h.sealed # "none" THEN h
             ELSE IF HasCredentials(h) THEN [h EXCEPT !.sealed = "private"]
             ELSE [h EXCEPT !.sealed = "private", !.vault = "fresh"]

Seal ==
  /\ pc = "seal"
  /\ home' = Sealed(home) /\ Goto("unit")
  /\ UNCHANGED <<cmd, sysVars, was, left, cut, missed>>

SafeBinary(h) == h.binary \in {"user", "pinned"}
PrivateVault(h) == h.vault \in {"private", "fresh"}
Adoptable(h) == SafeBinary(h) /\ PrivateVault(h) /\ h.sealed = "private"

Vet ==
  /\ pc = "vet"
  /\ Goto(IF Adoptable(home) THEN "unit" ELSE "error")
  /\ UNCHANGED <<cmd, home, sysVars, was, left, cut, missed>>

-----------------------------------------------------------------------------
(* configure_service().                                                     *)

\* An existing unit must be a regular file with exactly the body to be written.
UnitIsOursMarked(h) == h.unit = "ours" /\ h.marker
UnitIsOurs(h) == h.unit = "ours"

WriteUnit ==
  /\ pc = "unit"
  /\ \/ /\ home.unit = "none"
        /\ home' = [home EXCEPT !.unit = "ours"] /\ Goto("marker")
     \/ home.unit # "none" /\ UnitIsOurs(home) /\ Goto("ask") /\ UNCHANGED home
     \/ home.unit # "none" /\ ~UnitIsOurs(home) /\ Goto("refused") /\ UNCHANGED home
  /\ UNCHANGED <<cmd, sysVars, was, left, cut, missed>>

WriteMarker ==
  /\ pc = "marker"
  /\ home' = [home EXCEPT !.marker = TRUE] /\ Goto("ask")
  /\ UNCHANGED <<cmd, sysVars, was, left, cut, missed>>

\* stop_legacy_service(): both questions are asked before anything is done.  Any
\* status but zero is taken for a no: that of a service that waits for its restart
\* is, and so is that of a systemctl that fails.
AskActive ==
  /\ pc = "ask" /\ Goto("ask_enabled")
  /\ \/ was' = {a \in {"active"} : state[Old] = "running"} /\ UNCHANGED left
     \/ Spend("errors") /\ was' = {}
  /\ missed' = (missed \ {"active"})
                  \cup {a \in {"active"} \ was' : state[Old] # "stopped"}
  /\ UNCHANGED <<cmd, home, sysVars, cut>>

AskEnabled ==
  /\ pc = "ask_enabled" /\ Goto("stop_old")
  /\ \/ was' = was \cup {e \in {"enabled"} : Old \in enabled} /\ UNCHANGED left
     \/ Spend("errors") /\ was' = was
  /\ missed' = missed \cup {e \in {"enabled"} \ was' : Old \in enabled}
  /\ UNCHANGED <<cmd, home, sysVars, cut>>

MustStopEnabled == was = {"active", "enabled"}
MustStop == "active" \in was
MustDisableActive == was = {"active", "enabled"}
MustDisable == "enabled" \in was

StopOld ==
  /\ pc = "stop_old" /\ Goto("disable_old")
  /\ state' = IF MustStop THEN [state EXCEPT ![Old] = "stopped"] ELSE state
  /\ UNCHANGED <<cmd, home, enabled, was, left, cut, missed>>

DisableOld ==
  /\ pc = "disable_old" /\ Goto("reload")
  /\ enabled' = IF MustDisable THEN enabled \ {Old} ELSE enabled
  /\ UNCHANGED <<cmd, home, state, was, left, cut, missed>>

DaemonReload ==
  /\ pc = "reload" /\ Goto("enable")
  /\ UNCHANGED <<cmd, home, sysVars, was, left, cut, missed>>

\* systemctl enable --now; the start may fail after the enabling.
EnableNow ==
  /\ pc = "enable"
  /\ enabled' = enabled \cup {New}
  /\ \/ /\ state' = [state EXCEPT ![New] = "running"]
        /\ Goto(IF cmd = "adopt" THEN "verify" ELSE "done") /\ UNCHANGED left
     \/ Spend("errors") /\ Goto("error") /\ UNCHANGED state
  /\ UNCHANGED <<cmd, home, was, cut, missed>>

\* diagnose(), asked once, right after the start.
Ready == /\ SafeBinary(home) /\ PrivateVault(home) /\ home.sealed = "private"
         /\ home.unit # "none" /\ state[New] = "running"

Verify ==
  /\ pc = "verify"
  /\ \/ Ready /\ Goto("done")
     \/ Goto("error")      \* not ready, or no virtual FIDO device attached yet
  /\ UNCHANGED <<cmd, home, sysVars, was, left, cut, missed>>

-----------------------------------------------------------------------------
(* start, stop, and the uninstaller.                                        *)

StartNew ==
  /\ pc = "start"
  /\ \/ /\ home.unit # "none" /\ Goto("done")
        /\ state' = [state EXCEPT ![New] = "running"]
     \/ home.unit = "none" /\ Goto("error") /\ UNCHANGED state
  /\ UNCHANGED <<cmd, home, enabled, was, left, cut, missed>>

StopNew ==
  /\ pc = "stop" /\ Goto("done")
  /\ state' = [state EXCEPT ![New] = "stopped"]
  /\ UNCHANGED <<cmd, home, enabled, was, left, cut, missed>>

\* systemctl --user disable --now through runuser.  When it fails, or there is
\* no user manager, the uninstaller warns and leaves the unit alone.
DisableNew ==
  /\ pc = "disable_new"
  /\ \/ /\ home.unit # "none" /\ Goto("remove")
        /\ enabled' = enabled \ {New}
        /\ state' = [state EXCEPT ![New] = "stopped"]
     \/ Goto("error") /\ UNCHANGED sysVars
  /\ UNCHANGED <<cmd, home, was, left, cut, missed>>

MayRemoveAny == TRUE
MayRemove == home.marker

\* rm -f unit marker.
RemoveUnit ==
  /\ pc = "remove"
  /\ \/ MayRemove /\ home' = [home EXCEPT !.unit = "none"] /\ Goto("unmark")
     \/ ~MayRemove /\ Goto("done") /\ UNCHANGED home
  /\ UNCHANGED <<cmd, sysVars, was, left, cut, missed>>

RemoveMarker ==
  /\ pc = "unmark"
  /\ home' = [home EXCEPT !.marker = FALSE] /\ Goto("done")
  /\ UNCHANGED <<cmd, sysVars, was, left, cut, missed>>

-----------------------------------------------------------------------------
(* What may happen at any step.                                             *)

\* The command at hand ends where it stands.
Between == pc \in {"marker", "unmark"}

\* A required program, the TPM, git, go, an external command or a write fails.
Fail ==
  /\ Active /\ Spend("errors") /\ Goto("error")
  /\ cut' = (cut \/ Between)
  /\ UNCHANGED <<cmd, home, sysVars, was, missed>>

Kill ==
  /\ Active /\ Spend("kills") /\ Goto("dead")
  /\ cut' = (cut \/ Between)
  /\ UNCHANGED <<cmd, home, sysVars, was, missed>>

\* The session ends, the command with it; at login systemd starts what is enabled.
Relogin ==
  /\ Spend("logins")
  /\ pc' = IF Active THEN "dead" ELSE pc
  /\ cut' = (cut \/ Between)
  /\ state' = [s \in Services |->
       IF s \in enabled /\ (s = New => home.unit # "none") THEN "running" ELSE "stopped"]
  /\ UNCHANGED <<cmd, home, enabled, was, missed>>

\* Restart=on-failure with RestartSec: in between the service is not active.
BridgeFails(s) ==
  /\ state[s] = "running" /\ Spend("failures")
  /\ state' = [state EXCEPT ![s] = "waiting"]
  /\ UNCHANGED <<cmd, pc, home, enabled, was, cut, missed>>

BridgeRestarts(s) ==
  /\ state[s] = "waiting"
  /\ state' = [state EXCEPT ![s] = "running"]
  /\ UNCHANGED <<cmd, pc, home, enabled, was, left, cut, missed>>

\* The user writes a unit of that name where there is none.
UserUnit ==
  /\ ~Active /\ home.unit = "none"
  /\ home' = [home EXCEPT !.unit = "foreign"]
  /\ UNCHANGED <<cmd, pc, sysVars, was, left, cut, missed>>

Command ==
  \/ \E m \in DOMAIN First : Start(m)
  \/ CheckoutUpstream \/ Build \/ Seal \/ Vet
  \/ WriteUnit \/ WriteMarker \/ AskActive \/ AskEnabled
  \/ StopOld \/ DisableOld
  \/ DaemonReload \/ EnableNow \/ Verify
  \/ StartNew \/ StopNew \/ DisableNew \/ RemoveUnit \/ RemoveMarker

World == \/ Fail \/ Kill \/ Relogin \/ UserUnit
         \/ \E s \in Services : BridgeFails(s) \/ BridgeRestarts(s)

Next == Command \/ World

Spec == Init /\ [][Next]_vars

-----------------------------------------------------------------------------
(* Properties.                                                              *)

\* Never are both bridges set to start at login, wherever a switch failed, was
\* killed or was repeated: two of them would fight for one USB/IP endpoint.  The one
\* way to it is a systemctl that failed when it was asked for the old service's
\* enabling.
OneAtLogin == ~(Old \in enabled /\ New \in enabled) \/ "enabled" \in missed

\* When adopt and install start the new bridge the old one does not run
\* (stop_legacy_service), unless at the moment it was asked for it had failed and
\* waited for systemd's restart, or systemctl failed: is-active then says no.
SwitchIsExclusive ==
  [][pc = "enable" /\ pc' \in {"verify", "done"} =>
       state[Old] # "running" \/ "active" \in missed]_vars

\* install and adopt refuse only a unit that is not IRAuth's: whatever an
\* earlier command left when it failed or was killed, the next one can go on.
RefusesOnlyForeign == pc = "refused" => home.unit = "foreign"

\* A unit of the user's is never overwritten nor removed, and an uninstaller
\* that could stop the bridge leaves no unit of IRAuth's: all this unless a
\* command ended between the unit and its marker.
UninstallTakesOwnUnit ==
  [][~cut => /\ home.unit = "foreign" => home'.unit = "foreign"
             /\ cmd = "uninstall" /\ pc # "done" /\ pc' = "done" => home'.unit # "ours"]_vars
=============================================================================

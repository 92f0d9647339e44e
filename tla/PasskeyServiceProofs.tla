------------------------ MODULE PasskeyServiceProofs ------------------------
(***************************************************************************)
(* Proofs about PasskeyService: its safety properties for any homes to      *)
(* begin with and any number of commands, errors, kills, logins and failures. *)
(***************************************************************************)
EXTENDS PasskeyService, TLAPS

Pcs == Ended \cup {"vet", "checkout", "start", "stop", "disable_new",
                   "build", "seal", "unit", "marker", "ask", "ask_enabled", "stop_old",
                   "disable_old", "reload", "enable", "verify", "remove", "unmark"}

LEMMA PcsAre == Pcs = Ended \cup {First[m] : m \in DOMAIN First} \cup
            {"build", "seal", "unit", "marker", "ask", "ask_enabled", "stop_old", "disable_old",
             "reload", "enable", "verify", "remove", "unmark"}
  BY DEF Pcs, First

LEMMA SpendKeeps ==
  ASSUME left \in [Spendable -> Nat], NEW k \in Spendable, Spend(k)
  PROVE  left' \in [Spendable -> Nat]
  BY DEF Spend

-----------------------------------------------------------------------------
LEMMA TypeInit == Init => TypeOK
PROOF
  <1> SUFFICES ASSUME Init PROVE TypeOK
    OBVIOUS
  <1>1. home \in HomeTypes /\ left \in [Spendable -> Nat]
    BY PasskeyAssumption DEF Init
  <1>2. state \in [Services -> {"stopped", "running", "waiting"}]
    BY DEF Init
  <1>3. enabled \subseteq Services /\ was \subseteq {"active", "enabled"}
    BY DEF Init, Services
  <1> QED  BY <1>1, <1>2, <1>3 DEF Init, TypeOK, Ended

\* Every state of the home, the services and the command is well-formed.
LEMMA TypeStep == TypeOK /\ [Next]_vars => TypeOK'
PROOF
  <1> SUFFICES ASSUME TypeOK, [Next]_vars PROVE TypeOK'
    OBVIOUS
  <1>t. /\ cmd \in DOMAIN First \cup {"none"} /\ pc \in Pcs
        /\ home \in HomeTypes
        /\ state \in [Services -> {"stopped", "running", "waiting"}]
        /\ enabled \subseteq Services /\ was \subseteq {"active", "enabled"}
        /\ left \in [Spendable -> Nat] /\ cut \in BOOLEAN
        /\ missed \subseteq {"active", "enabled"}
    BY PcsAre DEF TypeOK
  <1>s. Old \in Services /\ New \in Services
    BY DEF Services
  <1>k. {"commands", "errors", "kills", "logins", "failures"} = Spendable
    BY DEF Spendable
  <1>p. SUFFICES
          /\ cmd' \in DOMAIN First \cup {"none"} /\ pc' \in Pcs
          /\ home' \in HomeTypes
          /\ state' \in [Services -> {"stopped", "running", "waiting"}]
          /\ enabled' \subseteq Services /\ was' \subseteq {"active", "enabled"}
          /\ left' \in [Spendable -> Nat] /\ cut' \in BOOLEAN
          /\ missed' \subseteq {"active", "enabled"}
    BY PcsAre DEF TypeOK
  <1> USE DEF Goto, sysVars
  <1>1. ASSUME NEW m \in DOMAIN First, Start(m) PROVE TypeOK'
    <2>1. First[m] \in Pcs
      BY DEF First, Pcs
    <2> QED  BY <1>t, <1>k, <1>1, <2>1, SpendKeeps, PcsAre DEF Start, TypeOK
  <1>2. CASE CheckoutUpstream \/ Build \/ Seal
    <2>1. home' \in HomeTypes
      <3>1. \A t \in {"none", "repo", "pinned"} : [home EXCEPT !.tree = t] \in HomeTypes
        BY <1>t DEF HomeTypes
      <3>2. [home EXCEPT !.binary = "pinned"] \in HomeTypes
        BY <1>t DEF HomeTypes
      <3>3. Sealed(home) \in HomeTypes
        BY <1>t DEF HomeTypes, Sealed
      <3> QED  BY <1>2, <3>1, <3>2, <3>3 DEF CheckoutUpstream, Build, Seal
    <2> QED  BY <1>t, <1>2, <2>1 DEF CheckoutUpstream, Build, Seal, Pcs
  <1>3. CASE Vet
    BY <1>t, <1>3 DEF Vet, Pcs, Ended
  <1>4. CASE WriteUnit \/ WriteMarker
    <2>1. home' \in HomeTypes
      <3>1. [home EXCEPT !.unit = "ours"] \in HomeTypes
        BY <1>t DEF HomeTypes
      <3>2. [home EXCEPT !.marker = TRUE] \in HomeTypes
        BY <1>t DEF HomeTypes
      <3> QED  BY <1>t, <1>4, <3>1, <3>2 DEF WriteUnit, WriteMarker
    <2> QED  BY <1>t, <1>4, <2>1 DEF WriteUnit, WriteMarker, Pcs, Ended
  <1>5. CASE AskActive \/ AskEnabled
    <2>1. left' \in [Spendable -> Nat]
      BY <1>t, <1>k, <1>5, SpendKeeps DEF AskActive, AskEnabled
    <2>2. was' \subseteq {"active", "enabled"} /\ missed' \subseteq {"active", "enabled"}
      BY <1>t, <1>5 DEF AskActive, AskEnabled
    <2> QED  BY <1>t, <1>5, <2>1, <2>2 DEF AskActive, AskEnabled, Pcs
  <1>6. CASE StopOld \/ DisableOld \/ DaemonReload
    BY <1>t, <1>6 DEF StopOld, DisableOld, DaemonReload, Pcs
  <1>7. CASE EnableNow
    <2>1. enabled' \subseteq Services /\ state' \in [Services -> {"stopped", "running", "waiting"}]
      BY <1>t, <1>s, <1>7 DEF EnableNow
    <2>2. left' \in [Spendable -> Nat]
      BY <1>t, <1>k, <1>7, SpendKeeps DEF EnableNow
    <2> QED  BY <1>t, <1>7, <2>1, <2>2 DEF EnableNow, Pcs, Ended
  <1>8. CASE Verify \/ StartNew \/ StopNew \/ DisableNew
    BY <1>t, <1>8 DEF Verify, StartNew, StopNew, DisableNew, Pcs, Ended
  <1>9. CASE RemoveUnit \/ RemoveMarker
    <2>1. home' \in HomeTypes
      BY ZenonT(60), <1>t, <1>9 DEF RemoveUnit, RemoveMarker, HomeTypes
    <2> QED  BY <1>t, <1>9, <2>1 DEF RemoveUnit, RemoveMarker, Pcs, Ended
  <1>10. CASE Fail \/ Kill
    <2>1. left' \in [Spendable -> Nat]
      BY <1>t, <1>k, <1>10, SpendKeeps DEF Fail, Kill
    <2> QED  BY <1>t, <1>10, <2>1 DEF Fail, Kill, Pcs, Ended, Between
  <1>11. CASE Relogin
    <2>1. left' \in [Spendable -> Nat]
      BY <1>t, <1>k, <1>11, SpendKeeps DEF Relogin
    <2>2. state' \in [Services -> {"stopped", "running", "waiting"}]
      BY <1>11 DEF Relogin
    <2> QED  BY <1>t, <1>11, <2>1, <2>2 DEF Relogin, Pcs, Ended, Between
  <1>12. CASE UserUnit
    <2>1. home' \in HomeTypes
      BY <1>t, <1>12 DEF UserUnit, HomeTypes
    <2> QED  BY <1>t, <1>12, <2>1 DEF UserUnit
  <1>13. ASSUME NEW s \in Services, BridgeFails(s) \/ BridgeRestarts(s) PROVE TypeOK'
    <2>1. left' \in [Spendable -> Nat]
      BY <1>t, <1>k, <1>13, SpendKeeps DEF BridgeFails, BridgeRestarts
    <2> QED  BY <1>t, <1>13, <2>1, PcsAre DEF BridgeFails, BridgeRestarts, TypeOK
  <1>14. CASE UNCHANGED vars
    BY <1>t, <1>14 DEF vars
  <1> QED
    <2>1. CASE \E m \in DOMAIN First : Start(m)
      BY <1>1, <2>1, PcsAre DEF TypeOK
    <2>2. CASE \E s \in Services : BridgeFails(s) \/ BridgeRestarts(s)
      BY <1>13, <2>2, PcsAre DEF TypeOK
    <2> QED  BY <1>2, <1>3, <1>4, <1>5, <1>6, <1>7, <1>8, <1>9, <1>10, <1>11, <1>12,
                <1>14, <2>1, <2>2 DEF Next, Command, World

THEOREM TypeCorrect == Spec => []TypeOK
  BY TypeInit, TypeStep, PTL DEF Spec

-----------------------------------------------------------------------------
(* The switch between the two services.                                     *)

\* The answers about the old service are still right when they are used, but for
\* what they missed: nothing enables it again, and only a service that waited could
\* start meanwhile.
SwitchInv ==
  /\ OneAtLogin
  /\ pc \in {"stop_old", "disable_old"} =>
       (Old \in enabled => "enabled" \in was \/ "enabled" \in missed)
  /\ pc \in {"reload", "enable"} => Old \notin enabled \/ "enabled" \in missed
  /\ pc \in {"ask_enabled", "stop_old"} =>
       "active" \in missed \/ "active" \in was \/ state[Old] = "stopped"
  /\ pc \in {"disable_old", "reload", "enable"} => "active" \in missed \/ state[Old] = "stopped"
  /\ RefusesOnlyForeign

LEMMA SwitchInit == Init => SwitchInv
  BY DEF Init, SwitchInv, OneAtLogin, RefusesOnlyForeign, Old, New

LEMMA SwitchStep == TypeOK /\ SwitchInv /\ [Next]_vars => SwitchInv'
PROOF
  <1> SUFFICES ASSUME TypeOK, SwitchInv, [Next]_vars PROVE SwitchInv'
    OBVIOUS
  <1>t. /\ state \in [Services -> {"stopped", "running", "waiting"}]
        /\ home \in HomeTypes /\ enabled \subseteq Services
        /\ Old \in Services /\ New \in Services /\ Old # New
    BY DEF TypeOK, Services, Old, New
  <1> USE DEF SwitchInv, OneAtLogin, RefusesOnlyForeign, Goto, sysVars
  <1>1. ASSUME NEW m \in DOMAIN First, Start(m) PROVE SwitchInv'
    <2>1. pc' \in {"vet", "checkout", "start", "stop", "disable_new"}
      BY <1>1 DEF Start, First
    <2> QED  BY <1>1, <2>1 DEF Start
  <1>2. CASE CheckoutUpstream \/ Build \/ Seal \/ Vet
    BY <1>2 DEF CheckoutUpstream, Build, Seal, Vet
  <1>3. CASE WriteUnit
    <2>1. home.unit \in {"none", "foreign", "ours"}
      BY <1>t DEF HomeTypes
    <2> QED  BY <1>3, <2>1 DEF WriteUnit, UnitIsOurs
  <1>4. CASE WriteMarker \/ Verify \/ StartNew \/ StopNew \/ RemoveUnit \/ RemoveMarker
    BY <1>4 DEF WriteMarker, Verify, StartNew, StopNew, RemoveUnit, RemoveMarker
  <1>5. CASE AskActive
    <2>1. "active" \in was' \/ "active" \in missed' \/ state[Old] = "stopped"
      BY <1>5 DEF AskActive
    <2>2. "enabled" \in missed => "enabled" \in missed'
      BY <1>5 DEF AskActive
    <2> QED  BY <1>5, <2>1, <2>2 DEF AskActive
  <1>14. CASE AskEnabled
    <2>1. "enabled" \in was' \/ "enabled" \in missed' \/ Old \notin enabled
      BY <1>14 DEF AskEnabled
    <2>2. missed \subseteq missed' /\ was \subseteq was'
      BY <1>14 DEF AskEnabled
    <2> QED  BY <1>14, <2>1, <2>2 DEF AskEnabled
  <1>6. CASE StopOld
    BY <1>t, <1>6 DEF StopOld, MustStop
  <1>7. CASE DisableOld
    BY <1>t, <1>7 DEF DisableOld, MustDisable
  <1>8. CASE DaemonReload \/ EnableNow \/ DisableNew
    BY <1>t, <1>8 DEF DaemonReload, EnableNow, DisableNew
  <1>9. CASE Fail \/ Kill \/ Relogin
    BY <1>t, <1>9 DEF Fail, Kill, Relogin, Active, Ended
  <1>10. CASE UserUnit
    BY <1>t, <1>10 DEF UserUnit, Active, Ended, HomeTypes
  <1>11. ASSUME NEW s \in Services, BridgeFails(s) \/ BridgeRestarts(s) PROVE SwitchInv'
    BY <1>t, <1>11 DEF BridgeFails, BridgeRestarts
  <1>12. CASE UNCHANGED vars
    BY <1>12 DEF vars
  <1> QED  BY <1>1, <1>2, <1>3, <1>4, <1>5, <1>6, <1>7, <1>8, <1>9, <1>10, <1>11, <1>12, <1>14
           DEF Next, Command, World

\* configure_service() never leaves both bridges enabled, wherever it stops.
THEOREM OnlyOneAtLogin == Spec => []OneAtLogin
PROOF
  <1>1. SwitchInv => OneAtLogin
    BY DEF SwitchInv
  <1> QED  BY <1>1, TypeInit, TypeStep, SwitchInit, SwitchStep, PTL DEF Spec

\* What a command left half-done never makes a later one refuse.
THEOREM OnlyForeignIsRefused == Spec => []RefusesOnlyForeign
PROOF
  <1>1. SwitchInv => RefusesOnlyForeign
    BY DEF SwitchInv
  <1> QED  BY <1>1, TypeInit, TypeStep, SwitchInit, SwitchStep, PTL DEF Spec

\* The old bridge does not run when the new one is started, but for the case that
\* SwitchIsExclusive excepts.
THEOREM OneBridgeStarts == Spec => SwitchIsExclusive
PROOF
  <1>1. TypeOK /\ SwitchInv /\ [Next]_vars =>
          (pc = "enable" /\ pc' \in {"verify", "done"} =>
             state[Old] # "running" \/ "active" \in missed)
    BY DEF SwitchInv
  <1> QED  BY <1>1, TypeInit, TypeStep, SwitchInit, SwitchStep, PTL
           DEF Spec, SwitchIsExclusive

-----------------------------------------------------------------------------
(* The unit with its marker.                                                *)

\* Unless a command was cut between them, unit and marker go together: the marker
\* is there exactly with IRAuth's unit, but for the moments when one is written
\* or removed and the other is next.
MarkerInv ==
  /\ ~cut => /\ home.marker => home.unit = "ours" \/ pc = "unmark"
             /\ home.unit = "ours" => home.marker \/ pc = "marker"
  /\ pc = "unmark" => home.unit = "none"
  /\ pc = "marker" => home.unit = "ours"
  /\ cmd = "uninstall" => pc \in Ended \cup {"disable_new", "remove", "unmark"}
  /\ cmd # "uninstall" => pc \notin {"disable_new", "remove", "unmark"}

LEMMA MarkerInit == Init => MarkerInv
PROOF
  <1>1. Init => home.unit # "ours" /\ ~home.marker
    BY PasskeyAssumption DEF Init
  <1> QED  BY <1>1 DEF Init, MarkerInv, Ended

LEMMA MarkerStep == TypeOK /\ MarkerInv /\ [Next]_vars => MarkerInv'
PROOF
  <1> SUFFICES ASSUME TypeOK, MarkerInv, [Next]_vars PROVE MarkerInv'
    OBVIOUS
  <1>t. /\ home \in HomeTypes /\ home.unit \in {"none", "foreign", "ours"}
        /\ home.marker \in BOOLEAN /\ cut \in BOOLEAN
    BY DEF TypeOK, HomeTypes
  <1> USE DEF MarkerInv, Goto, Ended
  <1>1. ASSUME NEW m \in DOMAIN First, Start(m) PROVE MarkerInv'
    <2>1. /\ pc' \in {"vet", "checkout", "start", "stop", "disable_new"}
          /\ pc' = "disable_new" <=> m = "uninstall"
      BY <1>1 DEF Start, First
    <2> QED  BY <1>1, <2>1 DEF Start, Active
  <1>2. CASE CheckoutUpstream \/ Build \/ Seal
    <2>1. UNCHANGED <<cmd, cut>> /\ home'.unit = home.unit /\ home'.marker = home.marker
      BY <1>t, <1>2 DEF CheckoutUpstream, Build, Seal, Sealed, HomeTypes
    <2>2. pc \in {"checkout", "build", "seal"} /\ pc' \in {"checkout", "build", "seal", "unit"}
      BY <1>2 DEF CheckoutUpstream, Build, Seal
    <2> QED  BY <2>1, <2>2
  <1>3. CASE Vet \/ AskActive \/ AskEnabled \/ StopOld \/ DisableOld \/ DaemonReload \/ Verify
    BY <1>3 DEF Vet, AskActive, AskEnabled, StopOld, DisableOld, DaemonReload, Verify
  <1>4. CASE WriteUnit
    BY <1>t, <1>4 DEF WriteUnit, UnitIsOurs, HomeTypes
  <1>5. CASE WriteMarker
    BY <1>t, <1>5 DEF WriteMarker, HomeTypes
  <1>6. CASE EnableNow \/ StartNew \/ StopNew \/ DisableNew
    BY <1>6 DEF EnableNow, StartNew, StopNew, DisableNew
  <1>7. CASE RemoveUnit
    BY <1>t, <1>7 DEF RemoveUnit, MayRemove, HomeTypes
  <1>8. CASE RemoveMarker
    BY <1>t, <1>8 DEF RemoveMarker, HomeTypes
  <1>9. CASE Fail \/ Kill \/ Relogin
    BY <1>9 DEF Fail, Kill, Relogin, Active, Between
  <1>10. CASE UserUnit
    BY <1>t, <1>10 DEF UserUnit, Active, HomeTypes
  <1>11. ASSUME NEW s \in Services, BridgeFails(s) \/ BridgeRestarts(s) PROVE MarkerInv'
    BY <1>11 DEF BridgeFails, BridgeRestarts
  <1>12. CASE UNCHANGED vars
    BY <1>12 DEF vars
  <1> QED  BY <1>1, <1>2, <1>3, <1>4, <1>5, <1>6, <1>7, <1>8, <1>9, <1>10, <1>11, <1>12
           DEF Next, Command, World

\* A step changes the unit only in the two ways the commands have.
LEMMA UnitChanges ==
  TypeOK /\ [Next]_vars =>
    \/ home'.unit = home.unit
    \/ home.unit = "none"
    \/ pc = "remove" /\ home.marker /\ home'.unit = "none"
PROOF
  <1> SUFFICES ASSUME TypeOK, [Next]_vars, home'.unit # home.unit
               PROVE  home.unit = "none" \/ (pc = "remove" /\ home.marker /\ home'.unit = "none")
    OBVIOUS
  <1>t. home \in HomeTypes
    BY DEF TypeOK
  <1>1. ASSUME UNCHANGED home PROVE FALSE
    BY <1>1
  <1>2. CASE CheckoutUpstream \/ Build \/ Seal \/ WriteMarker \/ RemoveMarker
    BY <1>t, <1>1, <1>2 DEF CheckoutUpstream, Build, Seal, Sealed, WriteMarker, RemoveMarker, HomeTypes
  <1>3. CASE WriteUnit
    BY <1>t, <1>1, <1>3 DEF WriteUnit
  <1>4. CASE RemoveUnit
    BY <1>t, <1>1, <1>4 DEF RemoveUnit, MayRemove, HomeTypes
  <1>5. CASE UserUnit
    BY <1>t, <1>5 DEF UserUnit
  <1>6. ASSUME \/ \E m \in DOMAIN First : Start(m)
               \/ Vet \/ AskActive \/ AskEnabled \/ StopOld \/ DisableOld
               \/ DaemonReload \/ EnableNow
               \/ Verify \/ StartNew \/ StopNew \/ DisableNew \/ Fail \/ Kill \/ Relogin
               \/ (\E s \in Services : BridgeFails(s) \/ BridgeRestarts(s))
               \/ UNCHANGED vars
        PROVE  FALSE
    BY <1>1, <1>6 DEF Start, Vet, AskActive, AskEnabled, StopOld, DisableOld, DaemonReload,
       EnableNow, Verify,
       StartNew, StopNew, DisableNew, Fail, Kill, Relogin, BridgeFails, BridgeRestarts, vars
  <1> QED  BY <1>2, <1>3, <1>4, <1>5, <1>6 DEF Next, Command, World

\* The uninstaller and the commands keep the user's unit, and leave none of
\* IRAuth's behind, as UninstallTakesOwnUnit says.
THEOREM OwnUnitIsTaken == Spec => UninstallTakesOwnUnit
PROOF
  <1>1. ASSUME TypeOK, MarkerInv, [Next]_vars, ~cut
        PROVE  /\ home.unit = "foreign" => home'.unit = "foreign"
               /\ cmd = "uninstall" /\ pc # "done" /\ pc' = "done" => home'.unit # "ours"
    <2>1. home.unit = "foreign" => home'.unit = "foreign"
      BY <1>1, UnitChanges DEF MarkerInv
    <2>2. ASSUME cmd = "uninstall", pc # "done", pc' = "done", home'.unit = "ours"
          PROVE  FALSE
      <3>1. pc \in Ended \cup {"disable_new", "remove", "unmark"}
        BY <1>1, <2>2 DEF MarkerInv
      <3>2. CASE RemoveUnit
        BY <1>1, <2>2, <3>2 DEF RemoveUnit, MayRemove, MarkerInv, Goto
      <3>3. CASE RemoveMarker
        BY <1>1, <2>2, <3>3 DEF RemoveMarker, MarkerInv, TypeOK, HomeTypes
      <3>4. ASSUME ~RemoveUnit, ~RemoveMarker PROVE FALSE
        <4>1. ASSUME NEW m \in DOMAIN First, Start(m) PROVE FALSE
          BY <2>2, <4>1 DEF Start, First, Goto
        <4> QED  BY <1>1, <2>2, <3>1, <3>4, <4>1 DEF Next, Command, World,
               CheckoutUpstream, Build, Seal, Vet, WriteUnit, WriteMarker, AskActive, AskEnabled, StopOld,
               DisableOld, DaemonReload, EnableNow, Verify, StartNew, StopNew, DisableNew,
               Fail, Kill, Relogin, UserUnit, BridgeFails, BridgeRestarts, vars, Goto, Ended,
               Active
      <3> QED  BY <3>2, <3>3, <3>4
    <2> QED  BY <2>1, <2>2
  <1>2. TypeOK /\ MarkerInv /\ [Next]_vars =>
          (~cut => /\ home.unit = "foreign" => home'.unit = "foreign"
                   /\ cmd = "uninstall" /\ pc # "done" /\ pc' = "done" => home'.unit # "ours")
    BY <1>1
  <1> QED  BY <1>2, TypeInit, TypeStep, MarkerInit, MarkerStep, PTL
           DEF Spec, UninstallTakesOwnUnit
=============================================================================

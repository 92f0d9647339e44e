\* The promise of a backup, against errors in a rollback.
SPECIFICATION Spec
CONSTANTS
  Procs = {p1}
  sudo = sudo
  polkit = polkit
  Services = {sudo, polkit}
  Commands <- SetupCommands
  NoBackup = NoBackup
  NoSnapshot = NoSnapshot
  NoService = NoService
  MaxFaults = 2
  MaxCrashes = 0
  MaxEdits = 0
INVARIANTS HookedHasBackup
\* Every command runs once, so the system comes to rest.
CHECK_DEADLOCK FALSE

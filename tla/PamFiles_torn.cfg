\* The promise of a backup, against a kill in the middle of making one.
SPECIFICATION Spec
CONSTANTS
  Procs = {p1, p2}
  sudo = sudo
  polkit = polkit
  Services = {sudo, polkit}
  Commands <- SetupCommands
  NoBackup = NoBackup
  NoSnapshot = NoSnapshot
  NoService = NoService
  MaxFaults = 0
  MaxCrashes = 1
  MaxEdits = 0
SYMMETRY ProcSymmetry
INVARIANTS HookedHasBackup
\* Every command runs once, so the system comes to rest.
CHECK_DEADLOCK FALSE

\* Three commands one after the other, with errors, kills and edits between them.
SPECIFICATION Spec
CONSTANTS
  Procs = {p1, p2, p3}
  sudo = sudo
  polkit = polkit
  Services = {sudo, polkit}
  Commands <- AllCommands
  NoBackup = NoBackup
  NoSnapshot = NoSnapshot
  NoService = NoService
  MaxFaults = 2
  MaxCrashes = 1
  MaxEdits = 1
CONSTRAINT TwoTroubles
SYMMETRY ProcSymmetry
INVARIANTS TypeOK ManifestAccurate NoDanglingHook BackupBeforeChange
PROPERTIES RollbackRestores DisableRestores SetupClosesBypass
\* Every command runs once, so the system comes to rest.
CHECK_DEADLOCK FALSE

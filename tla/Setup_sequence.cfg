\* Three commands with two accidents, or four with one.
SPECIFICATION FairSpec
CONSTANTS
  sudo = sudo
  polkit = polkit
  Services = {sudo, polkit}
  ir = ir
  rgb = rgb
  Cameras = {ir, rgb}
  NoCamera = NoCamera
  NoBackup = NoBackup
  Systems <- MCSystems
  Bounds <- MCBounds
INVARIANTS HookedIsServed RefusesOnlyForeign ScansMeetOnlyOnRerun
PROPERTIES  UninstallTakesOwn CommandsEnd
\* Every bound is spent in the end.
CHECK_DEADLOCK FALSE

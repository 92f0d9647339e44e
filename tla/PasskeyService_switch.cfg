\* Three commands on each kind of home, with one error, one kill, one new login
\* and one failure of a bridge, at any moment.
SPECIFICATION Spec
CONSTANTS
  Homes <- MCHomes
  Bounds <- MCBounds
INVARIANTS OneAtLogin RefusesOnlyForeign
PROPERTIES SwitchIsExclusive UninstallTakesOwnUnit
\* Every bound is spent in the end.
CHECK_DEADLOCK FALSE

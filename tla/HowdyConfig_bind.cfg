\* Every config.ini of up to three lines, a command that ends at any step, one edit.
SPECIFICATION Spec
CONSTANTS
  Devices = {ir1, ir2}
  NoDevice = NoDevice
  NoFile = NoFile
  MaxLines = 3
  MaxStops = 1
  MaxEdits = 1
SYMMETRY DeviceSymmetry
INVARIANTS TypeOK
PROPERTIES CameraMovesToSelected BindKeepsTheRest UninstallGivesBack
\* A config.ini without a [video] section is never bound.
CHECK_DEADLOCK FALSE

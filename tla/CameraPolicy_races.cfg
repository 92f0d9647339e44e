\* A setup and the daemon's checks while two things change.
SPECIFICATION Spec
CONSTANTS
  video0 = video0
  video1 = video1
  combo = combo
  hub = hub
  UsbIds = {combo, hub}
  Interfaces = {"00", "02"}
  Nothing = Nothing
  Nodes = {video0, video1}
  Link = Link
  NoPath = NoPath
  Absent = Absent
  Cameras <- MCCameras
  Lists <- MCLists
  MaxSetups = 1
  MaxChanges = 2
INVARIANTS BoundIsStrict
PROPERTIES AcceptIsJustified KeepsWorkingBinding

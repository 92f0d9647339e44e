\* Two connections of every kind compete for workers, the queue and the camera,
\* which is rebound or replugged once, and the daemon dies once, at any moment.
SPECIFICATION Spec
CONSTANTS
  Conns = {c1, c2}
  Workers = {w1, w2}
  QueueCap = 1
  Uids <- MCUids
  Root = 0
  Names <- MCNames
  UidOf <- MCUidOf
  OddNames <- MCOdd
  Requests <- AllRequests
  Cameras = {ir, rgb}
  NoUid = NoUid
  NoConn = NoConn
  NoWorker = NoWorker
  NoCamera = NoCamera
  NoRequest = NoRequest
  MaxChanges = 1
  MaxCrashes = 1
SYMMETRY MCSymmetry
INVARIANTS SerializedCamera SettledScanIsStrict GrantJustified PanicContained HandedOverOnce
PROPERTY IsFaceGate
\* Clients are used once, so the system comes to rest.
CHECK_DEADLOCK FALSE

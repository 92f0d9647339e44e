\* One reconfiguration or replug, between the check and the capture.
SPECIFICATION Spec
CONSTANTS
  Conns = {c1, c2}
  Workers = {w1, w2}
  QueueCap = 1
  Uids <- MCUids
  Root = 0
  Names <- MCNames
  UidOf <- MCUidOf
  OddNames <- MCOdd
  Requests <- OwnRequests
  Cameras = {ir, rgb}
  NoUid = NoUid
  NoConn = NoConn
  NoWorker = NoWorker
  NoCamera = NoCamera
  NoRequest = NoRequest
  MaxChanges = 1
  MaxCrashes = 0
PROPERTY EveryScanIsStrict
\* Clients are used once, so the system comes to rest.
CHECK_DEADLOCK FALSE

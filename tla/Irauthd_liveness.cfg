\* No symmetry: the properties are temporal.
SPECIFICATION FairSpec
CONSTANTS
  Conns = {c1, c2}
  Workers = {w1, w2}
  QueueCap = 1
  Uids <- MCUids
  Root = 0
  Names <- MCNames
  UidOf <- MCUidOf
  OddNames <- MCOdd
  Requests <- OwnRequests
  Cameras = {ir}
  NoUid = NoUid
  NoConn = NoConn
  NoWorker = NoWorker
  NoCamera = NoCamera
  NoRequest = NoRequest
  MaxChanges = 0
  MaxCrashes = 1
PROPERTIES EveryConnectionServed EveryClientDecided
\* Clients are used once, so the system comes to rest.
CHECK_DEADLOCK FALSE

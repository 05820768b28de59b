SPECIFICATION Spec
CONSTANTS
  Node = {"a", "b"}
  Attr = {"active", "draining"}
  Status = {"active", "draining"}
  Label = {}
  Req = {}
  Reports <- AllReports
  NoRow = NoRow
  OwnerAbove <- MCOwnerAbove
  RowChecksum <- MCRowChecksum
  EventChecksum <- MCEventChecksum
  Peers <- MutualPeers
  Tables = {"rows", "events"}
  Grace = 2
  Wall <- UnevenWall
  MaxSeq = 0
  MaxEpoch = 1
  MaxEvents = 2
INVARIANT TypeOK
INVARIANT ClockCoversStore

SPECIFICATION Spec
CONSTANTS
  Node = {"a", "b"}
  Attr = {"active", "draining", "gpu"}
  Status = {"active"}
  Label = {"gpu"}
  Req = {"q"}
  Reports = {}
  NoRow = NoRow
  OwnerAbove <- MCOwnerAbove
  RowChecksum <- MCRowChecksum
  EventChecksum <- MCEventChecksum
  Peers <- MutualPeers
  Tables = {"rows"}
  Grace = 1
  Wall <- OneTickWall
  MaxSeq = 1
  MaxEpoch = 1
  MaxEvents = 1
INVARIANT MatchMeansInSync

SPECIFICATION Spec
CONSTANTS
  Node = {"a", "b"}
  Attr = {"active"}
  Status = {"active"}
  Label = {}
  Req = {}
  Reports <- Leaves
  NoRow = NoRow
  OwnerAbove <- MCOwnerAbove
  RowChecksum <- MCRowChecksum
  EventChecksum <- MCEventChecksum
  Peers <- MutualPeers
  Tables = {"rows"}
  Grace = 1
  Wall <- UnevenWall
  MaxSeq = 1
  MaxEpoch = 1
  MaxEvents = 2
PROPERTY HigherHLCWins

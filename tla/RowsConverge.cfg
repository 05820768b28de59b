SPECIFICATION FairSpec
CONSTANTS
  Node = {"a", "b", "c"}
  Attr = {"active"}
  Status = {"active"}
  Label = {}
  Req = {}
  Reports = {}
  NoRow = NoRow
  OwnerAbove <- MCOwnerAbove
  RowChecksum <- MCRowChecksum
  EventChecksum <- MCEventChecksum
  Peers <- RingPeers
  Tables = {"rows"}
  Grace = 1
  Wall <- SkewedWall
  MaxSeq = 0
  MaxEpoch = 1
  MaxEvents = 1
PROPERTY RowsConverge

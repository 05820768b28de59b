SPECIFICATION Spec
CONSTANTS
  Node = {"a"}
  Attr = {"active", "gpu", "ssd"}
  Status = {"active"}
  Label = {"gpu", "ssd"}
  Req = {"q", "r"}
  Reports = {}
  NoRow = NoRow
  OwnerAbove <- MCOwnerAbove
  RowChecksum <- MCRowChecksum
  EventChecksum <- MCEventChecksum
  Peers <- MutualPeers
  Tables = {"rows"}
  Grace = 1
  Wall <- OneTickWall
  MaxSeq = 2
  MaxEpoch = 1
  MaxEvents = 1
PROPERTY PutMergesLabels

SPECIFICATION Spec
CONSTANTS
  Node = {"a", "b"}
  Attr = {"active"}
  Status = {"active"}
  Label = {}
  Req = {}
  Reports = {}
  NoRow = NoRow
  OwnerAbove <- MCOwnerAbove
  RowChecksum <- MCRowChecksum
  EventChecksum <- MCEventChecksum
  Peers <- MutualPeers
  Tables = {"events"}
  Grace = 1
  Wall <- UnevenWall
  MaxSeq = 0
  MaxEpoch = 2
  MaxEvents = 1
INVARIANT EventIdentity
INVARIANT OwnLogComplete
PROPERTY LogIsBroadcast

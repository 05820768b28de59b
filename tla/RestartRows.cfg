SPECIFICATION Spec
CONSTANTS
  Node = {"a", "b"}
  Attr = {"active", "draining"}
  Status = {"active", "draining"}
  Label = {}
  Req = {}
  Reports = {}
  NoRow = NoRow
  OwnerAbove <- MCOwnerAbove
  RowChecksum <- MCRowChecksum
  EventChecksum <- MCEventChecksum
  Peers <- MutualPeers
  Tables = {"rows"}
  Grace = 1
  Wall <- FrozenWall
  MaxSeq = 2
  MaxEpoch = 2
  MaxEvents = 1
INVARIANT VersionsAgree
 
PROPERTY PullNeverRegresses

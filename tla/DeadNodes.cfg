\* A node dies while its watchers pull its row from each other.
CONSTANTS
  n1 = n1  n2 = n2
  Watcher = {n1, n2}
  Met = {n1, n2}
  Subject = Subject
  NoCopy = NoCopy
  Cap = 2
  Wall <- FastWall
  MaxBeat = 2
  MaxFlaps = 1
  MaxRelaunches = 1
SPECIFICATION MemberFairSpec
INVARIANT BurialIsPending
 
PROPERTY DeadNodesVanish
CHECK_DEADLOCK FALSE

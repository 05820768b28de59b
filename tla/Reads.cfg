SPECIFICATION FairSpec
CONSTANTS
  Slot = {"q", "r"}
  Id <- ThreeIds
  Workload <- Workloads
  Jitter <- Extremes
  LabelKey = {"gpu"}
  Absent = Absent
  NoRow = NoRow
  Free = Free
CHECK_DEADLOCK FALSE
INVARIANT ConnectionHeldByOpenList
INVARIANT AnswersAreReal
 
INVARIANT WalkMissesNothing
INVARIANT EventPageIsNewest
PROPERTY EveryRequestAnswered

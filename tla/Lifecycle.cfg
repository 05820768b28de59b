\* Every mode of the daemon, to its end.
CONSTANTS
  Lookup <- Names
  Interfaces <- NoCard
  Files <- SomeFiles
  Flags <- SomeFlags
  MaxCalls = 2
SPECIFICATION FairSpec
 
INVARIANT StoreOutlivesHandlers
PROPERTY EndsAsAWhole
CHECK_DEADLOCK FALSE

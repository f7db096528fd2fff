SPECIFICATION FairSpec

CONSTANTS
  u = u
  v = v
  Users = {u, v}
  MaxMessages = 3
  MaxRejects = 1
  MaxCrashes = 1

CHECK_DEADLOCK FALSE

CONSTRAINT FirstIsFromU

INVARIANTS
  BothLogsComplete
  RecentsAreLogged
  OneSidedRecents
  PerSenderOrder
  ViewIsLog

PROPERTIES
  Delivered

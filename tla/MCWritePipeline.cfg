SPECIFICATION Spec

CONSTANTS
  u = u
  v = v
  Users = {u, v}
  MaxWrites = 3
  kMaxPendingWrites = 2
  MaxRefusals = 1
  MaxFaults = 3

CHECK_DEADLOCK FALSE

INVARIANTS
  AnswersMeetTheirWrites
  NotStoppedWhileNeeded
  ToldTheTruth
  NothingLost
  ExactlyOnceUndisturbed

PROPERTIES
  Resolved
  ImplementsQueue
  ImplementsCommits

SPECIFICATION Spec

CONSTANTS
  u = u
  v = v
  Users = {u, v}
  Docs <- MCDocs
  NoDoc = NoDoc
  NoEntry = NoEntry
  MaxTaps = 2
  MaxEdits = 1
  MaxErrors = 1
  MaxAstray = 1

SYMMETRY Symmetry

CHECK_DEADLOCK FALSE

INVARIANTS
  MirrorsInOrder
  GhostsAreLateCreations
  HeartSettles

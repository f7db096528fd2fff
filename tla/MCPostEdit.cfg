SPECIFICATION Spec

CONSTANTS
  Texts = {s, t}
  Same = Same
  N = 2
  MaxSaves = 2
  MaxAdded = 2
  MaxPictures = 3
  MaxFaults = 2

SYMMETRY Symmetry

INVARIANTS
  ListedAreStored
  NothingLeftBehind
  LastSaveStands

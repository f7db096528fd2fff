SPECIFICATION Spec

CONSTANTS
  u1 = u1
  u2 = u2
  p1 = p1
  p2 = p2
  p3 = p3
  c1 = c1
  c2 = c2
  Users = {u1, u2}
  Posts = {p1, p2}
  Calls = {c1}
  ImageCount <- MCTwoAndOne
  Searches <- MCNoSearch
  LossyPosts = {p1}
  LateUsers = {u1}
  NoUser = NoUser
  NoDoc = NoDoc

INVARIANTS
  PublishedWhole
  NoOrphanAfterSuccess

PROPERTIES
  ImplementsBoard

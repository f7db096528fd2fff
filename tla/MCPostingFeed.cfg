SPECIFICATION Spec

CONSTANTS
  u1 = u1
  u2 = u2
  p1 = p1
  p2 = p2
  p3 = p3
  c1 = c1
  c2 = c2
  Users = {u1, u2}
  Posts = {p1, p2}
  Calls = {c1, c2}
  ImageCount <- MCOneImage
  Searches <- MCSearches
  LossyPosts = {p1, p2}
  LateUsers = {}
  NoUser = NoUser
  NoDoc = NoDoc

SYMMETRY FeedSymmetry

INVARIANTS
  FreshIndex
  NoDuplicates


SPECIFICATION FairSpec

CONSTANTS
  me = me
  v = v
  Users = {me, v}
  Me = me
  MaxComments = 4
  MaxRejects = 1
  MaxCrashes = 1

INVARIANTS
  EachListedOnce
  AuthorOrder

PROPERTIES
  CommentEnds
  StoredIsListed

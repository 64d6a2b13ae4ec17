SPECIFICATION FairSpec
CONSTANTS
  u1 = u1  u2 = u2
  p = p  q = q
  User = {u1, u2}
  Problem = {p, q}
  Contests = {1, 2}
  None = None
  Scenes <- MCScenes
INVARIANTS TypeOK ScoreIsCurrent SentenceIsWhole
PROPERTIES NoEarlyPublication WithdrawnStaysOut EverythingIsPublished
CHECK_DEADLOCK FALSE

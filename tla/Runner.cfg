SPECIFICATION FairSpec
CONSTANTS
  r1 = r1  r2 = r2  r3 = r3
  u1 = u1  u2 = u2  u3 = u3
  Req = {r1, r2, r3}
  User = {u1, u2, u3}
  None = None
  Scenes <- MCScenes
INVARIANTS TypeOK NothingLeaks NoOrphanPool OneRunPerUser GateHolds ToldHasAll
PROPERTIES EveryRequestEnds SessionsAreReaped
CHECK_DEADLOCK FALSE

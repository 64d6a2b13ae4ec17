SPECIFICATION BFairSpec
CONSTANTS
  c1 = c1  c2 = c2
  n1 = n1  n2 = n2
  k1 = k1
  p1 = p1  p2 = p2
  None = None
  Sub = {1, 2}
  Conn = {c1}
  JudgeName = {n1, n2}
  Name <- MCName
  Tier <- MCTier
  Kind = {k1}
  KindOf <- MCKindOf
  Requests <- MCRequests
  Env = {"leave", "close"}
  Site = {p1}
  ContestSub = {1}
  NCases = 1
  SiteEnv = {"abort"}
PROPERTIES EverySubmissionEnds

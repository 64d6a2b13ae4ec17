SPECIFICATION Spec
CONSTANTS
  s1 = s1  s2 = s2  s3 = s3
  c1 = c1  c2 = c2  c3 = c3
  n1 = n1  n2 = n2  n3 = n3
  k1 = k1  k2 = k2
  None = None
  Sub = {s1, s2, s3}
  Conn = {c1, c2, c3}
  JudgeName = {n1, n2, n3}
  Name <- MCName
  Tier <- MCTier
  Kind = {k1, k2}
  KindOf <- MCKindOf
  Requests <- MCRequestsNamed
  Env = {"leave"}
INVARIANTS OneAtATime WorkConserving
PROPERTIES NoOvertaking KeepsAReserve ImplementsDispatch

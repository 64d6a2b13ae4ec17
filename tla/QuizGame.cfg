SPECIFICATION FairSpec
CONSTANTS
  A = A  B = B
  Player = {A, B}
  Host = Host
  None = None
  MaxEvents = 1
  Games <- MCGames
INVARIANTS TypeOK ScoreIsItsAnswers BonusIsEarned PointsAreFair CacheIsCurrent NeverOverfull NobodyIsLockedOut
PROPERTIES NeverBack NoEarlyClose TimersMoveTheGame
CHECK_DEADLOCK FALSE

SPECIFICATION FairSpec
CONSTANTS
  Users = {u1, u2, u3, u4}
  NoUser = NoUser
  PlayerLimit = 4
  SpectatorLimit = 0
  ScoreGoal = 1
  MaxSkips = 1
  Picks = {1}
  Workers = {w1}
  Adversities = {}
PROPERTIES
  
  JudgingEnds

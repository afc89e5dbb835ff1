SPECIFICATION Spec
CONSTANTS
  Users = {u1, u2, u3, u4}
  NoUser = NoUser
  PlayerLimit = 4
  SpectatorLimit = 1
  ScoreGoal = 2
  MaxSkips = 2
  Picks = {2}
  Workers = {w1}
  Adversities = {}
SYMMETRY Symmetry
INVARIANTS
  TypeOK
  LobbyClean
  NoGhosts
  TimerMatches
  GoalEndsGame
  PlaysInRound
PROPERTIES
  JudgedOnce
  AwaitsEveryone
  TurnKept

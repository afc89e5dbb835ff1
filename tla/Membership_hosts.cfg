SPECIFICATION Spec
CONSTANTS
  Users = {u1, u2, u3}
  Objects = {g1, g2}
  NoUser = NoUser
  NoGame = NoGame
  NoPlayer = NoPlayer
  MaxGames = 1
  PlayerLimit = 3
  SpectatorLimit = 1
  Serials = {0, 1}
  Threads = {t1, t2}
  Races = {"sameUser"}
SYMMETRY Symmetry
CHECK_DEADLOCK FALSE
INVARIANTS WithinLimits ListedIfPlayed HostIsPlayer
PROPERTY DestroyedEmpty

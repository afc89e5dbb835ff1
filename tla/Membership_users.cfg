SPECIFICATION Spec
CONSTANTS
  Users = {u1, u2, u3}
  Objects = {g1, g2}
  NoUser = NoUser
  NoGame = NoGame
  NoPlayer = NoPlayer
  MaxGames = 3
  PlayerLimit = 3
  SpectatorLimit = 1
  Serials = {0}
  Threads = {t1, t2}
  Races = {"lateJoin", "departures"}
SYMMETRY Symmetry
CHECK_DEADLOCK FALSE
INVARIANTS Consistent GoneUsersAreOut FreeIdOffered

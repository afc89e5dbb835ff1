SPECIFICATION Spec
CONSTANTS
  Users = {a, b, c}
  Watched = {a}
  Fields = {f, g}
  Values = {0, 1}
  Default = 0
  Decks = {d}
  None = None
  MaxDoings = 3
  MaxUnderWay = 2
  Races = {"early", "lateHost", "hasty"}
INVARIANTS
  
  RosterAgrees
  HostKnows
PROPERTIES
  OnlyWhatWasEdited
SYMMETRY Symmetry
CHECK_DEADLOCK FALSE

SPECIFICATION Spec
CONSTANTS
  Manager = {m1, m2}
  Project = {p1, p2}
  p1 = p1
  p2 = p2
  Stem <- MCStem
  UserPath <- MCUserPath
  Content = {a, b}
  a = a
  b = b
  Nothing = Nothing
  MaxCalls = 6
  MaxGroups = 3
CHECK_DEADLOCK FALSE
SYMMETRY Symmetry
INVARIANTS
  TypeOK
  LoadedFilesKept
PROPERTIES
  LoadRestores

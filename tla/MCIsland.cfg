CONSTANTS
  Ports = {"a", "b", "c", "e"}
  Mesh <- Line
  Forceable = {"a"}
  Inputs <- Strong01
  MaxReacts = 1
  Nil = Nil
SPECIFICATION MCSpec
INVARIANTS IslandIsResolved
PROPERTIES RunEnds

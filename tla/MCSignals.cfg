CONSTANTS
  Width = 2
  Variable = TRUE
  DriverSets = {{0}, {0, 1}}
  Overlap = TRUE
  Relink = FALSE
  A = A
  B = B
  P = P
  Q = Q
  Nil = Nil
SPECIFICATION MCSpec
INVARIANTS ValueIsRight ToldTheValue EachIsCalled ListIsSound

CONSTANTS
  Nodes = {n1, n2, n3, n4, n5}
  NodeKinds = {"const", "concat", "ff", "mux", "part_select"}
  MaxStart = 4
  MaxPads = 1
  Links = {n1, n2, n3, n4}
  Nexuses = {n1, n2, n3, n4}
  Kinds = {"input", "var", "0", "z", "pull1"}
  Wirings <- OneSubstitute
  Nil = Nil
SPECIFICATION MCSpec
SYMMETRY Symmetry
INVARIANTS WalkIsSound FixedPointSawAll CirclesAreNets DrivenIsCurrent

CONSTANTS
  Threads = {root, t1, t2, t3}
  root = root
  Scopes = {T, F}
  Contexts = {c1, c2, c3}
  MaxCalls = 2
  MaxAllocs = 3
  Disables = 1
  Nil = Nil
SPECIFICATION MCSpec
SYMMETRY Symmetry
INVARIANTS RightContexts Accounted FunctorFollows OwnArguments
CHECK_DEADLOCK FALSE

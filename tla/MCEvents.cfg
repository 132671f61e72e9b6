CONSTANTS
  Signals = {"x", "y", "z"}
  Functors = {"p0", "p1", "f", "g"}
  Events = {"ef", "eg", "ey"}
  Fanout <- SlicesFanout
  Gate <- SlicesGate
  Edge <- SlicesEdge
  StoreOp <- SlicesStore
  Concats <- SlicesConcats
  Threads = {"A", "B"}
  Values = {0, 1, 2}
  MaxStores = 4
  Nil = Nil
  c1 = c1
  c2 = c2
  c3 = c3
  event_ctls = event_ctls
SPECIFICATION MCSpec
INVARIANTS TransactionsAccounted SeenAtRest ControlsRun
PROPERTIES NoGlitchSeen

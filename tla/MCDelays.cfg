CONSTANTS
  Parts = {"two", "three", "real", "path", "put"}
  Kind = "vec4"
  Values = {"0", "1", "x"}
  FirstValue = "x"
  Delays = {0, 2}
  FirstDelays <- SlowFall
  IgnoreDecay = TRUE
  Early = 1
  MaxInputs = 5
  MaxSets = 2
  MaxTime = 8
  srcA = srcA
  srcB = srcB
  srcC = srcC
  MaxPathTime = 4
  MaxPathInputs = 3
  Nil = Nil
SPECIFICATION MCSpec
INVARIANTS InputOnItsWay LatestApply
PROPERTIES NoPulse ChangesOnTime
CHECK_DEADLOCK FALSE

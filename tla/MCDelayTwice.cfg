CONSTANTS
  Parts = {"two"}
  Kind = "vec4"
  Values = {"0", "1", "x"}
  FirstValue = "x"
  Delays = {}
  FirstDelays <- SlowFall
  IgnoreDecay = TRUE
  Early = 2
  MaxInputs = 4
  MaxSets = 0
  MaxTime = 8
  srcA = srcA
  srcB = srcB
  srcC = srcC
  MaxPathTime = 4
  MaxPathInputs = 3
  Nil = Nil
SPECIFICATION MCSpec
INVARIANTS FollowsInput
CHECK_DEADLOCK FALSE

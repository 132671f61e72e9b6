CONSTANTS
  TimeMod = 4
  Delays = {0, 1, 3}
  MaxEvents = 3
  MaxInterrupts = 1
  Stopped = {FALSE}
  Nil = Nil

SPECIFICATION Spec
INVARIANTS HeadIsCurrent DeltaList RunsWhenDue NoSilentLoss
PROPERTIES InOrder ImplementsQueue

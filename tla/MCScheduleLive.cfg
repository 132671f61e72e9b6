CONSTANTS
  TimeMod = 4
  Delays = {0, 1, 3}
  MaxEvents = 2
  MaxInterrupts = 1
  Stopped = {TRUE, FALSE}
  Nil = Nil
SPECIFICATION FairSpec
PROPERTIES Terminates EventuallyRuns

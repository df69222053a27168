CONSTANTS
  c1 = c1
  c2 = c2
  Client = {c1, c2}
  PipeSize = 3
  Start = {"clean", "stopped", "nopipe", "base"}
SPECIFICATION FairSpec
INVARIANTS
  TypeOK
  OneShot
  SleepsThroughNothing
PROPERTIES
  PressReported
  CallsReturn
  JoinReturnsWhenDisabled

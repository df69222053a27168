CONSTANTS
  t1 = t1
  t2 = t2
  s1 = s1
  s2 = s2
  HalThread <- MCThreads
  Stream <- MCStreams
  BufferId = {7}
  mNumPartialResults = 2
  MaxFrames = 2
  MaxConfigurations = 2
SYMMETRY MCSymmetry
SPECIFICATION Spec
INVARIANTS
  TypeOK
  IdleIsEmpty
  InflightIsOwed
  HalBuffersAreImported
  StreamsHaveCaches
  AskedIsShown
  BoostOnce
  ClosedIsReleased

CONSTANTS
  t1 = t1
  t2 = t2
  Thread = {t1, t2}
  NoThread = NoThread
  v = v
  p = p
  Stream = {v, p}
  Batched = {v}
  NumPartial = 1
  Burst <- PairAndOne
  MaxErrors = 0
  Ahead = {}
  MayStall = FALSE
SPECIFICATION FairSpec
PROPERTY ResultsSpec

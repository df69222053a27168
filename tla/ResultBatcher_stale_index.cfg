CONSTANTS
  t1 = t1
  t2 = t2
  Thread = {t1, t2}
  NoThread = NoThread
  v = v
  Stream = {v}
  Batched = {v}
  NumPartial = 1
  Burst <- TwoPairs
  MaxErrors = 1
  Ahead = {}
  MayStall = FALSE
SPECIFICATION Spec
SYMMETRY ThreadSymmetry
PROPERTY FlushesOnlyEarlierBatches

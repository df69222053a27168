CONSTANTS
  t1 = t1
  t2 = t2
  Thread = {t1, t2}
  NoThread = NoThread
  v = v
  Stream = {v}
  Batched = {v}
  NumPartial = 2
  Burst <- OnePair
  MaxErrors = 1
  Ahead = {1}
  MayStall = TRUE
SPECIFICATION Spec
SYMMETRY ThreadSymmetry
INVARIANTS
  AccountedOnce
PROPERTY ResultsUntilDisturbed

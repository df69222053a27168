CONSTANTS
  u1 = u1
  u2 = u2
  u3 = u3
  Usecase = {u1, u2, u3}
SPECIFICATION Spec
INVARIANTS
  PathFollowsProperty

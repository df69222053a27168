CONSTANTS
  Camera = {"0", "1", "100"}
  Legacy = {"0", "1"}
  Blacklisted = {"1"}
  MaxChanges = 3
  MaxDeaths = 1
SPECIFICATION Spec
CHECK_DEADLOCK FALSE
INVARIANTS
  TypeOK
  ViewIsRight

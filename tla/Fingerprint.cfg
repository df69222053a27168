CONSTANTS
  v1 = v1
  v2 = v2
  VendorThread = {v1, v2}
  Binder = Binder
  Nobody = Nobody
  MaxFrameworks = 2
SPECIFICATION FairSpec
CHECK_DEADLOCK FALSE
INVARIANTS
  CancelLeavesDark
  DeviceIsThere
PROPERTY LightEnds

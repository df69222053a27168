CONSTANTS
  Feature = {"DigitalFilter", "AVCVolume"}
  Coeffs <- MCCoeffs
  MaxEvents = 3
  Choice <- MCChoice
SPECIFICATION Spec
CHECK_DEADLOCK FALSE
INVARIANTS
  TypeOK
  DriverHasSettings
PROPERTY SettingsSurvive

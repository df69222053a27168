CONSTANTS
  Feature = {"DigitalFilter"}
  Coeffs <- MCCoeffs
  MaxEvents = 3
  Choice <- MCChoice
SPECIFICATION Spec
CHECK_DEADLOCK FALSE
PROPERTY ShapeSurvives

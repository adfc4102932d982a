SPECIFICATION FairSpec
CONSTANTS
  FirstStep = 4
  Steps = {1, 2, 4}
  Target = 10
  Oscillators <- InteriorCurves
  Silent = TRUE
PROPERTY CalibrationEnds
\* a calibration that has returned takes no more steps
CHECK_DEADLOCK FALSE

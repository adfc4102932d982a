SPECIFICATION FairSpec
CONSTANTS
  FirstStep = 4
  Steps = {1, 2, 4}
  Target = 10
  Oscillators <- InteriorCurves
  Silent = FALSE
INVARIANT CalibratedBest
PROPERTIES CalibrationEnds
\* a calibration that has returned takes no more steps
CHECK_DEADLOCK FALSE

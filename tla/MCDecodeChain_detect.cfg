\* Token 0, Manchester, divider 32: auto detection.
SPECIFICATION Spec
CONSTANTS
  Rows = 10
  PreambleLength = 9
  PulseMax = 50
  ErrorTreshold = 10
  CarrierPulseLength = 8
  Samples = 1536
  Prescaler = 8
  Tokens <- MCTokens
  Tags <- PlainTags
INVARIANT ReadInOneCapture
\* A capture ends.
CHECK_DEADLOCK FALSE

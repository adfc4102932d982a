\* The token of README.md and one that alternates, every coding and divider;
\* for the first also one corrupted sample, or two at divider 16.
SPECIFICATION Spec
CONSTANTS
  Rows = 10
  PreambleLength = 9
  PulseMax = 50
  ErrorTreshold = 10
  CarrierPulseLength = 8
  Samples = 1536
  Prescaler = 8
  Tokens <- MCTokens
  Tags <- ReadableTags
INVARIANTS
  TypeOK
  OnlyTheTag
  OwnDecoderRight
  ReadInOneCapture
  LocksOnTheDivider
  CarrierBounded
PROPERTY
  SyncKept
\* A capture ends.
CHECK_DEADLOCK FALSE

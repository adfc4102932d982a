SPECIFICATION FairSpec
CONSTANTS
  IdModulus = 3
  Sleep <- CountsInSleep
  Blocks = 3
  Benches <- WithLocked
  Commands <- Choices
  MayFail = FALSE
PROPERTY RunEnds

SPECIFICATION FairSpec
CONSTANTS
  IdModulus = 3
  Sleep <- CountsInSleep
  Blocks = 3
  Benches <- Plugged
  Commands <- Choices
  MayFail = TRUE
INVARIANTS TypeOK ProgrammedInOrder OwnCapture OwnVerdict SuccessIsOver UnsupportedUntouched
PROPERTIES RunEndsUnlessLocked

CONSTANTS
  Rows = 10
  PreambleLength = 9
  WordBits = 32
  PulseSlots = 7
  BufferNibbles = 384
  Programs <- MCPrograms
SPECIFICATION Spec
INVARIANTS
  TypeOK
  ProgrammedTagReads
  PrefixProgrammed

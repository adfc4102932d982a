SPECIFICATION Spec
CONSTANTS
  BufferSize = 1
  SamplesPerByte = 3
  PulseVectorSize = 1
  PacketSize = 1
  IdModulus = 2
  OffsetModulus = 8
  Radix = 2
  Overlap = FALSE
  Starts <- ToolStarts
  Vectors <- AllVectors
PROPERTIES EdgeFromKnownSignal

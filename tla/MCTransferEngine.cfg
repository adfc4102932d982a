SPECIFICATION FairSpec
CONSTANTS
  BufferSize = 2
  SamplesPerByte = 3
  PulseVectorSize = 1
  PacketSize = 1
  IdModulus = 2
  OffsetModulus = 16
  Radix = 4
  Overlap = FALSE
  Starts <- SoundStarts
  Vectors <- AllVectors
INVARIANTS TypeOK VectorBounds IdleQuiesced InBuffer CoilReleased
PROPERTIES RxComplete TxBufferIntact SampledAtRate ReplyExact ContractSpec TransferEnds ResetHonoured

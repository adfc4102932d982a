SPECIFICATION PatientSpec
CONSTANTS
  Chunk = 2
  VectorSize <- Sizes
  Requests <- ToolRequests
  Tags = 3
  Spelled <- SpelledRequests
  Lossy = FALSE
PROPERTIES EveryTransferSucceeds

SPECIFICATION Spec
CONSTANTS
  Chunk = 2
  VectorSize <- Sizes
  Requests <- ToolRequests
  Tags = 3
  Spelled <- SpelledRequests
  Lossy = TRUE
INVARIANTS TypeOK AnswersOwnRequest DataExact WriteExact WriteCovers

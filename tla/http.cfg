SPECIFICATION FairSpec
CONSTANTS
  Requests <- MCRequests
  Streams <- MCStreams
  Responses <- MCResponses
  Addresses = 2
  BufferSize = 4
  HeadLineSize = 4
  ChunkLineSize = 3
  MaxHeaderSize = 12
  SizeMax = 9
CHECK_DEADLOCK FALSE
INVARIANTS DescriptorsClosed ResponseExact FramingHonoured EndNoticed
PROPERTIES RequestEnds

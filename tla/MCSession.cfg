SPECIFICATION FairSpec
CONSTANTS
  Policies = {"Drop", "Block"}
  Lens = {1}
  Blobs = {b}
  None = None
  out = out
  err = err
  pty = pty
  StreamsOf <- StreamsOfEach
  Jobs = {err, pty}
  MaxChunks <- ChunksOfEach
  Cadence = 1
  Room = 2
  MaxRecords = 2
  MaxHandoffs = 1
INVARIANTS TypeOK NothingMislaid PipedLosesNothingUnthawed ManifestStaysTrue
PROPERTIES ExitIsRecorded HeldIsTaken
CHECK_DEADLOCK FALSE

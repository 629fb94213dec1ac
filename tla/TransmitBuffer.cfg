SPECIFICATION Spec
CONSTANTS
  Fds = {f1, f2}
  ChunkSize = 3
  MinBlockSize = 2
  MaxBytes = 6
INVARIANTS RoomForRecord ReadSpotRight OneSpareChunk
PROPERTY ImplementsFrameQueue
CHECK_DEADLOCK FALSE

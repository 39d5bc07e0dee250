SPECIFICATION FairSpec
CONSTANTS
  ChunkSize = 3
  PipeSize = 3
  MaxErrors = 2
  AddEOF = TRUE
  MaxBytes = 4
  MaxTime = 1
  activateSize = 2
  maxSize = 5
  WritesFail = TRUE
INVARIANTS
  LinesStamped
  StampsLate
  EofAlone
  FirstAndLastBytes
  PrefixBefore
  FileComplete
PROPERTY Drained

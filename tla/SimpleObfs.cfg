SPECIFICATION Spec
CONSTANTS
  Kinds = {"http", "tls"}
  Base = 2
  Headers <- MCHeaders
  Bodies <- MCBodies
  MAX_HEADER = 8
  TmpSize = 4
  Records <- MCRecords
  FirstDiscard = 4
  HeaderDiscard = 3
  MaxRoom = 3
  Total = 8
  BufSize = 5
  ChunkSize = 3
  HeadLen = 2
  TailLen = 2
  RecordHead = 2
  DataLens <- MCDataLens
  ServerLens <- MCServerLens
INVARIANTS
  Accounted
  ScratchBounded
  AcceptedIsWritten
  LengthsAgree
PROPERTIES
  Delivers
  Terminates
CHECK_DEADLOCK FALSE

CONSTANTS
  NUL = 0
  Unwritten = Unwritten
  Byte <- AllBytes
  Chunk <- OneChunk
  ReadSize = {1, 4}
  SizedLength = {0}
  MaxBytes = 16
  SizeMod = 64
  U32Mod = 64
  HandShake <- SomeHandShakes
  ForeignPayload <- ForeignPayloads
  NoPacket = NoPacket
  MaxPackets = 2
  Address = {"wellformed", "malformed"}
  MaxArrivals = 3
  MaxConnects = 3
  Event = {1, 2}
  Wait = {0, 1, 2}
  MaxSimMS = 3
SPECIFICATION SideSpec
INVARIANTS RoundTrip NoJunkOnTheWire AcceptedIsComplete ClientInv StageIsOfThisConnection SchedInv
PROPERTIES CancelledNeverRuns ImplementsJobs
\* A destroyed client has no further step, nor has a process that crashed.
CHECK_DEADLOCK FALSE

CONSTANTS
  NUL = NUL
  Unwritten = Unwritten
  Byte <- SomeBytes
  Chunk <- SomeChunks
  ReadSize = {1, 2}
  SizedLength = {0, 1, 2, 3}
  MaxBytes = 4
  SizeMod = 32
  U32Mod = 6
  SimMod = 8
  IdMod = 4
  UsPerMs = 2
  Elapsed = {1, 3}
  MaxTimers = 1
  Power = {0, 1, 3, 4, 5}
  SizeBits = 4
  Proc = {p}
  Object = {o}
  NULL = NULL
  MaxMade = 3
  Event = {e1, e2}
  Handler = {h1, h2}
  Local = local
  Junk = junk
  MaxChanges = 5
  Name = {x, y}
  a = a
  b = b
  Char = {a, b}
  Nul = nul
  Unset = unset
  MaxArbitrary = 2
  FormatSize = 2
  Literal <- SomeTexts
  MaxIndex = 3
  MaxBuffers = 3
  Hook = {k1, k2}
  Message = {m1, m2}
  Level = {"LEVEL_INFO", "LEVEL_ERROR"}
  LevelError = "LEVEL_ERROR"
  MaxHooks = 3
  MaxWrites = 3
  Beyond = beyond
SPECIFICATION SupportSpec
INVARIANTS StreamInv GridShape BuildLeavesNoTimer OneOwner CalledInOrder FirstTwoPlacesExact
  StoredInBuffer SwapsReverse
PROPERTIES ImplementsByteStack RemovesAllMatches ConcatIsExact WriteReachesEveryHook
\* Objects are destroyed, bounds are reached, and nothing is defined after a
\* write outside of memory.
CHECK_DEADLOCK FALSE

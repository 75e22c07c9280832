CONSTANTS
  a = a
  NUL = NUL
  Unwritten = Unwritten
  Byte <- MCByte
  Chunk <- MCChunk
  ReadSize = {1, 2}
  SizedLength = {0, 2}
  MaxBytes = 4
  SizeMod = 32
  U32Mod = 16
SPECIFICATION StreamSpec
PROPERTY StringReadBack
CHECK_DEADLOCK FALSE

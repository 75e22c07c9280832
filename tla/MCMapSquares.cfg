CONSTANTS
  SimMod = 8
  IdMod = 4
  UsPerMs = 2
  Elapsed = {1, 3}
  MaxTimers = 1
  Power = {0, 1, 3, 4, 5}
  SizeBits = 4
SPECIFICATION MapSpec
INVARIANT ColumnsHaveSquares

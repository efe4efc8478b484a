SPECIFICATION Spec
CONSTANTS
  Columns = 2
  BufferSize = 3
  Inputs <- MCInputs
  LuaValues <- MCLuaValues
  Nodes <- MCNodes
  Depth <- MCDepth
INVARIANT ReadsAreShort
CHECK_DEADLOCK FALSE

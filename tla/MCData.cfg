SPECIFICATION Spec
CONSTANTS
  Columns = 2
  BufferSize = 3
  Inputs <- MCInputs
  LuaValues <- MCLuaValues
  Nodes <- MCNodes
  Depth <- MCDepth
INVARIANTS CsvRoundTrips HeadersDiffer  ReadersKeepLines GifShowsImages LineIsVisible SourceIsRecorded
CHECK_DEADLOCK FALSE

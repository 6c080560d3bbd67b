SPECIFICATION Spec
CONSTANTS
  file1 = file1  text1 = text1  text2 = text2
  Texts = {text1, text2}
  Files = {file1}
  Parts <- MCParts
\* A text of a foreign origin raises in ChunkSource; none is in this instance.
  Foreign = {}
  Salient = {file1, text1}
  Deletable = TRUE
  MaxOpen = 2
  Cuts = {1, 3}
  MaxFaults = 1
CHECK_DEADLOCK FALSE
INVARIANTS RowsAreTrue MemorySettles
PROPERTIES EverySourceIndexed TextsReachMemory

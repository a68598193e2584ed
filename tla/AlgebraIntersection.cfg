CONSTANTS
  BufSize = 2
  Modes = {{"r", "w"}, {"r", "a"}, {"r"}, {"w"}}
  Files <- MCFiles
  Texts <- MCTexts
  MaxFile = 4
  MaxRead = 3
  Careful = TRUE
  Key = {"a", "b", "c"}
  Val <- MCVal
  Hash <- MCHash
  InitCap = 4
  LoadN = 3
  LoadD = 4
  Empty = empty
  Tomb = tomb
  MaxCount = 2
  MaxCap = 8
  MaxCalls = 5
  Parts = {"algebra"}
SPECIFICATION SpecStreamAlgebra
INVARIANT IntersectionExact
CHECK_DEADLOCK FALSE

CONSTANTS
  Value = {v1, v2}
  Junk = junk
  Chunk = 2
  Types = {"stack", "queue", "seq"}
  MaxLen = 4
  MaxGen = 8
  MaxBatch = 3
  Word = 24
  Header = 3
  BlockSize = 8
  Seed = 1
  Bases = {2, 5}
  Pow2 = {1, 2, 4, 8}
  Sizes = {0, 1, 3, 7, 22}
  Aligns = {0, 2, 3, 4}
  MaxArenas = 2
  MaxGiven = 3
  XpedtWord = 64
  Room = 20
  Width = 2
  MaxCall = 3
SPECIFICATION SpecStorage
INVARIANTS TypeOK NoJunk InBounds Disjoint Aligned OneBlockEnough NullOnOom EvalExact JobsServed
PROPERTIES MutationTouches ImplementsSequence

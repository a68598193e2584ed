CONSTANTS
  Key = {"a","b","c","d"}
  Val = {u, w}
  Hash <- MCHash
  InitCap = 4
  LoadN = 3
  LoadD = 4
  Empty = empty
  Tomb = tomb
  MaxCap = 8
  MaxGen = 10
  MaxBatch = 2
SPECIFICATION FairSpec
INVARIANTS TypeOK ProbeEnds EveryEntryFound
PROPERTIES MutationTouches ImplementsStore CallsEnd

CONSTANTS
  Key = {"a", "b", "c"}
  Val = {unit}
  Hash <- MCHash
  InitCap = 2
  LoadN = 1
  LoadD = 2
  Empty = empty
  Tomb = tomb
  Value = {v1}
  Junk = junk
  Chunk = 2
  Tables = {{"queue"}}
  Seed = 1
  MaxSlots = 2
  MaxLive = 2
  MaxCap = 4
  MaxReuse = 3
  MaxGen = 4
SPECIFICATION Spec
INVARIANT ReplicaCopies

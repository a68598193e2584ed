CONSTANTS
  Key = {"a", "b", "c"}
  Val = {unit}
  Hash <- MCHash
  InitCap = 2
  LoadN = 1
  LoadD = 2
  Empty = empty
  Tomb = tomb
  Value = {v1, v2}
  Junk = junk
  Chunk = 2
  Tables = {{"stack", "queue"}, {"set"}}
  Seed = 1
  MaxSlots = 2
  MaxLive = 3
  MaxCap = 4
  MaxReuse = 3
  MaxGen = 5
SYMMETRY Symmetry
SPECIFICATION Spec
INVARIANTS OrdinaryFaithful OrdinaryComplete ObliteratorEmpties ReplicaFaithful

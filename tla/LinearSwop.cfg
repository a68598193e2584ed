CONSTANTS
  Value = {v1, v2}
  Junk = junk
  Chunk = 2
  Types = {"stack", "queue", "seq"}
  MaxLen = 4
  MaxGen = 8
  MaxBatch = 3
SPECIFICATION Spec
PROPERTY SwopQueues

CONSTANTS
  MaxDot = 4
  MaxArc = 4
  MaxUgraphDot = 3
  MaxUgraphArc = 4
  MaxKnob = 5
  MaxKnot = 5
  Yod = {1, 2}
  MaxPin = 4
  MaxHigh = 3
  MaxKnod = 5
  Ref = {1, 2}
  MaxIndelKnod = 7
  RXNODE_CAP = 2
  RxKey = {1, 2}
  MaxRxEntry = 6
  MaxNode = 10
  SegKey = {1, 2, 3}
  MaxItem = 11
  MaxBatch = 2
  AMSHIFT = 2
  HashBits = 5
  Hash = {0, 4, 16}
  AmKey = {1, 2}
  MaxAmEntry = 4
  Phi = {1, 2}
  MaxCell = 6
  MaxSide = 7
  BUCKETCAP = 1
  Far = 50
  MaxPoint = 3
SPECIFICATION SpecNexus
INVARIANTS DagSound Acyclic UgraphSound MtreeSound ListExact OrderedSound BitreeSound SegheapSound TriesSound SearchesExact
PROPERTIES UgraphTombstones MtreeTombstones NothingHalfMoved ImplementsOrdered

CONSTANTS
  MaxDot = 3
  MaxArc = 3
SPECIFICATION Spec
INVARIANT RemainsAcyclic

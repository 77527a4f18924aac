SPECIFICATION ReadersSpec
CONSTANTS
  s1 = s1
  p = p
  o1 = o1
  o2 = o2
  Any = Any
  None = None
  NoDict = NoDict
  Triple <- TwoTriples
  Pattern <- ReadPatterns
  Graphs = {g1}
  Formulas = {f}
  Readers = {r}
INVARIANTS
  Consistent
  NothingStableMissed
  YieldedWasHeld
PROPERTY ImplementsQuadStore
CONSTRAINT NoneDone

SPECIFICATION Spec
CONSTANTS
  s1 = s1
  s2 = s2
  p = p
  o1 = o1
  o2 = o2
  Any = Any
  Whole = Whole
  End = End
  Triple <- TwoTriples
  Pattern <- SomePatterns
  Graphs = {g1, g2}
  Formulas = {f}
  Id <- InOrder
  Readers = {r}
INVARIANTS
  TablesConsistent
  NothingStableMissed
  LoopsMayRemove
PROPERTY
  ImplementsQuadStore
SYMMETRY GraphSymmetry

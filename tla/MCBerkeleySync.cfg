SPECIFICATION SyncSpec
CONSTANTS
  s1 = s1
  p = p
  o1 = o1
  Any = Any
  Whole = Whole
  End = End
  Triple <- OneTriple
  Pattern <- TwoPatterns
  Graphs = {g1, g2}
  Formulas = {f}
  Id <- InOrder
  Readers = {r}
INVARIANTS
  ChangeIsAnnounced
PROPERTIES
  EventuallySynced
  CloseReturns

SPECIFICATION Spec
CONSTANTS
  s1 = s1
  p = p
  o1 = o1
  w1 = w1
  w2 = w2
  Any = Any
  Pattern <- Patterns
  Triple <- OneTriple
  Graphs = {g1, g2}
  Wrappers = {w1, w2}
  MaxLog = 2
  MaxMet = 1
CONSTRAINT Followed
INVARIANTS
  LogIsNetChange
PROPERTIES
  RollbackRestores
  RollbackSparesOthers

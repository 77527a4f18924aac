SPECIFICATION Spec
CONSTANTS
  SpicyGraphs = {g1, g2}
  Triple <- CollidingTriples
  KeyOf <- KeyOfTerm
  TextOf <- TextOfTerm
  Asked = {3}
  Query = {q}
  K = {1}
  Similarity <- Closeness
  NoIndex = NoIndex
INVARIANTS
  ScoresFresh
  TopKOfActive
  KeysScored
SYMMETRY GraphSymmetry

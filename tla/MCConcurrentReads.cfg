SPECIFICATION Spec
CONSTANTS
  s = s
  p = p
  o1 = o1
  o2 = o2
  All = All
  Any = All
  Triple <- Triples
  Pattern <- Patterns
  Readers = {r1, r2}
  MaxPending = 2
SYMMETRY ReaderSymmetry
INVARIANTS
  WritesTakeEffect
  YieldedWasWanted
  StoredNotMissed

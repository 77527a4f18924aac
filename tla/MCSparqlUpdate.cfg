SPECIFICATION Spec
CONSTANTS
  s = s
  p = p
  o1 = o1
  g = g
  Any = Any
  Default = Default
  DefaultName = DefaultName
  Triple <- OneTriple
  Pattern <- TwoPatterns
  NamedGraphs = {g}
  ContextAware = TRUE
  Faults = TRUE
  Rules <- CopyOne
  Readers = {r}
  MaxEdits = 3
INVARIANTS
  QueueCompletes
  ReadsOwnWrites

SPECIFICATION Spec
CONSTANTS
  Triple <- SharedSubject
  SampleSize = 2
  Appends = {"added", "replaced", "lost"}
  Faults = TRUE
  NoTable = NoTable
INVARIANTS
  CachedUnlessTorn
  IndexCovers

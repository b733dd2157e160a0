SPECIFICATION Spec
CONSTANTS
  ann = ann
  bob = bob
  NoteIds = {1, 2}
  Caller = ann
  Owner <- Owners
  Grants <- GrantsUsed
  Filters <- FiltersUsed
  MaxRank = 2
  MaxLimit = 2
  MaxTime = 2
  Nothing = Nothing
INVARIANT TypeOK
INVARIANT UntouchedMetOnce
INVARIANT NeverTwice
PROPERTY NeverWidens

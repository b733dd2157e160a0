SPECIFICATION Spec
CONSTANTS
  Workers = {w1, w2}
  UserIds = {ann, bob}
  NoteIds = {n1}
  Titles = {t1, t2}
  Bodies = {b1}
  SentPatches <- OneField
  t2 = t2
  b1 = b1
  Keep = Keep
  Nothing = Nothing
  MaxVersion = 4
SYMMETRY Symmetry
INVARIANT TypeOK
INVARIANT ETagNamesOneState
INVARIANT UpdateBuildsOnIfMatch
INVARIANT ConflictIsNewer
PROPERTY LifecycleByOwner
PROPERTY ImplementsHistory

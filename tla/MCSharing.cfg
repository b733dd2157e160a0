SPECIFICATION Spec
CONSTANTS
  ann = ann
  n1 = n1
  Workers = {w1, w2}
  UserIds = {ann, bob}
  TeamIds = {t1}
  NoteIds = {n1}
  Owner <- AnnOwns
  Nothing = Nothing
SYMMETRY Symmetry
INVARIANT TypeOK
INVARIANT OrphanGrantsOpenNothing
PROPERTY GrantsGoWithTheirPrincipal
PROPERTY StrandedByRaceOrDeletion
PROPERTY OrphanedOnlyByRace

SPECIFICATION Spec
CONSTANTS
  ann = ann
  n1 = n1
  Workers = {w1}
  UserIds = {ann, bob}
  TeamIds = {t1, t2}
  NoteIds = {n1}
  Owner <- AnnOwns
  Nothing = Nothing
SYMMETRY Symmetry
INVARIANT DeletedUserSeesNothing

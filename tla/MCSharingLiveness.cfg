SPECIFICATION FairSpec
CONSTANTS
  ann = ann
  n1 = n1
  Workers = {w1, w2}
  UserIds = {ann}
  TeamIds = {t1}
  NoteIds = {n1}
  Owner <- AnnOwns
  Nothing = Nothing
PROPERTY RequestsEnd

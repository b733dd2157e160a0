SPECIFICATION Spec
CONSTANTS
  AccountIds = {a1, a2}
  Emails = {e1, e2}
  Passwords = {p1, p2, p3}
  Workers = {w1, w2}
  Nothing = Nothing
SYMMETRY Symmetry
INVARIANT TypeOK
INVARIANT OneLiveAccount
INVARIANT LoginOpensOwnAccount
INVARIANT AnsweredChangeTook
PROPERTY TombstonesFrozen
PROPERTY TokenAloneChangesNothing

SPECIFICATION Spec
CONSTANTS
  MaxAtt = 1
  MaxBytes = 2
  Sizes = {0, 1, 2, 3}
  Batch = 1
  Workers = {w1}
  Sweepers = {s1}
  Nothing = Nothing
PROPERTY SweepsOnlyPending

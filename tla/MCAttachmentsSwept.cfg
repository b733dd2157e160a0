SPECIFICATION FairSpec
CONSTANTS
  MaxAtt = 2
  MaxBytes = 1
  Sizes = {1, 3}
  Batch = 1
  Workers = {w1}
  Sweepers = {s1}
  Nothing = Nothing
PROPERTY AbandonedUploadsSwept

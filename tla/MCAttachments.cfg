SPECIFICATION Spec
CONSTANTS
  MaxAtt = 1
  MaxBytes = 2
  Sizes = {0, 1, 2, 3}
  Batch = 1
  Workers = {w1, w2}
  Sweepers = {s1, s2}
  Nothing = Nothing
SYMMETRY Symmetry
INVARIANT TypeOK
INVARIANT ReadyWithinCap
INVARIANT BodyRefsUploaded
PROPERTY VerifiedSizeStays
PROPERTY DanglingOnlyByRace
PROPERTY ObjectLostOnlyByRace

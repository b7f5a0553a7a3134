SPECIFICATION Spec
CONSTANTS
  Thread = {t1, t2}
  Sector = {s1, s2, s3}
  Capacity = 2
  MaxWrites = 2
SYMMETRY Symmetry
INVARIANTS
  StaleOnlyByRace
  

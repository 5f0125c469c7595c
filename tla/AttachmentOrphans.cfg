SPECIFICATION FairSpec
CONSTANTS
  Task = {t1}
  Key = {k1, k2}
  Request = {p1}
  Collector = {c1, c2}
  Absent = Absent
  MaxBytes = 1
  MaxBytesPerUser = 2
  MaxPerTask = 2
PROPERTY OrphansCollected

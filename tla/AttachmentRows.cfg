SPECIFICATION Spec
CONSTANTS
  Task = {t1}
  Key = {k1}
  Request = {p1}
  Collector = {c1}
  Absent = Absent
  MaxBytes = 1
  MaxBytesPerUser = 2
  MaxPerTask = 2
INVARIANT RowsHaveBlobs

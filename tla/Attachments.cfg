SPECIFICATION Spec
CONSTANTS
  Task = {t1, t2}
  Key = {k1, k2, k3}
  Request = {p1, p2}
  Collector = {c1}
  Absent = Absent
  MaxBytes = 2
  MaxBytesPerUser = 2
  MaxPerTask = 1
SYMMETRY Symmetry
INVARIANTS TypeOK AckedDurable QuotaOvershoot CountOvershoot

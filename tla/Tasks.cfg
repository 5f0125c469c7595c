SPECIFICATION Spec
CONSTANTS
  Task = {t1}
  User = {u1, u2}
  Text = {x1, x2}
  Priority = {"medium", "high"}
  Request = {p1, p2}
  Absent = Absent
  MaxVersion = 3
SYMMETRY Symmetry
INVARIANTS TypeOK ETagSound
PROPERTY AtomicWrites

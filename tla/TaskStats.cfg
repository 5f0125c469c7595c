SPECIFICATION Spec
CONSTANTS
  Task = {t1}
  User = {u1}
  Text = {x1}
  Priority = {"medium"}
  Request = {p1}
  Absent = Absent
  MaxVersion = 1
INVARIANT StatsAgree

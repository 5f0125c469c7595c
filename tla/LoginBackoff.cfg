SPECIFICATION Spec
CONSTANTS
  Attempt = {a1, a2, a3}
  Email = {e1}
  IdleReset = 1
  MaxFailures = 64
  None = None
SYMMETRY Symmetry
INVARIANTS TypeOK CurveKept BurstBound
PROPERTY OwedFalls

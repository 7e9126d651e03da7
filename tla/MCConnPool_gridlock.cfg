SPECIFICATION Spec
CONSTANTS
  r1 = r1
  r2 = r2
  r3 = r3
  t1 = t1
  t2 = t2
  NULL = NULL
  Request = {r1, r2, r3}
  TicketId = {t1, t2}
  MaxConns = 2
  Ops <- AllOps
SYMMETRY Symmetry
INVARIANTS PInv StuckOnlyInAssign

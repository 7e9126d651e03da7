SPECIFICATION Spec
CONSTANTS
  c1 = c1
  c2 = c2
  m1 = m1
  m2 = m2
  t1 = t1
  nx = nx
  ny = ny
  text = text
  b1 = b1
  b2 = b2
  r1 = r1
  r2 = r2
  Blank = Blank
  NULL = NULL
  CategoryId = {c1, c2}
  SeededCategory = {c1}
  RoomId = {m1, m2}
  TicketId = {t1}
  Name = {nx, ny}
  FreeText = {text}
  Building = {b1, b2}
  Seeded <- MCSeeded
  Request = {r1, r2}
  Input <- MCInput
SYMMETRY Symmetry
INVARIANTS TypeOK CInv RoomNameBelongs
PROPERTIES RetiredStaysOut PatchKeepsOthers

SPECIFICATION FairSpec
CONSTANTS
  u = u
  d = d
  e = e
  v1 = v1
  v2 = v2
  bad = bad
  t1 = t1
  r1 = r1
  r2 = r2
  Blank = Blank
  NULL = NULL
  User = {u, d, e}
  TicketId = {t1}
  Request = {r1, r2}
  Text = {v1, v2, bad, Blank}
  Rating = {0, 5}
  Input <- ContendedInput
  RoleTables <- StaticRoles

INVARIANT IInv
PROPERTY Answered

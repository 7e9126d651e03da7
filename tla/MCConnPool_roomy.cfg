SPECIFICATION FairSpec
CONSTANTS
  r1 = r1
  r2 = r2
  r3 = r3
  t1 = t1
  t2 = t2
  NULL = NULL
  Request = {r1, r2}
  TicketId = {t1}
  MaxConns = 3
  Ops <- AllOps
PROPERTY Answered

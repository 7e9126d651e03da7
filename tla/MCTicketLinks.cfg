SPECIFICATION FairSpec
CONSTANTS
  t1 = t1
  t2 = t2
  t3 = t3
  TicketId = {t1, t2, t3}
  Request = {r1, r2}
  Input <- MCInput
  NULL = NULL
INVARIANTS TypeOK LInv OneWayOnlyByRace CirclesShareAPair
PROPERTIES NoLinkToDeleted Answered

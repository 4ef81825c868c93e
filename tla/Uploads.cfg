CONSTANTS
  u1 = u1
  u2 = u2
  t1 = t1
  t2 = t2
  q1 = q1
  q2 = q2
  p1 = p1
  NoParent = NoParent
  Users = {u1, u2}
  Tickets = {t1, t2}
  Requests = {q1, q2}
  Parents = {p1}
  Inputs <- MCInputs
  QuotaLimit = 1
SPECIFICATION FairSpec
INVARIANTS
  ReservationFollowsTicket
  FilesFollowVideos
  OneRevisionAtATime
PROPERTIES
  EveryReservationEnds
CHECK_DEADLOCK FALSE

SPECIFICATION MCSpec
INVARIANTS
  SingleUse
  FilterHolds
PROPERTIES
  AdmittedUnderLease
  AdmittedWhileSessionExists
  EveryCallEnds
CONSTANTS
  c1 = c1
  c2 = c2
  t1 = t1
  l1 = l1
  l2 = l2
  owner = owner
  other = other
  ownerUser = ownerUser
  ownerToken = ownerToken
  NoCall = NoCall
  NoTicket = NoTicket
  NoLease = NoLease
  Free = Free
  Call = {c1, c2}
  Ticket = {t1}
  Lease = {l1, l2}
  Subject = {ownerUser, ownerToken}
  User = {owner, other}
  UserOf <- MCUserOf
  Interactive <- MCInteractive
  MaxTtl = 1
  TicketTtl = 1
  MaxClock = 1
  Kinds = {0, 2, 3, 4, 5, 6, 150}
  Fillers = {3, 4}
  MaxLength = 3
CHECK_DEADLOCK FALSE

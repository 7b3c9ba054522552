SPECIFICATION Spec
SYMMETRY Symmetry
INVARIANTS
  OneActive
  DeadlineWithinTtl
PROPERTIES
  NeverExpiredEarly
  AcquireDisplacesNobody
  ImplementsDeviceLease
CONSTANTS
  r1 = r1
  r2 = r2
  l1 = l1
  l2 = l2
  l3 = l3
  owner = owner
  admin = admin
  stranger = stranger
  ownerUser = ownerUser
  ownerToken = ownerToken
  adminUser = adminUser
  strangerUser = strangerUser
  NoReq = NoReq
  NoLease = NoLease
  Free = Free
  Req = {r1, r2}
  Lease = {l1, l2}
  Subject = {ownerUser, strangerUser}
  User = {owner, admin, stranger}
  UserOf <- MCUserOf
  Interactive <- MCInteractive
  Admin = {admin}
  Owner = owner
  Ops = {"reserve_device", "renew_lease", "release_device", "force_reclaim", "browser_action", "heartbeat"}
  MaxTtl = 2
  MaxClock = 2

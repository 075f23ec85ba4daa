SPECIFICATION Spec
CONSTANTS
  t1 = t1
  t2 = t2
  b1 = b1
  s1 = s1
  s2 = s2
  s3 = s3
  d1 = d1
  d2 = d2
  d3 = d3
  l1 = l1
  l2 = l2
  i1 = i1
  i2 = i2
  i3 = i3
  Guest = Guest
  Visitor = Visitor
  Admin = Admin
  NoSecret = NoSecret
  NoFile = NoFile
  Garbage = Garbage
  Nothing = Nothing
  Threads = {t1, t2}
  Secrets = {s1, s2, s3}
  Devices = {d1, d2, d3}
  Links = {l1, l2}
  Invites = {i1, i2, i3}
  Uids = {Admin, Guest, Visitor}
  Browsers = {b1}
  LinkLimit = 1
  LinkLife = 1
  InviteLife = 1
  RateWindow = 1
  Retention = 0
  Starts <- SmallStarts
  MaxRequests = 3
  MaxTime = 1
SYMMETRY Alike
INVARIANTS OneUserPerInvite SingleUse LinkUsedOnce AcceptedUserExists EnrolledWasVerified RevokedStaysRevoked

SPECIFICATION FairSpec
CONSTANTS
  w1 = w1
  w2 = w2
  r1 = r1
  u1 = u1
  u2 = u2
  i1 = i1
  i2 = i2
  i3 = i3
  i4 = i4
  i5 = i5
  i6 = i6
  i7 = i7
  NoUid = NoUid
  NoFile = NoFile
  NoProc = NoProc
  Writers = {w1, w2}
  Readers = {}
  Uids = {u1}
  UidOf <- OneUser
  Inodes = {i1, i2, i3, i4, i5, i6}
  MaxOps = 2
  InitialFile = "garbage"
  Crashes = TRUE
INVARIANT AcknowledgedSurvive
PROPERTIES NoGoodFileQuarantined EveryCallReturns

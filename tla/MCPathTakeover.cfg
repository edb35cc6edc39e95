SPECIFICATION FairSpec
CONSTANTS
  i1 = i1
  i2 = i2
  r1 = r1
  r2 = r2
  t1 = t1
  t2 = t2
  NoPeer = NoPeer
  NoTask = NoTask
  Initiators = {i1, i2}
  Responders = {r1, r2}
  ResponderIds = {2}
  TaskNames = {t1, t2}
  OurTasks <- MCOurTasks
  OfferedTasks <- MCOffered
  AuthToken <- MCOwnToken
  PeerTrustedKey <- MCUntrusted
  CsnStarts = {0}
  Limit = 2
  MayLeave = {}
  MayFail = {}
  HandsOver = {}
  MaxSent = 0
CHECK_DEADLOCK FALSE
INVARIANTS
  OnlyInvited
PROPERTIES
  KeepsPromise
  SessionsSettle
  NobodyWaits

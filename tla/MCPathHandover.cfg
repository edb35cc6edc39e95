SPECIFICATION FairSpec
CONSTANTS
  i1 = i1
  i2 = i2
  r1 = r1
  r2 = r2
  t1 = t1
  t2 = t2
  NoPeer = NoPeer
  NoTask = NoTask
  Initiators = {i1}
  Responders = {r1}
  ResponderIds = {2, 3}
  TaskNames = {t1, t2}
  OurTasks <- MCOurTasks
  OfferedTasks <- MCOffered
  AuthToken <- MCNoToken
  PeerTrustedKey <- MCTrusted
  CsnStarts = {0}
  Limit = 2
  MayLeave = {}
  MayFail = {}
  HandsOver = {i1, r1}
  MaxSent = 5
CHECK_DEADLOCK FALSE
INVARIANTS
  HandoverAgreed
  NothingAfterHandover
PROPERTIES
  HandoverCompletes

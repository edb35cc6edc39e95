SPECIFICATION FairSpec
CONSTANTS
  i1 = i1
  i2 = i2
  r1 = r1
  r2 = r2
  t1 = t1
  t2 = t2
  NoPeer = NoPeer
  NoTask = NoTask
  Initiators = {i1}
  Responders = {r1, r2}
  ResponderIds = {2, 3}
  TaskNames = {t1, t2}
  OurTasks <- MCOurTasks
  OfferedTasks <- MCOffered
  AuthToken <- MCToken
  PeerTrustedKey <- MCUntrusted
  CsnStarts = {0}
  Limit = 2
  MayLeave = {r2}
  MayFail = {i1}
  HandsOver = {}
  MaxSent = 3
CHECK_DEADLOCK FALSE
INVARIANTS
  PairedInTask
  ChosenIsKept
PROPERTIES
  NobodyReset
  KeepsPromise
  NobodyWaits
  HandshakeCompletes

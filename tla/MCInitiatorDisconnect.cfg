SPECIFICATION Spec
CONSTANTS
  i1 = i1
  r1 = r1
  t1 = t1
  t2 = t2
  NoPeer = NoPeer
  NoTask = NoTask
  Initiators = {i1}
  Responders = {r1}
  ResponderIds = {2, 3}
  TaskNames = {t1, t2}
  OurTasks <- MCOurTasks
  PeerTrustedKey <- MCUntrusted
  Limit = 1
  MaxServerCsn = 3
  MaxPeerCsn = 3
  MaxOut = 3
CHECK_DEADLOCK FALSE
PROPERTY
  CloseSentOnDisconnect

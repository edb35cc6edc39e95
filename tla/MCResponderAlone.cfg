SPECIFICATION Spec
CONSTANTS
  i1 = i1
  r1 = r1
  t1 = t1
  t2 = t2
  NoPeer = NoPeer
  NoTask = NoTask
  Initiators = {i1}
  Responders = {r1}
  ResponderIds = {2, 3}
  TaskNames = {t1, t2}
  OfferedTasks <- MCOffered
  AuthToken <- MCToken
  CsnStarts = {0, 1}
  MaxServerCsn = 4
  MaxPeerCsn = 3
  MaxOut = 5
CHECK_DEADLOCK FALSE
INVARIANTS
  TypeOK
  SocketInv
  SessionInv
  GreetedIfConnected
PROPERTIES
  FreshCsnPerStep
  NonceNeverReused

SPECIFICATION Spec
CONSTANTS
  SequenceNumberMax = 3
  OverflowMax = 4
  WireOverflow = 2
  NoCsn = NoCsn
  MaxPackets = 14
CHECK_DEADLOCK FALSE
INVARIANTS
  TypeOK
  NonceUnique
  FreshIffNewer

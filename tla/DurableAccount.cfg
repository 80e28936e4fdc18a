SPECIFICATION Spec
CONSTANTS
  a1 = a1
  a2 = a2
  b1 = b1
  runA = runA
  runB = runB
  k1 = k1
  k2 = k2
  k3 = k3
  seq1 = seq1
  bookX = bookX
  bookY = bookY
  Procs <- MCProcs
  Owner <- MCOwner
  NoOwner = NoOwner
  NoBook = NoBook
  NoTxn = NoTxn
  NoLease = NoLease
  NoReply = NoReply
  Commands <- MCCommands
  LeaseTime = 1
  MaxHead = 3
  MaxClock = 1
  MaxToken = 2
  ClockMayStepBack = TRUE
INVARIANTS AppliedOnce RecoverySucceeds FencedJournal
PROPERTIES NoStaleWrite KeepsAccountLog
SYMMETRY Retries
CHECK_DEADLOCK FALSE

SPECIFICATION CompressorSpec
CONSTANTS
  c1 = c1
  c2 = c2
  t1 = t1
  t2 = t2
  f1 = f1
  Nil = Nil
  Callers = {c1, c2}
  Workers = {t1, t2}
  FastWorkers = {f1}
  QueueCap = 2
  FastCap = 1
  OutCap = 1
  MaxInProgress = 4
  BlockSize = 10
  Lengths <- MCLengths
  Compressed = {4, 9}
CHECK_DEADLOCK FALSE
INVARIANTS
  CompressorTypeOK
  PiecesAccounted
  RoundTrip
  OnlyTheCircleStops

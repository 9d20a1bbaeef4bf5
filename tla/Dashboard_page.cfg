SPECIFICATION FairSpec
CHECK_DEADLOCK FALSE
CONSTANTS
  Sockets = {s1, s2, s3, s4}
  Timers = {t1, t2, t3}
  NoId = NoId
  Builds = {TRUE, FALSE}
  HISTORY_SIZE = 2
  MaxTicks = 4
INVARIANTS
  TypeOK
  OneChain
  ShownTruly
  HistoryOnce
PROPERTIES
  Reconnects

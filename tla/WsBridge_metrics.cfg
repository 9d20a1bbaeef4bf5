SPECIFICATION FairSpec
CONSTANTS
  Conns = {c1}
  Dashboards = {d1}
  CmdNames = {get, set}
  Latencies = {1, 2}
  ChannelSize = 2
  RingSize = 2
  MaxEvents = 3
  MaxTicks = 4
INVARIANTS
  TypeOK
  EventsConserved
  SnapshotSound
PROPERTIES
  InOrder
  DrainsThenEnds

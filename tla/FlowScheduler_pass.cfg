SPECIFICATION FairSpec
CONSTANTS
  f1 = f1  f2 = f2  g = g
  node1 = node1  node2 = node2
  Flow = {f1, f2, g}
  Schedule <- Pair
  Hosts <- SharedHosts
  MaxWorkers = 1
  Iperf3 = {f2}
INVARIANTS
  TypeOK
  EachFlowAccounted
PROPERTIES
  RunsOnce
  CallsEnd

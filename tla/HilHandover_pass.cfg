SPECIFICATION HilFairSpec
CONSTANTS
  Link = {l1, l2}
  Delay = {d1, d2}
  Unwired = Unwired
  Unshaped = Unshaped
  Nic = Nic
  InitStates = {"absent", "enabled"}
  LinkStates = {"absent", "enabled"}
  gnd = gnd
  Station = {gnd}
  StationOf <- OneStation
  MaxLinks = 1
  MaxUnplugs = 1
  Offline = TRUE
  FaultKinds = {}
  MaxFaults = 0
  MaxPairs = 1
INVARIANTS
  HilTypeOK
  BridgedToActive
  NoForeignVeth
  TeardownComplete
PROPERTIES
  HandoverSettles

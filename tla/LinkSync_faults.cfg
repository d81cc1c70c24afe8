SPECIFICATION FairSpec
CONSTANTS
  Link = {l1}
  Delay = {d1, d2}
  Unwired = Unwired
  InitStates = {"absent", "disabled", "enabled"}
  Offline = TRUE
  FaultKinds = {"del", "add", "upd", "addr"}
  MaxFaults = 1
  MaxPairs = 2
PROPERTIES
  Converges
  FaultsHeal

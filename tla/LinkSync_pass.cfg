SPECIFICATION Spec
CONSTANTS
  Link = {l1, l2}
  Delay = {d1, d2}
  Unwired = Unwired
  InitStates = {"absent", "enabled"}
  Offline = FALSE
  FaultKinds = {}
  MaxFaults = 0
  MaxPairs = 2
SYMMETRY Symmetry
INVARIANTS
  TypeOK
  WiresMatchLinks
  DelaysCurrent
  InterfacesComplete
PROPERTIES
  ImplementsEmulation

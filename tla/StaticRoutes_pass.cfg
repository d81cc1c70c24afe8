SPECIFICATION Spec
CONSTANTS
  gnd1 = gnd1  gnd2 = gnd2  sat = sat
  Node = {gnd1, gnd2, sat}
  Dest = {gnd1, gnd2}
  None = None
  NoSig = NoSig
  FaultKinds = {"del", "batch", "jump", "offline"}
  MaxFaults = 1
SYMMETRY Symmetry
INVARIANTS
  TypeOK
  KernelFollowsTables
PROPERTIES
  InitInstallsAll

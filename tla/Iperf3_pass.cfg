SPECIFICATION IperfSpec
CONSTANTS
  f1 = f1
  f2 = f2
  n1 = n1
  n2 = n2
  n3 = n3
  Flow = {f1, f2}
  Src <- MCSrc
  Dst <- MCDst
  Port = {5201, 5202}
  Choices <- MCChoices
  Nothing = Nothing
CHECK_DEADLOCK FALSE
INVARIANTS
  IperfTypeOK
PROPERTIES
  OwnResults
  StopEndsFlow

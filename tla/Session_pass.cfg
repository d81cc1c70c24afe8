SPECIFICATION Spec
CONSTANTS
  Thread = {t1, t2}
  Link = {l1, l2}
  MaxStarts = 2
  MaxFaults = 1
  None = None
INVARIANTS
  TypeOK
  OneLoop
  QuietTeardown
  NoProjectLost
  WiresFollowLinks
PROPERTIES
  StopReturns

SPECIFICATION Spec
CONSTANTS
  Station = {g1, g2}
  Satellite = {s1, s2, s3}
  Pass <- MCPass
  MaxLinks = 2
  MaxTime = 6
  Zenith = 4
  Strategies = {"longest"}
  None = None
INVARIANTS
  NeverStranded

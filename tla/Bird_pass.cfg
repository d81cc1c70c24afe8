SPECIFICATION Spec
CONSTANTS
  Ids = 4
  Satellite = {0, 3}
  GroundStation = {1}
  Link <- MCLink
  MaxFaults = 1
  None = None
INVARIANTS
  TypeOK
  AdjacenciesConfigured
  AddressesDistinct

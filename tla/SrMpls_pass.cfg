SPECIFICATION Spec
CONSTANTS
  gnd1 = gnd1  gnd2 = gnd2  sat1 = sat1  sat2 = sat2
  Sat = {sat1, sat2}
  Gnd = {gnd1, gnd2}
  Addressable = {sat1}
  AllLinks <- MCLinks
  Graphs <- MCGraphs
  CustomPaths <- MCPaths
  MaxFaults = 1
INVARIANTS
  TypeOK
  
  

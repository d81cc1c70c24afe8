------------------------------ MODULE MCSrMpls ------------------------------
(* Instances of SrMpls: two ground stations, two satellites, one of them
   addressable. *)
EXTENDS SrMpls, TLC

CONSTANTS gnd1, gnd2, sat1, sat2

MCLinks == {{gnd1, sat1}, {gnd1, sat2}, {gnd2, sat2}, {sat1, sat2}}

Isl == {sat1, sat2}

Alike == [l \in MCLinks |-> IF l = Isl THEN 3 ELSE 2]

\* Inter-satellite links preferred, and a long link of the first satellite.
Preferred == [l \in MCLinks |-> IF l = Isl THEN 1 ELSE IF l = {gnd1, sat1} THEN 5 ELSE 2]

Geo(lost, w) == [links |-> MCLinks \ lost, weight |-> w]

\* The first hop of the custom path comes and goes, and with it the shortest paths
\* of the first satellite.
MCGraphs == {Geo({}, Preferred), Geo({{gnd1, sat1}}, Alike)}

\* The long way round.
MCPaths == {<<gnd1, sat1, sat2, gnd2>>}
=============================================================================

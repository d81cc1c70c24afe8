--------------------------- MODULE MCStaticRoutes ---------------------------
(* Instances of StaticRoutes: two ground stations and a satellite, all linked. *)
EXTENDS StaticRoutes, TLC

CONSTANTS gnd1, gnd2, sat

Symmetry == Permutations({gnd1, gnd2})
=============================================================================

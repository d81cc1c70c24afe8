------------------------------- MODULE MCBird -------------------------------
(* Instances of Bird: two satellites and a ground station in a line, with the *)
(* lowest and the highest identifiers of a plan of four.                      *)
EXTENDS Bird

MCLink == {<<3, 0>>, <<3, 1>>}
=============================================================================

--------------------------- MODULE MCHilHandover ---------------------------
(* Instances of HilHandover: all links are links of one station. *)
EXTENDS HilHandover

CONSTANT gnd

OneStation == [l \in Link |-> gnd]
=============================================================================

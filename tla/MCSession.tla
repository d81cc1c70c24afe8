------------------------------ MODULE MCSession ------------------------------
(* Instances of Session: two loop threads and two links. *)
EXTENDS Session
=============================================================================

------------------------------ MODULE MCIperf3 ------------------------------
(* Two flows from two nodes to a third, on the same port or not. *)
EXTENDS Iperf3, TLC

CONSTANTS f1, f2, n1, n2, n3

MCSrc == f1 :> n1 @@ f2 :> n2
MCDst == [f \in Flow |-> n3]

\* The flows are alike, so that one has the first port and is neither blocking nor
\* bidirectional; what a blocking flow does with the direction is nothing.
MCChoices ==
  f1 :> {c \in Config : c.port = 5201 /\ ~c.blocking /\ ~c.bidir}
    @@ f2 :> {c \in Config : c.blocking => ~c.reverse /\ ~c.bidir}
=============================================================================

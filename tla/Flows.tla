------------------------------- MODULE Flows -------------------------------
(* What the traffic flows of all tools share: PingFlow, Hping3Flow and     *)
(* Iperf3Flow run once, from IDLE to DONE or ERROR.                        *)

CONSTANT Flow  \* the flows

FlowStatus == {"IDLE", "RUNNING", "DONE", "ERROR"}
=============================================================================

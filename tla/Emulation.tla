----------------------------- MODULE Emulation -----------------------------
(***************************************************************************)
(* What the update pass promises of the emulator, with neither flags nor   *)
(* lists nor thread pools: the links that the TopologyManager believes to  *)
(* be active and the links that are emulated.  A pass takes over a new     *)
(* view in one step; then it removes the wires of links outside the view,  *)
(* then it adds those that are missing, each once, and it ends when the    *)
(* two agree.  A wire inside the view is never touched, and between passes *)
(* only the start and the stop of the emulator change wires.               *)
(*                                                                         *)
(* The promise lapses when a call to the emulator is lost.                 *)
(***************************************************************************)
CONSTANT Link

VARIABLES
  view,   \* the links that should be there
  net,    \* the links that are emulated
  on,     \* the emulator runs
  phase,  \* of the pass
  clean   \* no call has been lost
vars == <<view, net, on, phase, clean>>

Init ==
  /\ view \in SUBSET Link /\ net = {}
  /\ on = FALSE /\ phase = "idle" /\ clean = TRUE

\* update_simulation() reads the simulation manager.
Observe ==
  /\ phase = "idle"
  /\ view' \in SUBSET Link
  /\ phase' = "removing"
  /\ UNCHANGED <<net, on>>

Remove(l) ==
  /\ phase = "removing" /\ l \in net \ view
  /\ net' = net \ {l}
  /\ UNCHANGED <<view, on, phase>>

Removed ==
  /\ phase = "removing" /\ net \subseteq view
  /\ phase' = "adding"
  /\ UNCHANGED <<view, net, on>>

Add(l) ==
  /\ phase = "adding" /\ on /\ l \in view \ net
  /\ net' = net \cup {l}
  /\ UNCHANGED <<view, on, phase>>

Finish ==
  /\ phase = "adding" /\ net = IF on THEN view ELSE {}
  /\ phase' = "idle"
  /\ UNCHANGED <<view, net, on>>

TurnOn ==
  /\ phase = "idle" /\ ~on
  /\ on' = TRUE /\ net' = view
  /\ UNCHANGED <<view, phase>>

TurnOff ==
  /\ phase = "idle" /\ on
  /\ on' = FALSE /\ net' = {}
  /\ UNCHANGED <<view, phase>>

Kept ==
  \/ Observe \/ Removed \/ Finish \/ TurnOn \/ TurnOff
  \/ \E l \in Link : Remove(l) \/ Add(l)

Next == \/ clean /\ clean' /\ Kept
        \/ clean' = FALSE   \* a call is lost, or was

Spec == Init /\ [][Next]_vars
=============================================================================

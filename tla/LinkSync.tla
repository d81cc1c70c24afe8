------------------------------ MODULE LinkSync ------------------------------
(***************************************************************************)
(* One update pass of the TopologyManager (TopologySyncMixin, LinkOpsMixin, *)
(* InterfaceMgrMixin): the links of the simulation manager are compared    *)
(* with the manager's own Link wrappers, and the difference is applied to  *)
(* the emulator (one RPC per link, from a thread pool) and to the          *)
(* interface lists of the nodes.  Passes do not overlap here: the session  *)
(* either runs the simulation loop or calls next_step() /                  *)
(* simulate_link_failure() itself.                                         *)
(*                                                                         *)
(* A link is identified by its frozenset key.  The flags of the wrappers   *)
(* are sets of keys; the distance of a link is the delay it rounds to.     *)
(***************************************************************************)
EXTENDS Naturals, Sequences, FiniteSets

CONSTANTS
  Link,        \* the keys of all links the constellation can have
  Delay,       \* the delays, in ms, that a distance can round to
  Unwired,     \* the wire of a link that the emulator does not have
  InitStates,  \* the states of a link when the TopologyManager is created
  Offline,     \* may passes and set_ip_addresses() run before start_gonetem()?
  FaultKinds,  \* the RPCs that can fail: "del", "upd", "add" (Link*), "addr" (NodeRun)
  MaxFaults,   \* bound: RPC failures in one behaviour
  MaxPairs     \* bound: interface pairs counted for one link

ASSUME UnwiredAssumption == Unwired \notin Delay
ASSUME OfflineAssumption == Offline \in BOOLEAN
ASSUME InitStatesAssumption == InitStates \subseteq {"absent", "disabled", "enabled"}
ASSUME MaxFaultsAssumption == MaxFaults \in Nat
ASSUME MaxPairsAssumption == MaxPairs \in Nat \ {0}

VARIABLES
  sim,         \* simulation manager: the state of every link
  dist,        \* the delay that follows from the current node positions
  known,       \* keys of TopologyManager.links
  active,      \* wrappers with is_active
  toAdd,       \* wrappers with to_add
  toUpdate,    \* wrappers with to_update
  toRemove,    \* wrappers with to_remove
  delay,       \* Link.delay of the wrappers
  pairs,       \* interface pairs of a link on its nodes, oldest first: "ipv4"
               \* when the pair has its addresses, else "bare"
  wire,        \* emulator: the delay of the veth pair of a link, or Unwired
  addr,        \* emulator: ends of the veth pair with an address (source first)
  status,      \* TopologyManager.status: the emulator runs
  configured,  \* set_ip_addresses() was called since the last stop_gonetem()
  pc,          \* stage of the pass
  adds,        \* links_to_add of the pass
  upds,        \* links_to_update of the pass
  dels,        \* links_to_remove of the pass
  pend,        \* links the thread pool of the stage has not served
  faults       \* RPC failures so far

simVars   == <<sim, dist>>
flagVars  == <<known, active, toAdd, toUpdate, toRemove, delay>>
emuVars   == <<wire, addr>>
passVars  == <<pc, adds, upds, dels, pend>>
vars == <<simVars, flagVars, pairs, emuVars, status, configured, passVars, faults>>

SimStates == {"absent", "disabled", "enabled"}
Stages    == {"idle", "bulkDel", "bulkAdd", "localAdd"}

PairKinds == {"ipv4", "bare"}
EndCounts == {0, 1, 2}

Present == {l \in Link : sim[l] # "absent"}
Enabled == {l \in Link : sim[l] = "enabled"}
Wires   == {l \in Link : wire[l] # Unwired}

TypeOK ==
  /\ sim \in [Link -> SimStates] /\ dist \in [Link -> Delay]
  /\ known \subseteq Link /\ active \subseteq Link
  /\ toAdd \subseteq Link /\ toUpdate \subseteq Link /\ toRemove \subseteq Link
  /\ delay \in [Link -> Delay]
  /\ pairs \in [Link -> Seq(PairKinds)]
  /\ wire \in [Link -> Delay \cup {Unwired}] /\ addr \in [Link -> EndCounts]
  /\ status \in BOOLEAN /\ configured \in BOOLEAN
  /\ pc \in Stages
  /\ adds \subseteq Link /\ upds \subseteq Link /\ dels \subseteq Link
  /\ pend \subseteq Link
  /\ faults \in 0..MaxFaults

(***************************************************************************)
(* TopologyManager.__init__ / init(): the wrappers of all links of the     *)
(* simulation manager, none with to_add (initial_sync is still False), and *)
(* one addressed interface pair per wrapper, active or not.                *)
(***************************************************************************)
Init ==
  /\ sim \in [Link -> InitStates] /\ dist \in [Link -> Delay]
  /\ known = Present /\ active = Enabled /\ delay = dist
  /\ toAdd = {} /\ toUpdate = {} /\ toRemove = {}
  /\ pairs = [l \in Link |-> IF l \in Present THEN <<"ipv4">> ELSE <<>>]
  /\ wire = [l \in Link |-> Unwired] /\ addr = [l \in Link |-> 0]
  /\ status = FALSE /\ configured = FALSE
  /\ pc = "idle" /\ adds = {} /\ upds = {} /\ dels = {} /\ pend = {}
  /\ faults = 0

-----------------------------------------------------------------------------
(* The simulation manager: a connection strategy or simulate_link_failure()
   adds, removes, enables or disables a link, and the satellites move. *)

SetLink(l, s) ==
  /\ sim[l] # s
  /\ sim' = [sim EXCEPT ![l] = s]
  /\ UNCHANGED <<dist, flagVars, pairs, emuVars, status, configured, passVars, faults>>

Move(l, d) ==
  /\ dist[l] # d
  /\ dist' = [dist EXCEPT ![l] = d]
  /\ UNCHANGED <<sim, flagVars, pairs, emuVars, status, configured, passVars, faults>>

-----------------------------------------------------------------------------
(* _sync_links: what differs between the simulation manager and the wrappers. *)

Created  == Present \ known
Vanished == known \ Present
WentUp   == (known \cap Enabled) \ active
WentDown == (known \cap Present \cap active) \ Enabled
Moved    == {l \in known \cap Present : delay[l] # dist[l]}

\* Mutants: a link that went down is not listed, a new delay raises no to_update, a
\* vanished link loses its delay.
SyncedRemove_NotDown   == (toRemove \ WentUp) \cup Vanished
SyncedUpdate_Unflagged == toUpdate
SyncedDelay_Dropped    == [l \in Link |-> IF l \in Present THEN dist[l] ELSE Unwired]

SyncedAdd    == (toAdd \ WentDown) \cup WentUp \cup (Created \cap Enabled)
SyncedRemove == (toRemove \ WentUp) \cup WentDown \cup Vanished
SyncedUpdate == toUpdate \cup Moved
SyncedDelay  == [l \in Link |-> IF l \in Present THEN dist[l] ELSE delay[l]]

\* The lists of a pass: a removal takes precedence over an addition, and an
\* addition over an update.
Sync ==
  /\ pc = "idle" /\ (status \/ Offline)
  /\ known' = known \cup Present
  /\ active' = (active \ WentDown) \cup WentUp \cup (Created \cap Enabled)
  /\ toAdd' = SyncedAdd /\ toRemove' = SyncedRemove /\ toUpdate' = SyncedUpdate
  /\ delay' = SyncedDelay
  /\ dels' = SyncedRemove
  /\ adds' = SyncedAdd \ SyncedRemove
  /\ upds' = SyncedUpdate \ (SyncedRemove \cup SyncedAdd)
  /\ pend' = IF status THEN SyncedRemove ELSE {}
  /\ pc' = "bulkDel"
  /\ UNCHANGED <<simVars, pairs, emuVars, status, configured, faults>>

Lost(kind) == kind \in FaultKinds /\ faults < MaxFaults /\ faults' = faults + 1

\* bulk_link_operations, first call: one LinkDel per link.  launcher.delete_link
\* logs a failed RPC and returns.
DeleteRpc(l) ==
  /\ pc = "bulkDel" /\ l \in pend
  /\ pend' = pend \ {l}
  /\ \/ /\ wire' = [wire EXCEPT ![l] = Unwired]
        /\ addr' = [addr EXCEPT ![l] = 0]
        /\ UNCHANGED faults
     \/ Lost("del") /\ UNCHANGED emuVars
  /\ UNCHANGED <<simVars, flagVars, pairs, status, configured, pc, adds, upds, dels>>

\* The executor is left when all its futures have completed.
\* Mutant: the pool is not waited for.
PoolDone_NoWait == TRUE
PoolDone == pend = {}

\* Mutant: the interface stays on the node.
DropPair_Kept(s) == s

\* remove_interface_connected_to_node drops the first interface towards the peer.
DropPair(s) == IF s = <<>> THEN s ELSE Tail(s)

\* _perform_local_link_operations, first call: interfaces, then the wrappers.
LocalDelete ==
  /\ pc = "bulkDel" /\ PoolDone
  /\ pairs' = [l \in Link |-> IF l \in dels THEN DropPair(pairs[l]) ELSE pairs[l]]
  /\ known' = known \ dels
  /\ active' = active \ dels
  /\ toAdd' = toAdd \ dels /\ toUpdate' = toUpdate \ dels /\ toRemove' = toRemove \ dels
  /\ dels' = {}
  /\ pend' = IF status THEN adds \cup upds ELSE {}
  /\ pc' = "bulkAdd"
  /\ UNCHANGED <<simVars, delay, emuVars, status, configured, adds, upds, faults>>

\* bulk_link_operations, second call.  LinkAdd makes a veth pair without
\* addresses and fails when the pair exists; LinkUpdate needs the pair.
AddRpc(l) ==
  /\ pc = "bulkAdd" /\ l \in pend \cap adds
  /\ pend' = pend \ {l}
  /\ \/ /\ wire[l] = Unwired
        /\ wire' = [wire EXCEPT ![l] = delay[l]]
        /\ UNCHANGED faults
     \/ wire[l] # Unwired /\ UNCHANGED <<wire, faults>>
     \/ Lost("add") /\ UNCHANGED wire
  /\ UNCHANGED <<simVars, flagVars, pairs, addr, status, configured, pc, adds, upds, dels>>

UpdateRpc(l) ==
  /\ pc = "bulkAdd" /\ l \in pend \cap upds
  /\ pend' = pend \ {l}
  /\ \/ /\ wire' = [wire EXCEPT ![l] = IF @ = Unwired THEN @ ELSE delay[l]]
        /\ UNCHANGED faults
     \/ Lost("upd") /\ UNCHANGED wire
  /\ UNCHANGED <<simVars, flagVars, pairs, addr, status, configured, pc, adds, upds, dels>>

\* _perform_local_link_operations, second call: the flags of the updates ...
UpdateFlags ==
  /\ pc = "bulkAdd" /\ PoolDone
  /\ toUpdate' = toUpdate \ upds
  /\ pend' = adds
  /\ pc' = "localAdd"
  /\ UNCHANGED <<simVars, known, active, toAdd, toRemove, delay, pairs, emuVars, status,
                 configured, adds, upds, dels, faults>>

\* Mutant: a failed command clears to_add.
ToAddAfterRaise_Cleared(l) == toAdd \ {l}

AddPair(s, k) == IF Len(s) < MaxPairs THEN Append(s, k) ELSE s

\* RuntimeError is not among the exceptions _add_link_interfaces catches: it
\* skips "link.to_add = False" and ends in the log of the thread pool.
ToAddAfterRaise(l) == toAdd

\* ... and _add_link_interfaces: a new interface pair, its addresses, one
\* "ip addr add" per end (source first).  The command raises RuntimeError when
\* the device is missing or already has the address.
AddInterfaces(l) ==
  /\ pc = "localAdd" /\ l \in pend
  /\ pend' = pend \ {l}
  /\ pairs' = [pairs EXCEPT ![l] = AddPair(@, IF status THEN "ipv4" ELSE "bare")]
  /\ \/ /\ ~status
        /\ toAdd' = toAdd \ {l}
        /\ UNCHANGED <<addr, faults>>
     \/ /\ status /\ wire[l] # Unwired /\ addr[l] = 0
        /\ addr' = [addr EXCEPT ![l] = 2]
        /\ toAdd' = toAdd \ {l}
        /\ UNCHANGED faults
     \/ /\ status /\ (wire[l] = Unwired \/ addr[l] > 0)
        /\ toAdd' = ToAddAfterRaise(l)
        /\ UNCHANGED <<addr, faults>>
     \/ /\ status /\ wire[l] # Unwired /\ addr[l] = 0
        /\ Lost("addr")
        /\ \E n \in EndCounts : addr' = [addr EXCEPT ![l] = n]
        /\ toAdd' = ToAddAfterRaise(l)
  /\ UNCHANGED <<simVars, known, active, toUpdate, toRemove, delay, wire, status,
                 configured, pc, adds, upds, dels>>

LocalDone ==
  /\ pc = "localAdd" /\ PoolDone
  /\ adds' = {} /\ upds' = {}
  /\ pc' = "idle"
  /\ UNCHANGED <<simVars, flagVars, pairs, emuVars, status, configured, dels, pend, faults>>

-----------------------------------------------------------------------------
(* The emulator (NetworkLifecycleMixin), called between two passes. *)

StartGonetem ==
  /\ pc = "idle" /\ ~status
  /\ wire' = [l \in Link |-> IF l \in active THEN delay[l] ELSE Unwired]
  /\ status' = TRUE
  /\ UNCHANGED <<simVars, flagVars, pairs, addr, configured, passVars, faults>>

StopGonetem ==
  /\ pc = "idle" /\ status
  /\ wire' = [l \in Link |-> Unwired] /\ addr' = [l \in Link |-> 0]
  /\ status' = FALSE /\ configured' = FALSE
  /\ UNCHANGED <<simVars, flagVars, pairs, passVars, faults>>

HasAddress(l) == \E i \in 1..Len(pairs[l]) : pairs[l][i] = "ipv4"

\* set_ipv4_to_containers on every node: "addr add" for each interface that has
\* an address.  Without a container the command raises and is logged.
SetIpAddresses ==
  /\ pc = "idle" /\ (status \/ Offline)
  /\ addr' = [l \in Link |-> IF wire[l] # Unwired /\ HasAddress(l) THEN 2 ELSE addr[l]]
  /\ configured' = TRUE
  /\ UNCHANGED <<simVars, flagVars, pairs, wire, status, passVars, faults>>

-----------------------------------------------------------------------------

Environment ==
  \/ \E l \in Link, s \in SimStates : SetLink(l, s)
  \/ \E l \in Link, d \in Delay : Move(l, d)

PassStep ==
  \/ \E l \in Link : DeleteRpc(l) \/ AddRpc(l) \/ UpdateRpc(l) \/ AddInterfaces(l)
  \/ LocalDelete \/ UpdateFlags \/ LocalDone

Lifecycle == StartGonetem \/ StopGonetem \/ SetIpAddresses

Next == Environment \/ Sync \/ PassStep \/ Lifecycle

Spec == Init /\ [][Next]_vars

\* The loop thread goes on: a pass that began ends, and the next one begins.
FairSpec == Spec /\ WF_vars(Sync) /\ WF_vars(PassStep)
-----------------------------------------------------------------------------
(* Properties.  Quiet: between two passes, as long as no RPC has failed. *)

Quiet == pc = "idle" /\ faults = 0

\* Between two passes the emulator has a wire for exactly the active wrappers:
\* no pass forgets a link it listed, deletes one it just added, or leaves the
\* wire of a link that vanished, went down or came back meanwhile.
WiresMatchLinks == Quiet => Wires = IF status THEN active ELSE {}

\* The delay of a wire is the delay of its wrapper, unless an update is due:
\* an addition that outranks an update in the lists does not lose the update.
DelaysCurrent == Quiet => \A l \in Wires : wire[l] = delay[l] \/ l \in toUpdate

\* Each active wrapper has one interface pair on its nodes and no other link has
\* any, so repeated down/up cycles neither leak nor duplicate interfaces; and once
\* set_ip_addresses() was called both ends of every wire have their IPv4 address,
\* those of the wires that later passes created included.
InterfacesComplete ==
  Quiet =>
    /\ \A l \in Link : Len(pairs[l]) = IF l \in active THEN 1 ELSE 0
    /\ status /\ configured => \A l \in Wires : addr[l] = 2

\* A pass creates no wire while the wire of a link that is down, gone or due for
\* removal is still there: HIL handovers reuse the names of the old link
\* (comment in update_simulation).
DeleteBeforeAdd ==
  [][pc # "idle" /\ faults = 0 /\ ~(Wires' \subseteq Wires) => Wires \subseteq active \ toRemove]_vars

Stable == <>[][UNCHANGED simVars]_vars /\ <>[]status

\* Once the simulation manager stops changing and the emulator stays up, the
\* passes of the loop bring the emulator to the state of the simulation manager,
\* delays included, and leave it there with nothing left to add.
Converges ==
  Stable /\ [](faults = 0) =>
    <>[](Wires = Enabled /\ toAdd = {} /\ \A l \in Wires : wire[l] = dist[l])

\* Whatever RPCs fail, no link is lost for ever: a later pass adds what is missing
\* (a lost LinkDel may leave a wire behind), and the wrappers follow the simulation
\* manager: failed deletions neither keep a wrapper alive nor are listed for ever.
FaultsHeal ==
  Stable =>
    <>[](Enabled \subseteq Wires /\ known = Present /\ active = Enabled /\ toRemove = {})
-----------------------------------------------------------------------------
(* Refinement: a link that a pass is going to remove is out of the view, though its
   wrapper stays active until the wire is gone. *)

Emu == INSTANCE Emulation WITH
  view  <- active \ toRemove,
  net   <- Wires,
  on    <- status,
  phase <- IF pc = "idle" THEN "idle" ELSE IF pc = "bulkDel" THEN "removing" ELSE "adding",
  clean <- faults = 0

\* A pass, for all its flags, lists and concurrent RPCs, changes the emulator as
\* Emulation says: it removes and adds each wire once, touches no wire that stays,
\* and ends with the wires of its view.
ImplementsEmulation == Emu!Spec
-----------------------------------------------------------------------------
(* The inductive invariant behind WiresMatchLinks, DelaysCurrent and         *)
(* DeleteBeforeAdd: what each stage of a pass has done and still has to do,  *)
(* as long as no RPC has failed.                                             *)

IdleInv ==
  pc = "idle" =>
    /\ toAdd = {} /\ toRemove = {} /\ adds = {} /\ upds = {} /\ pend = {}
    /\ status => Wires = active

DeleteInv ==
  pc = "bulkDel" =>
    /\ toAdd = adds /\ toRemove = dels /\ adds \cap dels = {} /\ pend \subseteq dels
    /\ adds \subseteq active /\ upds = toUpdate \ (adds \cup dels)
    /\ ~status => pend = {}
    /\ status => /\ Wires \ dels = active \ (adds \cup dels)
                 /\ Wires \cap adds = {} /\ Wires \cap dels \subseteq pend

AddInv ==
  pc = "bulkAdd" =>
    /\ toAdd = adds /\ toRemove = {} /\ pend \subseteq adds \cup upds /\ adds \subseteq active
    /\ upds = toUpdate \ adds
    /\ ~status => pend = {}
    /\ status => Wires = active \ (adds \cap pend)
    /\ status => \A l \in Wires \cap (upds \ pend) : wire[l] = delay[l]

LocalInv ==
  pc = "localAdd" =>
    /\ toAdd = pend /\ toRemove = {} /\ pend \subseteq adds
    /\ adds \subseteq active
    /\ status => Wires = active

\* A wire that this pass made, or will make, has no address before _add_link_interfaces.
FreshInv ==
  /\ \A l \in Link : wire[l] = Unwired => addr[l] = 0
  /\ pc = "bulkAdd" => \A l \in adds : addr[l] = 0
  /\ pc = "localAdd" => \A l \in pend : addr[l] = 0

DelayInv ==
  \A l \in Wires : wire[l] = delay[l] \/ l \in toUpdate \/ l \in toRemove

IInv ==
  faults = 0 =>
    /\ active \subseteq known
    /\ ~status => Wires = {}
    /\ IdleInv /\ DeleteInv /\ AddInv /\ LocalInv /\ FreshInv /\ DelayInv
=============================================================================

---------------------------- MODULE StaticRoutes ----------------------------
(***************************************************************************)
(* StaticRoutingDaemon: the routing tables of the nodes, the cache of      *)
(* next-hop signatures, and the kernel routes that the differences of the  *)
(* tables are applied to.  A pass of the TopologyManager brings interfaces *)
(* and devices to the links of the simulation (LinkSync has the detail)    *)
(* and then calls update(); move_to_time() calls update() without that.    *)
(*                                                                         *)
(* A link is the set of its two nodes, a route the neighbour it leads to   *)
(* (its gateway and its device follow from that), a table a function from  *)
(* destinations to neighbours.                                             *)
(***************************************************************************)
EXTENDS Naturals, FiniteSets

CONSTANTS
  Node,        \* satellites and ground stations
  Dest,        \* ground stations and addressable satellites
  None,        \* no route
  NoSig,       \* no signature in the cache
  FaultKinds,  \* what can go wrong: "del" (a LinkDel fails), "batch" (the route batch
               \* of a node fails), "jump" (move_to_time()), "offline" (init_routing()
               \* while the emulator is off)
  MaxFaults    \* bound: how often that happens in one behaviour

ASSUME DestAssumption == Dest \subseteq Node
ASSUME ValuesAssumption == None \notin Node /\ MaxFaults \in Nat

VARIABLES
  sim,        \* links of the simulation
  ifaces,     \* links with interfaces on their nodes
  devs,       \* links whose veth pair exists
  cur,        \* ipv4_routing_table of the nodes
  prev,       \* ipv4_previous_routing_table of the nodes
  sig,        \* _source_signatures (and _entry_cache, which goes with it)
  kern,       \* routes in the kernels of the nodes
  status,     \* the emulator runs
  initiated,  \* routing_initiated
  daemon,     \* routing_daemon is not None
  pc,         \* stage of init() or update()
  mode,       \* which of the two it is
  hop,        \* next hops the shortest paths gave
  missed,     \* nodes whose last batch failed
  faults      \* how much went wrong so far

netVars   == <<sim, ifaces, devs>>
tableVars == <<cur, prev, sig>>
callVars  == <<pc, mode, hop>>
vars == <<netVars, tableVars, kern, status, initiated, daemon, callVars, missed, faults>>

AllLinks == {{n, m} : n, m \in Node} \ {{n} : n \in Node}

Table   == [Dest -> Node \cup {None}]
Empty   == [d \in Dest |-> None]
NoTable == [n \in Node |-> Empty]

ASSUME NoSigAssumption == \A t \in Table : t # NoSig

TypeOK ==
  /\ sim \subseteq AllLinks /\ ifaces \subseteq AllLinks /\ devs \subseteq AllLinks
  /\ cur \in [Node -> Table] /\ prev \in [Node -> Table] /\ kern \in [Node -> Table]
  /\ sig \in [Node -> Table \cup {NoSig}] /\ hop \in [Node -> Table]
  /\ status \in BOOLEAN /\ initiated \in BOOLEAN /\ daemon \in BOOLEAN
  /\ pc \in {"idle", "populate", "apply"} /\ mode \in {"init", "update"}
  /\ missed \subseteq Node /\ faults \in 0..MaxFaults

Init ==
  /\ sim \in SUBSET AllLinks /\ ifaces = sim /\ devs = {}
  /\ cur = NoTable /\ prev = NoTable /\ kern = NoTable /\ hop = NoTable
  /\ sig = [n \in Node |-> NoSig]
  /\ status = FALSE /\ initiated = FALSE /\ daemon = FALSE
  /\ pc = "idle" /\ mode = "init" /\ missed = {} /\ faults = 0

-----------------------------------------------------------------------------
(* get_current_graph and the shortest paths: whatever the weights, a path to d
   leaves n through a neighbour from which d can be reached without n. *)

Joined(a, b, within, graph) ==
  \A S \in SUBSET within :
    a \in S /\ b \notin S =>
      \E l \in graph : l \subseteq within /\ l \cap S # {} /\ l \cap (within \ S) # {}

NextHops(n, d, graph) ==
  LET via == {m \in Node \ {n} : {n, m} \in graph /\ Joined(m, d, Node \ {n}, graph)}
  IN IF n = d \/ via = {} THEN {None} ELSE via

IsRouting(h, graph) == \A n \in Node, d \in Dest : h[n][d] \in NextHops(n, d, graph)

ShortestPaths ==
  UNION {{[graph |-> g, next |-> h] : h \in {h \in [Node -> Table] : IsRouting(h, g)}} :
           g \in SUBSET AllLinks}

Fault(kind) == kind \in FaultKinds /\ faults < MaxFaults /\ faults' = faults + 1

\* _equalize_routing_tables: the current table becomes the previous one.
Rotated == cur

\* init() and update() begin: rotate, then the next hops of all nodes.
Begin(m, graph) ==
  /\ prev' = Rotated /\ cur' = NoTable
  /\ \E p \in ShortestPaths : p.graph = graph /\ hop' = p.next
  /\ mode' = m /\ pc' = "populate"
  /\ missed' = {}

\* Mutant: a table is reused although there is no old one.
SameHops_Empty(n) == TRUE
SameHops(n) == hop[n] = sig[n]

Resolved(n) == \A d \in Dest : hop[n][d] = None \/ {n, hop[n][d]} \in ifaces

\* _install_source_routes for the nodes ns: the same signature keeps the old
\* table, as current and as previous table.
Install(ns) ==
  /\ cur' = [n \in Node |-> IF n \notin ns THEN cur[n] ELSE IF SameHops(n) THEN sig[n] ELSE hop[n]]
  /\ sig' = [n \in Node |-> IF n \in ns /\ ~SameHops(n) THEN hop[n] ELSE sig[n]]

PreviousAfter(ns) == [n \in Node |-> IF n \in ns /\ SameHops(n) THEN sig[n] ELSE prev[n]]

\* Mutant: init() compares with the tables of an earlier init().
InitPrevious_Kept == PreviousAfter(Node)

\* init() clears the previous tables.
InitPrevious == NoTable

\* All tables are populated.  update() stops here while the emulator is off.
Populate ==
  /\ pc = "populate"
  /\ \A n \in Node : SameHops(n) \/ Resolved(n)
  /\ Install(Node)
  /\ prev' = IF mode = "init" THEN InitPrevious ELSE PreviousAfter(Node)
  /\ pc' = IF mode = "init" \/ status THEN "apply" ELSE "idle"
  /\ UNCHANGED <<netVars, kern, status, initiated, daemon, mode, hop, missed, faults>>

\* A next hop without an interface: src_ifaces.get() is None, and the
\* AttributeError ends init() or update() and the call that made it.  Some of the
\* other nodes have their new table by then.
PopulateRaises ==
  /\ pc = "populate"
  /\ \E n \in Node : ~SameHops(n) /\ ~Resolved(n)
  /\ \E ns \in SUBSET {n \in Node : SameHops(n) \/ Resolved(n)} :
       Install(ns) /\ prev' = PreviousAfter(ns)
  /\ pc' = "idle"
  /\ UNCHANGED <<netVars, kern, status, initiated, daemon, mode, hop, missed, faults>>

-----------------------------------------------------------------------------
(* _emit_batch_commands and the kernel. *)

\* Mutant: only what is new is applied.
Deleted_None(n) == {}

\* Destinations whose prefix is gone, while their device is on the node.
Deleted(n) ==
  {d \in Dest : prev[n][d] # None /\ cur[n][d] = None /\ {n, prev[n][d]} \in ifaces}

Replaced(n) == {d \in Dest : cur[n][d] # None /\ cur[n][d] # prev[n][d]}

\* What "ip -force -batch" leaves: a deletion must match the route, and a
\* replacement needs the device.
Applied(n) ==
  [d \in Dest |->
     IF d \in Deleted(n) /\ kern[n][d] = prev[n][d] THEN None
     ELSE IF d \in Replaced(n) /\ {n, cur[n][d]} \in devs THEN cur[n][d]
     ELSE kern[n][d]]

Changed == {n \in Node : Deleted(n) \cup Replaced(n) # {}}

\* One batch per node, from a thread pool; failed ones are logged, and without
\* containers all fail.
Apply ==
  /\ pc = "apply"
  /\ \/ status /\ missed' = {} /\ UNCHANGED faults
     \/ status /\ Fault("batch") /\ \E n \in Changed : missed' = {n}
     \/ ~status /\ missed' = Changed /\ UNCHANGED faults
  /\ kern' = [n \in Node |-> IF n \in missed' THEN kern[n] ELSE Applied(n)]
  /\ pc' = "idle"
  /\ initiated' = (initiated \/ mode = "init")
  /\ UNCHANGED <<netVars, tableVars, status, daemon, mode, hop>>

-----------------------------------------------------------------------------
(* The calls. *)

InitRouting ==
  /\ pc = "idle"
  /\ \/ status /\ UNCHANGED faults
     \/ ~status /\ Fault("offline")
  /\ daemon' = TRUE
  /\ sig' = [n \in Node |-> NoSig]
  /\ Begin("init", sim)
  /\ UNCHANGED <<netVars, kern, status, initiated>>

\* The kernel purges the routes of a veth pair that goes.
Purged(links) ==
  [n \in Node |-> [d \in Dest |-> IF {n, kern[n][d]} \in links THEN kern[n][d] ELSE None]]

\* A pass: the links of the simulation change, interfaces and veth pairs
\* follow (a lost LinkDel leaves the pair), then the routing is updated.
Pass ==
  /\ pc = "idle"
  /\ sim' \in SUBSET AllLinks /\ ifaces' = sim'
  /\ \/ devs' = (IF status THEN sim' ELSE {}) /\ UNCHANGED faults
     \/ /\ status /\ Fault("del")
        /\ \E l \in ifaces \ sim' : devs' = sim' \cup {l}
  /\ kern' = Purged(devs')
  /\ IF initiated
     THEN Begin("update", sim') /\ UNCHANGED sig
     ELSE UNCHANGED <<tableVars, callVars, missed>>
  /\ UNCHANGED <<status, initiated, daemon>>

\* move_to_time: the simulation jumps and the routing is rebuilt for it, with
\* the interfaces of the time before.
MoveToTime ==
  /\ pc = "idle" /\ Fault("jump")
  /\ sim' \in SUBSET AllLinks
  /\ IF daemon /\ status
     THEN Begin("update", sim') /\ UNCHANGED sig
     ELSE UNCHANGED <<tableVars, callVars, missed>>
  /\ UNCHANGED <<ifaces, devs, kern, status, initiated, daemon>>

\* _remove_node_routes: "route del" for every entry of the current tables.
WithoutTables ==
  [n \in Node |-> [d \in Dest |-> IF kern[n][d] = cur[n][d] THEN None ELSE kern[n][d]]]

\* Without containers a node with routes fails and keeps its tables.
NotRemoved == IF status THEN {} ELSE {n \in Node : cur[n] # Empty}

\* delete_routing: the caches, then the routes and the tables of every node.
DeleteRouting ==
  /\ pc = "idle" /\ initiated /\ daemon
  /\ sig' = [n \in Node |-> NoSig]
  /\ kern' = IF status THEN WithoutTables ELSE kern
  /\ cur' = [n \in Node |-> IF n \in NotRemoved THEN cur[n] ELSE Empty]
  /\ prev' = [n \in Node |-> IF n \in NotRemoved THEN prev[n] ELSE Empty]
  /\ initiated' = FALSE /\ daemon' = FALSE
  /\ UNCHANGED <<netVars, status, callVars, missed, faults>>

StartGonetem ==
  /\ pc = "idle" /\ ~status
  /\ status' = TRUE /\ devs' = ifaces
  /\ UNCHANGED <<sim, ifaces, tableVars, kern, initiated, daemon, callVars, missed, faults>>

\* stop_gonetem: the containers go, the daemon and its tables stay.
StopGonetem ==
  /\ pc = "idle" /\ status
  /\ status' = FALSE /\ initiated' = FALSE
  /\ devs' = {} /\ kern' = NoTable
  /\ UNCHANGED <<sim, ifaces, tableVars, daemon, callVars, missed, faults>>

Daemon == Populate \/ PopulateRaises \/ Apply

Calls == InitRouting \/ Pass \/ MoveToTime \/ DeleteRouting \/ StartGonetem \/ StopGonetem

Next == Daemon \/ Calls

Spec == Init /\ [][Next]_vars
-----------------------------------------------------------------------------
(* Properties.  Quiet: between two calls, as long as nothing went wrong. *)

Quiet == pc = "idle" /\ faults = 0

Installed == pc = "idle" /\ initiated /\ status

\* Between two calls the kernel of every node has exactly the routes of its
\* table, whichever nodes the diff, the signature cache and the skipped
\* deletions left out; and delete_routing() or a restart leaves no route behind,
\* although only the entries of the current tables are deleted.
KernelFollowsTables ==
  Quiet => (Installed => kern = cur) /\ (~initiated => kern = NoTable)

\* An init() installs every route of its tables on the nodes it could reach,
\* whatever went wrong before it: it is the way to repair the kernels.
InitInstallsAll ==
  [][Apply /\ mode = "init" =>
       \A n \in Node \ missed', d \in Dest :
         cur[n][d] # None /\ {n, cur[n][d]} \in devs => kern'[n][d] = cur[n][d]]_vars
=============================================================================

-------------------------------- MODULE Bird --------------------------------
(***************************************************************************)
(* The two daemons that configure Bird in the containers, OSPF and IS-IS   *)
(* with segment routing, under the routing manager.  init_routing() works  *)
(* on all nodes in parallel while passes go on in the simulation thread;   *)
(* a pass has the daemon configure the nodes of its new links again.       *)
(*                                                                         *)
(* A configuration is the set of links it has an interface block for.      *)
(***************************************************************************)
EXTENDS AddressPlan, FiniteSets, Sequences

CONSTANTS
  Satellite, GroundStation,  \* identifiers of the nodes
  Link,                      \* links: <<source, target>>
  MaxFaults,                 \* bound: failing commands in one behaviour
  None

Node == Satellite \cup GroundStation
Methods == {"dynamic-ospf", "dynamic-isis"}
Worker == {"init", "update"}   \* init_routing(), and the update of a pass

ASSUME NodeAssumption == Node \subseteq Id /\ Satellite \cap GroundStation = {}
ASSUME LinkAssumption ==
  /\ Link \subseteq {l \in Node \X Node : l[1] # l[2]}
  /\ \A l \in Link : <<l[2], l[1]>> \notin Link
ASSUME FaultAssumption == MaxFaults \in Nat
ASSUME NoneAssumption == \A ls \in SUBSET Link : ls # None

VARIABLES
  method,     \* the routing method of the behaviour
  on,         \* the emulator is on: containers execute commands
  links,      \* active links; their interfaces are in the nodes' lists
  bare,       \* those built while the emulator was off: they never get an address
  addr,       \* links on whose device a node has its address
  mpls,       \* links on whose device a node has MPLS input
  conf,       \* links of the configuration Bird runs with on a node, or None
  initiated,  \* routing_initiated
  busy,       \* init_routing() has not returned
  errors,     \* a node failed in that init
  todo,       \* nodes a worker has not begun
  file,       \* configuration init_routing() has written and not started
  gaps,       \* history: ends of links for which routing, initiated, does not answer
  faults      \* failing commands so far

linkVars    == <<links, bare>>
nodeVars    == <<addr, mpls, conf>>
managerVars == <<initiated, busy, errors>>
workVars    == <<todo, file>>
vars == <<method, on, linkVars, nodeVars, managerVars, workVars, gaps, faults>>

Ends(l) == {l[1], l[2]}
Incident(n, ls) == {l \in ls : n \in Ends(l)}
EndsOf(ls) == UNION {Ends(l) : l \in ls}
Halves(ls) == {h \in Node \X ls : h[1] \in Ends(h[2])}

TypeOK ==
  /\ method \in Methods /\ on \in BOOLEAN /\ links \subseteq Link /\ bare \subseteq links
  /\ addr \in [Node -> SUBSET Link] /\ mpls \in [Node -> SUBSET Link]
  /\ conf \in [Node -> (SUBSET Link) \cup {None}]
  /\ initiated \in BOOLEAN /\ busy \in BOOLEAN /\ errors \in BOOLEAN
  /\ todo \in [Worker -> SUBSET Node]
  /\ file \in [Node -> (SUBSET Link) \cup {None}]
  /\ gaps \subseteq Node \X Link /\ faults \in 0..MaxFaults
  /\ \A n \in Node : mpls[n] \subseteq Incident(n, links)
  /\ \A n \in Node : addr[n] \subseteq Incident(n, links \ bare)

\* The constructor gives the interfaces of its links their addresses.
Init ==
  /\ method \in Methods /\ on = FALSE /\ links \in SUBSET Link /\ bare = {}
  /\ addr = [n \in Node |-> {}] /\ mpls = addr /\ conf = [n \in Node |-> None]
  /\ initiated = FALSE /\ busy = FALSE /\ errors = FALSE
  /\ todo = [w \in Worker |-> {}] /\ file = [n \in Node |-> None]
  /\ gaps = {} /\ faults = 0

Fault == faults < MaxFaults /\ faults' = faults + 1

\* A command that fails: without a container it always does.
CommandFails == IF on THEN Fault ELSE UNCHANGED faults

-----------------------------------------------------------------------------
(* _init_node: it enables MPLS, assigns the addresses and writes the        *)
(* configuration; then it starts Bird with it.                              *)

\* Mutant: the links of the network in place of those of the node.
Devices_All(f, n, ls) == [f EXCEPT ![n] = ls]

Devices(f, n, ls) == [f EXCEPT ![n] = Incident(n, ls)]

\* The commands before the configuration: interfaces without an address are
\* passed over, although the configuration has blocks for them.
Prepare(n) ==
  /\ mpls' = IF method = "dynamic-isis" THEN Devices(mpls, n, links) ELSE mpls
  /\ addr' = Devices(addr, n, links \ bare)

\* One of the commands fails, the later ones are not tried.
NotPrepared(n) ==
  /\ mpls' \in {mpls} \cup IF on /\ method = "dynamic-isis" THEN {Devices(mpls, n, links)} ELSE {}
  /\ UNCHANGED addr

Failed(n) == gaps' = gaps \cup ({n} \X Incident(n, links))

\* A job of init_routing(): nodes are done in parallel, passes go on meanwhile.
InitNode(n) ==
  /\ n \in todo["init"] /\ todo' = [todo EXCEPT !["init"] = @ \ {n}]
  /\ \/ /\ on /\ Prepare(n) /\ file' = [file EXCEPT ![n] = Incident(n, links)]
        /\ UNCHANGED <<errors, gaps, faults>>
     \/ /\ CommandFails /\ NotPrepared(n) /\ Failed(n) /\ errors' = TRUE
        /\ UNCHANGED file
  /\ UNCHANGED <<method, on, linkVars, conf, initiated, busy>>

ApplyConfig(n) ==
  /\ file[n] # None /\ file' = [file EXCEPT ![n] = None]
  /\ \/ /\ on /\ conf' = [conf EXCEPT ![n] = file[n]]
        /\ UNCHANGED <<errors, gaps, faults>>
     \/ /\ CommandFails /\ Failed(n) /\ errors' = TRUE
        /\ conf' \in {conf, [conf EXCEPT ![n] = None]}
  /\ UNCHANGED <<method, on, linkVars, addr, mpls, initiated, busy, todo>>

\* During init_routing() what an update has configured may be replaced by something older.
Answered(n) == IF busy THEN gaps ELSE gaps \ ({n} \X Incident(n, links))

\* A node of an update, one after the other.
UpdateNode(n) ==
  /\ n \in todo["update"] /\ todo' = [todo EXCEPT !["update"] = @ \ {n}]
  /\ \/ /\ on /\ Prepare(n)
        /\ conf' = [conf EXCEPT ![n] = Incident(n, links)]
        /\ gaps' = Answered(n) /\ UNCHANGED faults
     \/ CommandFails /\ Failed(n) /\ NotPrepared(n) /\ UNCHANGED conf
     \/ /\ on /\ Fault /\ Failed(n) /\ Prepare(n)
        /\ conf' \in {conf, [conf EXCEPT ![n] = None]}
  /\ UNCHANGED <<method, on, linkVars, initiated, busy, errors, file>>

-----------------------------------------------------------------------------
(* The routing manager. *)

\* init_routing(): the new daemon replaces the old one; a flag that an earlier
\* call set stays.
InitRouting ==
  /\ ~busy
  /\ busy' = TRUE /\ errors' = FALSE /\ todo' = [todo EXCEPT !["init"] = Node]
  /\ gaps' = {}
  /\ UNCHANGED <<method, on, linkVars, nodeVars, initiated, file, faults>>

Initiated == initiated \/ ~errors

InitReturns ==
  /\ busy /\ todo["init"] = {} /\ \A n \in Node : file[n] = None
  /\ busy' = FALSE /\ initiated' = Initiated /\ errors' = FALSE
  /\ gaps' = IF initiated' THEN gaps ELSE {}
  /\ UNCHANGED <<method, on, linkVars, nodeVars, workVars, faults>>

\* delete_routing(): Bird is stopped everywhere, failures are logged.
DeleteRouting ==
  /\ ~busy /\ initiated
  /\ \/ on /\ conf' = [n \in Node |-> None] /\ UNCHANGED faults
     \/ CommandFails /\ \E n \in Node : conf' = [m \in Node |-> IF m = n THEN conf[n] ELSE None]
  /\ initiated' = FALSE /\ gaps' = {}
  /\ UNCHANGED <<method, on, linkVars, addr, mpls, busy, errors, workVars>>

-----------------------------------------------------------------------------
(* Passes, and the life of the emulator. *)

\* Mutant: only the sources of the new links are configured again.
Affected_Sources(new) == {l[1] : l \in new}

Affected(new) == EndsOf(new)

\* A pass, with the stages of LinkSync in one step: the devices of links that go
\* disappear with their address and their sysctl; those of new links get their
\* address, unless the command of an end fails (after that of the source the
\* target's is not tried).  An emulator that is off leaves them without.
Pass ==
  /\ todo["update"] = {}
  /\ links' \in SUBSET Link /\ links' # links
  /\ LET new == links' \ links
     IN /\ bare' = (bare \cap links') \cup IF on THEN {} ELSE new
        /\ \E missing \in {{}} \cup UNION {{Halves({l}), {<<l[2], l>>}} : l \in new} :
             /\ missing # {} => on /\ Fault
             /\ missing = {} => UNCHANGED faults
             /\ addr' = [n \in Node |->
                  (addr[n] \cap links')
                    \cup IF on THEN {l \in Incident(n, new) : <<n, l>> \notin missing} ELSE {}]
        /\ mpls' = [n \in Node |-> mpls[n] \cap links']
        /\ todo' = [todo EXCEPT !["update"] = IF initiated /\ on THEN Affected(new) ELSE {}]
        /\ gaps' = {h \in gaps : h[2] \in links'}
                     \cup IF busy THEN Halves(new) ELSE {}
  /\ UNCHANGED <<method, on, conf, managerVars, file>>

Quiet == ~busy /\ todo["update"] = {}

\* start_gonetem() and set_ip_addresses()
StartGonetem ==
  /\ ~on /\ Quiet
  /\ on' = TRUE
  /\ addr' \in {[n \in Node |-> {}], [n \in Node |-> Incident(n, links \ bare)]}
  /\ UNCHANGED <<method, linkVars, mpls, conf, managerVars, workVars, gaps, faults>>

\* stop_gonetem(): the containers go, and the routing with them.
StopGonetem ==
  /\ on /\ Quiet
  /\ on' = FALSE /\ initiated' = FALSE /\ gaps' = {}
  /\ addr' = [n \in Node |-> {}] /\ mpls' = addr' /\ conf' = [n \in Node |-> None]
  /\ UNCHANGED <<method, linkVars, busy, errors, workVars, faults>>

Next ==
  \/ \E n \in Node : InitNode(n) \/ ApplyConfig(n) \/ UpdateNode(n)
  \/ InitRouting \/ InitReturns \/ DeleteRouting
  \/ Pass \/ StartGonetem \/ StopGonetem

Spec == Init /\ [][Next]_vars

-----------------------------------------------------------------------------
(* Properties. *)

\* Once a pass is over, both ends of every active link run Bird with a block for
\* it, with the address and, for IS-IS, the MPLS input of the device, although an
\* update touches the nodes of new links only and configurations keep the blocks
\* of links that are gone.  No promise is made for links that come up before
\* init_routing() returns, and for nodes whose configuration failed; and none of
\* the address of a link that came up while the emulator was off, on whose device
\* Bird finds no address to form an adjacency with.
AdjacenciesConfigured ==
  on /\ initiated /\ Quiet => \A h \in Halves(links) \ gaps :
    LET n == h[1] IN
    /\ conf[n] # None /\ h[2] \in conf[n]
    /\ h[2] \in bare \/ h[2] \in addr[n]
    /\ method = "dynamic-isis" => h[2] \in mpls[n]

Type(n) == IF n \in Satellite THEN "Satellite" ELSE "GroundStation"

\* The loopback of a node stands for a link to itself, its management interface
\* for a link with no other end.
Interfaces == Halves(links) \cup {<<n, <<n, n>>>> : n \in Node} \cup {<<n, <<n>>>> : n \in Node}

Ip(n, l) ==
  IF l = <<n>> THEN BuildControllerIp(n)
  ELSE IF l = <<n, n>> THEN LoopbackIp(Type(n), n)
  ELSE LinkIps(Type(l[1]), l[1], l[2])[IF n = l[1] THEN 1 ELSE 2]

\* All interfaces that exist at a time have different addresses, whichever end of
\* a link was the source, up to the last identifier that fits; the two ends of a
\* link are in one subnet of two addresses.
AddressesDistinct ==
  /\ \A i, j \in Interfaces : Ip(i[1], i[2]) = Ip(j[1], j[2]) => i = j
  /\ \A l \in links : SameSubnet(Ip(l[1], l), Ip(l[2], l))
=============================================================================

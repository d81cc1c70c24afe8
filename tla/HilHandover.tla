---------------------------- MODULE HilHandover ----------------------------
(***************************************************************************)
(* The HILManager in the update pass of LinkSync: all links here are links *)
(* of hardware-in-the-loop ground stations, which have no container.  The  *)
(* pass sends their deletions, additions and updates to teardown_link,     *)
(* setup_link and update_link instead of to the launcher; comparison,      *)
(* lists, stages and flags are those of LinkSync.                          *)
(*                                                                         *)
(* A wire is the veth pair of a link: eth{gnd} in the satellite, hil{gnd}  *)
(* on the host.  The names carry the station only, so the host has room    *)
(* for one pair and one bridge, brhil{gnd}, per station.                   *)
(***************************************************************************)
EXTENDS LinkSync

CONSTANTS
  Station,     \* the HIL ground stations (keys of gnd_hardware_map)
  StationOf,   \* the station of a link
  LinkStates,  \* the states a link takes in the simulation manager
  MaxLinks,    \* most links a connection strategy gives to a station
  MaxUnplugs,  \* bound: how often a hardware interface disappears
  Unshaped,    \* the wire of a link whose veth pair has no qdiscs
  Nic          \* the hardware interface, as a port of a bridge

ASSUME FiniteAssumption == IsFiniteSet(Link)
ASSUME StationOfAssumption == StationOf \in [Link -> Station]
ASSUME LinkStatesAssumption == InitStates \subseteq LinkStates /\ LinkStates \subseteq SimStates
ASSUME MaxLinksAssumption == MaxLinks \in Nat /\ MaxUnplugs \in Nat
ASSUME ValuesAssumption == Unshaped \notin Delay \cup {Unwired} /\ Nic \notin Link

VARIABLES
  bridges,  \* host: stations whose bridge exists
  ports,    \* host: interfaces enslaved to the bridge (a veth counts as its link)
  book,     \* _hil_bridges, _hil_veths: stations with a bridge on record
  nics,     \* host: stations whose hardware interface is there
  unplugs   \* how often one disappeared so far

hilVars == <<bridges, ports, book, nics, unplugs>>
hvars   == <<vars, hilVars>>

LinksOf(g) == {l \in Link : StationOf[l] = g}

HilTypeOK ==
  /\ wire \in [Link -> Delay \cup {Unwired, Unshaped}]
  /\ bridges \subseteq Station /\ book \subseteq bridges /\ nics \subseteq Station
  /\ \A g \in Station : ports[g] \subseteq LinksOf(g) \cup {Nic}
  /\ unplugs \in 0..MaxUnplugs

Limited(f) == \A g \in Station : Cardinality({l \in LinksOf(g) : f[l] = "enabled"}) <= MaxLinks

HilInit ==
  /\ Init /\ Limited(sim)
  /\ bridges = {} /\ ports = [g \in Station |-> {}] /\ book = {}
  /\ nics = Station /\ unplugs = 0

-----------------------------------------------------------------------------
(* Environment: a connection strategy serves the stations anew, satellites
   move, the hardware interface of a station disappears or comes back. *)

Reconnect ==
  /\ \E f \in [Link -> LinkStates] : f # sim /\ Limited(f) /\ sim' = f
  /\ UNCHANGED <<dist, flagVars, pairs, emuVars, status, configured, passVars, faults, hilVars>>

Drift(l, d) == Move(l, d) /\ UNCHANGED hilVars

Unplug(g) ==
  /\ g \in nics /\ unplugs < MaxUnplugs
  /\ nics' = nics \ {g} /\ unplugs' = unplugs + 1
  /\ ports' = [ports EXCEPT ![g] = @ \ {Nic}]
  /\ UNCHANGED <<vars, bridges, book>>

Plug(g) ==
  /\ g \notin nics
  /\ nics' = nics \cup {g}
  /\ UNCHANGED <<vars, bridges, ports, book, unplugs>>

-----------------------------------------------------------------------------
(* setup_link: veth pair, bridge, qdiscs; it ends at the first that fails. *)

\* _create_veth: both names of the pair must be free.
VethFree(l) == \A m \in LinksOf(StationOf[l]) : wire[m] = Unwired

\* _create_bridge enslaves the veth first, then the hardware interface.
NewPorts(l) == {l} \cup (IF StationOf[l] \in nics THEN {Nic} ELSE {})

SetupLink(l) ==
  LET g == StationOf[l] IN
  \/ /\ ~VethFree(l)
     /\ UNCHANGED <<wire, hilVars>>
  \/ /\ VethFree(l) /\ g \in bridges
     /\ wire' = [wire EXCEPT ![l] = Unshaped]
     /\ UNCHANGED hilVars
  \/ /\ VethFree(l) /\ g \notin bridges
     /\ wire' = [wire EXCEPT ![l] = IF g \in nics THEN delay[l] ELSE Unshaped]
     /\ bridges' = bridges \cup {g}
     /\ ports' = [ports EXCEPT ![g] = NewPorts(l)]
     /\ book' = IF g \in nics THEN book \cup {g} ELSE book
     /\ UNCHANGED <<nics, unplugs>>

\* Mutants: a bridge is taken from the book but stays on the host, or stays in
\* the book; without a bridge on record the veth pair is left alone.
BridgesWithout_Kept(gs) == bridges
BookWithout_Kept(gs) == book
WireAfter_OnRecord(l) == IF StationOf[l] \in book THEN Unwired ELSE wire[l]

\* _teardown_bridge for the stations gs: only a bridge on record is deleted.
BridgesWithout(gs) == bridges \ (gs \cap book)
BookWithout(gs)    == book \ gs

TeardownBridges(gs) ==
  /\ book' = BookWithout(gs) /\ bridges' = BridgesWithout(gs)
  /\ UNCHANGED <<nics, unplugs>>

\* _delete_sat_veth
WireAfter(l) == Unwired

\* teardown_link: the bridge of the station, then the veth pair of the link.
HilDelete(l) ==
  LET g == StationOf[l] IN
  /\ pc = "bulkDel" /\ l \in pend
  /\ pend' = pend \ {l}
  /\ TeardownBridges({g})
  /\ ports' = [ports EXCEPT ![g] = IF g \in book THEN {} ELSE @ \ {l}]
  /\ wire' = [wire EXCEPT ![l] = WireAfter(l)]
  /\ addr' = [addr EXCEPT ![l] = 0]
  /\ UNCHANGED <<simVars, flagVars, pairs, status, configured, pc, adds, upds, dels, faults>>

HilAdd(l) ==
  /\ pc = "bulkAdd" /\ l \in pend \cap adds
  /\ pend' = pend \ {l}
  /\ SetupLink(l)
  /\ UNCHANGED <<simVars, flagVars, pairs, addr, status, configured, pc, adds, upds, dels, faults>>

\* update_link: "qdisc change" fails on an interface without the qdiscs.
HilUpdate(l) ==
  /\ pc = "bulkAdd" /\ l \in pend \cap upds
  /\ pend' = pend \ {l}
  /\ wire' = [wire EXCEPT ![l] = IF @ \in Delay THEN delay[l] ELSE @]
  /\ UNCHANGED <<simVars, flagVars, pairs, addr, status, configured, pc, adds, upds, dels,
                 faults, hilVars>>

\* _add_link_interfaces: the station has no container, so its address command
\* raises while the emulator runs.  The satellite has its address by then if it
\* is the source of the link.
HilAddInterfaces(l) ==
  /\ pc = "localAdd" /\ l \in pend
  /\ pend' = pend \ {l}
  /\ pairs' = [pairs EXCEPT ![l] = AddPair(@, IF status THEN "ipv4" ELSE "bare")]
  /\ toAdd' = IF status THEN ToAddAfterRaise(l) ELSE toAdd \ {l}
  /\ addr' \in {addr} \cup (IF wire[l] = Unwired THEN {} ELSE {[addr EXCEPT ![l] = 1]})
  /\ UNCHANGED <<simVars, known, active, toUpdate, toRemove, delay, wire, status,
                 configured, pc, adds, upds, dels, faults, hilVars>>

-----------------------------------------------------------------------------
(* Lifecycle. *)

\* wire_links sets the active links up one by one: of several links of a station
\* the first gets the names.  A bridge that an earlier run left fails them all.
HilStart ==
  /\ pc = "idle" /\ ~status
  /\ \E first \in [Station -> SUBSET active] :
       /\ \A g \in Station :
            /\ first[g] \subseteq LinksOf(g)
            /\ Cardinality(first[g]) = IF LinksOf(g) \cap active = {} THEN 0 ELSE 1
       /\ wire' = [l \in Link |->
            IF l \notin first[StationOf[l]] THEN Unwired
            ELSE IF StationOf[l] \in nics \ bridges THEN delay[l] ELSE Unshaped]
       /\ LET new == {g \in Station \ bridges : first[g] # {}} IN
            /\ bridges' = bridges \cup new
            /\ book' = book \cup (new \cap nics)
            /\ ports' = [g \in Station |-> IF g \in new THEN UNION {NewPorts(l) : l \in first[g]}
                                           ELSE ports[g]]
  /\ status' = TRUE
  /\ UNCHANGED <<simVars, flagVars, pairs, addr, configured, passVars, faults, nics, unplugs>>

\* teardown_all, then the containers are removed, and with them the veth pairs.
HilStop ==
  /\ pc = "idle" /\ status
  /\ TeardownBridges(book)
  /\ ports' = [g \in Station |-> IF g \in book THEN {} ELSE ports[g] \ Link]
  /\ wire' = [l \in Link |-> Unwired] /\ addr' = [l \in Link |-> 0]
  /\ status' = FALSE /\ configured' = FALSE
  /\ UNCHANGED <<simVars, flagVars, pairs, passVars, faults>>

\* Only the satellite end can get its address.
HilSetIpAddresses ==
  /\ pc = "idle" /\ (status \/ Offline)
  /\ addr' = [l \in Link |-> IF wire[l] # Unwired /\ HasAddress(l) THEN 1 ELSE addr[l]]
  /\ configured' = TRUE
  /\ UNCHANGED <<simVars, flagVars, pairs, wire, status, passVars, faults, hilVars>>

-----------------------------------------------------------------------------

HilEnvironment ==
  \/ Reconnect
  \/ \E l \in Link, d \in Delay : Drift(l, d)
  \/ \E g \in Station : Unplug(g) \/ Plug(g)

HilSync == Sync /\ UNCHANGED hilVars

HilPassStep ==
  \/ \E l \in Link : HilDelete(l) \/ HilAdd(l) \/ HilUpdate(l) \/ HilAddInterfaces(l)
  \/ (LocalDelete \/ UpdateFlags \/ LocalDone) /\ UNCHANGED hilVars

HilLifecycle == HilStart \/ HilStop \/ HilSetIpAddresses

HilNext == HilEnvironment \/ HilSync \/ HilPassStep \/ HilLifecycle

HilSpec == HilInit /\ [][HilNext]_hvars
HilFairSpec == HilSpec /\ WF_hvars(HilSync) /\ WF_hvars(HilPassStep)
-----------------------------------------------------------------------------
(* Properties. *)

\* As long as the hardware is there, between two passes the hardware of a station
\* that one satellite serves is bridged to the veth of that satellite and to no
\* other (docstring of the module, "Handover").
BridgedToActive ==
  pc = "idle" /\ status /\ unplugs = 0 =>
    \A g \in Station, l \in Link :
      LinksOf(g) \cap active = {l} => ports[g] = {l, Nic}

\* Whatever is unplugged and however many satellites serve a station, the
\* hardware never stays bridged to a satellite that no longer serves it, and a
\* station never has two veth pairs.
NoForeignVeth ==
  pc = "idle" =>
    /\ \A g \in Station : ports[g] \cap Link \subseteq Wires
    /\ Wires \subseteq active
    /\ \A l, m \in Wires : StationOf[l] = StationOf[m] => l = m

\* A stopped emulator leaves no bridge on the host (docs/hil_manager.md,
\* "Teardown"), unless hardware was missing when its bridge was set up.
TeardownComplete == ~status /\ unplugs = 0 => bridges = {}

\* At rest, each station is bridged to the satellite that serves it, however the
\* hand-over went.
HandoverSettles ==
  <>[][UNCHANGED sim]_sim /\ <>[]status /\ [](unplugs = 0) =>
    <>[](\A g \in Station, l \in Link :
           LinksOf(g) \cap Enabled = {l} => ports[g] = {l, Nic})
=============================================================================

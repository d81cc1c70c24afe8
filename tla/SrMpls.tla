------------------------------- MODULE SrMpls -------------------------------
(***************************************************************************)
(* SRMPLSDaemon: source routing with node labels.  A source pushes the     *)
(* label of every node after the first hop of a path; a satellite pops the *)
(* label of its neighbour and forwards to it.  The daemon sends only the   *)
(* command lines it believes to be new, in three stages per pass: label    *)
(* rules of the satellites, routes of the ground stations, routes of the   *)
(* addressable satellites.                                                 *)
(*                                                                         *)
(* A label is the node it names (SID = base + id, and ids are unique), a   *)
(* route a line of the kernel: the FEC, the labels to push and the         *)
(* neighbour ("via" the node itself: the loopback).  A pass of the         *)
(* TopologyManager brings interfaces and devices to the links first        *)
(* (LinkSync has the detail).  A custom path is set by another thread, and *)
(* nothing locks the two: both compute entries and lines, send and remember *)
(* them in steps of their own.                                              *)
(***************************************************************************)
EXTENDS Naturals, Sequences, FiniteSets, FiniteSetsExt

CONSTANTS
  Sat,         \* satellites
  Gnd,         \* ground stations
  Addressable, \* satellites with routes of their own
  AllLinks,    \* links the simulation may have
  Graphs,      \* graphs of the simulation: a set of links and their weights
  CustomPaths, \* paths a user may set
  MaxFaults    \* bound: failing batches in one behaviour

Node == Sat \cup Gnd
Dest == Gnd \cup Addressable

ASSUME NodeAssumption == Sat \cap Gnd = {} /\ Addressable \subseteq Sat
ASSUME LinkAssumption == AllLinks \subseteq {{n, m} : n, m \in Node} \ {{n} : n \in Node}
ASSUME GraphAssumption ==
  \A g \in Graphs : g.links \subseteq AllLinks /\ g.weight \in [AllLinks -> Nat]
ASSUME BoundAssumption == MaxFaults \in Nat
ASSUME PathAssumption ==
  \A p \in CustomPaths : p \in Seq(Node) /\ Len(p) >= 2 /\ p[1] # p[Len(p)]

VARIABLES
  graph,      \* graph of the simulation, its links with interfaces and devices
  status,     \* the emulator runs (status and gonetem_is_on)
  initiated,  \* routing_initiated
  manager,    \* the daemon has a label manager (is_initialized)
  custom,     \* custom_paths of the manager
  lfib,       \* sr_lfib: the path of every entry, <<>> where there is none
  seen,       \* custom paths as a pass met them that computes its entries
  taken,      \* lines a pass has taken for the stations, the new ones among them, and
              \* the stations whose batch went through
  call,       \* the call for a custom path under way, its entries, and whether
              \* no pass computed entries or installed them meanwhile
  prev,       \* _prev_sr_node_sid_routes, _prev_sr_gs_routes, _prev_sr_sat_routes
  kern,       \* lines in the kernels of the nodes
  input,      \* neighbours whose interface has net.mpls.conf.*.input = 1
  pc,         \* stage of the pass
  steady,     \* history: links that were up at the last init() and ever since
  missed,     \* history: nodes with a failed batch since the pass began
  astray,     \* history: nodes where a batch ran and failed all the same since init()
  raced,      \* history: stations with a call that met a pass in the middle of
              \* its computing or installing, since init()
  faults      \* failing batches so far

netVars == <<graph, status>>
links == graph.links
daemonVars == <<manager, custom, lfib, prev>>
localVars == <<seen, taken, call>>
histVars == <<steady, missed, astray, raced, faults>>
vars == <<netVars, initiated, daemonVars, localVars, kern, input, pc, histVars>>

Stages == {"sids", "gs", "sats"}
Neighbours(n, ls) == {m \in Node : {n, m} \in ls}

NoLines == [n \in Node |-> {}]
NoPrev  == [s \in Stages |-> NoLines]
NoPaths == [d \in Dest |-> <<>>]

NoTaken == [lines |-> [n \in Gnd |-> {}], new |-> [n \in Gnd |-> {}], sent |-> {}]
NoCall  == [at |-> "none", source |-> <<>>, entries |-> NoPaths, alone |-> FALSE]

\* A call for the source is under way.
Busy(s) == call.at # "none" /\ call.source = s

\* A pass computes the entries, or installs those of the stations.
Holding == pc \in {"build", "send", "keep"}

-----------------------------------------------------------------------------
(* Paths and lines. *)

Hops(p) == {{p[i], p[i + 1]} : i \in 1..(Len(p) - 1)}

SimplePaths ==
  {p \in UNION {[1..k -> Node] : k \in 2..Cardinality(Node)} :
     /\ Cardinality({p[i] : i \in DOMAIN p}) = Len(p)
     /\ Hops(p) \subseteq AllLinks}

Length(p, w) == MapThenSumSet(LAMBDA i : w[{p[i], p[i + 1]}], 1..(Len(p) - 1))

\* nx.all_pairs_dijkstra_path: a path of least weight, <<>> where there is none.
ShortestPath ==
  [g \in Graphs |->
     [s \in Dest |-> [d \in Dest |->
        LET all == {p \in SimplePaths : p[1] = s /\ p[Len(p)] = d /\ Hops(p) \subseteq g.links}
            least == {p \in all : \A q \in all : Length(p, g.weight) <= Length(q, g.weight)}
        IN IF least = {} THEN <<>> ELSE CHOOSE p \in least : TRUE]]]

\* get_label_stack_for_path(path[1:]) without penultimate hop popping.
LabelStack(p) == SubSeq(p, 3, Len(p))

Line(fec, push, via) == [fec |-> fec, push |-> push, via |-> via]

OwnLine(n)     == Line(<<"mpls", n>>, <<>>, n)
ForwardLine(m) == Line(<<"mpls", m>>, <<>>, m)
DirectLine(g)  == Line(<<"ip", g>>, <<>>, g)
RouteLine(p)   == Line(<<"ip", p[Len(p)]>>, LabelStack(p), p[2])

\* install_sr_forwarding: the lines of a satellite.
SidLines(n, ls) ==
  {OwnLine(n)} \cup {ForwardLine(m) : m \in Neighbours(n, ls)}
               \cup {DirectLine(g) : g \in Neighbours(n, ls) \cap Gnd}

\* install_gs_routes and install_satellite_routes.
RouteLines(n, entries) ==
  {OwnLine(n)} \cup {RouteLine(entries[d]) : d \in {d \in Dest : entries[d] # <<>>}}

\* Mutant: the line is added to the one with its FEC.
Replaced_Add(table, lines) == table \cup lines

\* "route replace": the line takes the place of the one with its FEC.
Replaced(table, lines) ==
  {r \in table : \A l \in lines : l.fec # r.fec} \cup lines

\* The path of the pair, the custom one first, if its first hop has an interface.
Entry(s, d, cust, path, ls) ==
  LET p == IF <<s, d>> \in DOMAIN cust THEN cust[<<s, d>>] ELSE path
  IN IF s # d /\ Len(p) >= 2 /\ {s, p[2]} \in ls THEN p ELSE <<>>

\* Mutant: a rebuild does not ask for custom paths.
Built_Shortest(cust, g) ==
  [s \in Dest |-> [d \in Dest |-> Entry(s, d, <<>>, ShortestPath[g][s][d], g.links)]]

\* _build_sr_gs_routes
Built(cust, g) ==
  [s \in Dest |-> [d \in Dest |-> Entry(s, d, cust, ShortestPath[g][s][d], g.links)]]

-----------------------------------------------------------------------------
TypeOK ==
  /\ graph \in Graphs
  /\ status \in BOOLEAN /\ initiated \in BOOLEAN /\ manager \in BOOLEAN
  /\ \A q \in DOMAIN custom : \E p \in CustomPaths : custom[q] = p /\ q = <<p[1], p[Len(p)]>>
  /\ \A s \in Dest, d \in Dest : lfib[s][d] = <<>> \/ {s, lfib[s][d][2]} \in AllLinks
  /\ \A n \in Node : \A k, l \in kern[n] : k.fec = l.fec => k = l
  /\ \A n \in Node : \A l \in kern[n] : l.via = n \/ {n, l.via} \in links
  /\ \A n \in Node : input[n] \subseteq Neighbours(n, links)
  /\ pc \in Stages \cup {"idle", "build", "send", "keep"}
  /\ pc # "idle" => manager /\ (status \/ pc = "build")
  /\ call.at \in {"none", "begun", "built", "sent"}
  /\ call.at # "none" => call.source \in Gnd /\ manager /\ status
  /\ call.alone => ~Holding
  /\ steady \subseteq links /\ missed \subseteq Node /\ astray \subseteq Node /\ raced \subseteq Gnd
  /\ faults \in 0..MaxFaults

Init ==
  /\ graph \in Graphs
  /\ status = FALSE /\ initiated = FALSE /\ manager = FALSE
  /\ custom = <<>> /\ lfib = [s \in Dest |-> NoPaths]
  /\ prev = NoPrev /\ kern = NoLines /\ input = NoLines
  /\ seen = <<>> /\ taken = NoTaken /\ call = NoCall
  /\ pc = "idle" /\ steady = {} /\ missed = {} /\ astray = {} /\ raced = {} /\ faults = 0

\* What went wrong is told apart from init() to init() only.
Forgiven == missed' = {} /\ astray' = {} /\ raced' = {}

(* init_routing(): a new daemon with a new label manager; custom paths and what
   was sent are forgotten.  MPLS is enabled on the interfaces there are now. *)
InitRouting ==
  /\ pc = "idle" /\ call.at = "none"
  /\ manager' = TRUE /\ custom' = <<>> /\ prev' = NoPrev
  /\ lfib' = Built(<<>>, graph)
  /\ initiated' = TRUE /\ Forgiven
  /\ IF status
     THEN /\ input' = [n \in Node |-> Neighbours(n, links)]
          /\ steady' = links /\ pc' = "sids"
     ELSE /\ steady' = {} /\ UNCHANGED <<input, pc>>
  /\ UNCHANGED <<netVars, localVars, kern, faults>>

\* The kernel refuses a line that uses a device which is gone.
Accepted(n, lines) == {l \in lines : l.via = n \/ {n, l.via} \in links}

\* Mutant: what was sent before is remembered as well.
Remembered_All(stage, n, lines) == prev[stage][n] \cup lines

\* What a node is remembered to have, once the batch of the stage went through.
Remembered(stage, n, lines) == lines

Changed(stage, lines) == [n \in DOMAIN lines |-> lines[n] \ prev[stage][n]]

(* One stage: every node gets the lines that were not in the batch before, all
   in one command.  A batch that fails, having done all or nothing, is logged. *)
Sends(ns, new, failed, done) ==
  /\ \A n \in failed : new[n] # {} /\ faults < MaxFaults
  /\ failed = {} => done
  /\ faults' = faults + Cardinality(failed)
  /\ missed' = missed \cup failed
  /\ astray' = IF done THEN astray \cup failed ELSE astray
  /\ kern' = [n \in Node |->
       IF n \in ns \ failed \/ (n \in failed /\ done)
       THEN Replaced(kern[n], Accepted(n, new[n])) ELSE kern[n]]

\* What the nodes are remembered to have.
Remembers(stage, ns, lines) ==
  prev' = [prev EXCEPT ![stage] =
    [n \in Node |-> IF n \in ns THEN Remembered(stage, n, lines[n]) ELSE @[n]]]

\* A stage that no call is in the way of.
Batches(stage, ns, lines, new) ==
  /\ \E failed \in {{}} \cup {{n} : n \in ns}, done \in BOOLEAN :
       /\ Sends(ns, new, failed, done)
       /\ Remembers(stage, {n \in ns \ failed : new[n] # {}}, lines)
  /\ UNCHANGED <<netVars, initiated, manager, custom, lfib, input, steady>>

ApplyNodeSids ==
  /\ pc = "sids" /\ pc' = "gs"
  /\ LET lines == [n \in Sat |-> SidLines(n, links)]
     IN Batches("sids", Sat, lines, Changed("sids", lines))
  /\ UNCHANGED <<localVars, raced>>

\* The pass computes or installs while a call is under way.
Overlap ==
  /\ call' = [call EXCEPT !.alone = FALSE]
  /\ raced' = raced \cup {s \in Gnd : Busy(s)}

\* install_gs_routes, up to the command: entries and what was sent are read,
TakeRoutes ==
  /\ pc = "gs" /\ pc' = "send"
  /\ LET lines == [n \in Gnd |-> RouteLines(n, lfib[n])]
     IN taken' = [lines |-> lines, new |-> Changed("gs", lines), sent |-> {}]
  /\ Overlap
  /\ UNCHANGED <<netVars, initiated, daemonVars, seen, kern, input, steady, missed, astray, faults>>

\* the command is sent,
SendStations ==
  /\ pc = "send" /\ pc' = "keep"
  /\ \E failed \in {{}} \cup {{n} : n \in Gnd}, done \in BOOLEAN :
       /\ Sends(Gnd, taken.new, failed, done)
       /\ taken' = [taken EXCEPT !.sent = {n \in Gnd \ failed : taken.new[n] # {}}]
  /\ UNCHANGED <<netVars, initiated, daemonVars, seen, call, input, steady, raced>>

\* and remembered, whatever entries and kernels are by now.
RememberStations ==
  /\ pc = "keep" /\ pc' = "sats"
  /\ Remembers("gs", taken.sent, taken.lines)
  /\ taken' = NoTaken
  /\ UNCHANGED <<netVars, initiated, manager, custom, lfib, seen, call, kern, input, histVars>>

ApplySatellites ==
  /\ pc = "sats" /\ pc' = "idle"
  /\ LET lines == [n \in Addressable |-> RouteLines(n, lfib[n])]
     IN Batches("sats", Addressable, lines, Changed("sats", lines))
  /\ UNCHANGED <<localVars, raced>>

\* A pass: the simulation moves, interfaces and devices follow, and the kernel
\* purges the routes of lost devices; update() begins when routing is on.
Pass ==
  /\ pc = "idle" /\ pc' = IF initiated THEN "build" ELSE "idle"
  /\ graph' \in Graphs
  /\ kern' = [n \in Node |-> {l \in kern[n] : l.via = n \/ {n, l.via} \in links'}]
  /\ input' = [n \in Node |-> {m \in input[n] : {n, m} \in links'}]
  /\ steady' = steady \cap links'
  /\ seen' = IF initiated THEN custom ELSE <<>>
  /\ missed' = IF initiated THEN {} ELSE missed
  /\ Overlap
  /\ UNCHANGED <<status, initiated, daemonVars, taken, astray, faults>>

\* update() has computed the entries, of some sources before a custom path changed.
Rebuild ==
  /\ pc = "build" /\ pc' = IF status THEN "sids" ELSE "idle"
  /\ \E old \in SUBSET Dest :
       lfib' = [s \in Dest |-> IF s \in old THEN Built(seen, graph)[s] ELSE Built(custom, graph)[s]]
  /\ seen' = <<>>
  /\ UNCHANGED <<netVars, initiated, manager, custom, taken, call, prev, kern, input, histVars>>

(* _update_sr_route_for_source(): the entries, for ground stations only, are computed,
   stored, all their lines sent and then remembered. *)
SourceEntries(s, cust) ==
  [d \in Dest |-> IF d \in Gnd THEN Entry(s, d, cust, ShortestPath[graph][s][d], links) ELSE <<>>]

\* A call stores its custom path, or forgets it, and computes the entries.
ApplyCustom(s, cust) ==
  /\ call.at = "none"
  /\ custom' = cust
  /\ call' = IF status /\ s \in Gnd
             THEN [at |-> "begun", source |-> s, entries |-> SourceEntries(s, cust),
                   alone |-> ~Holding]
             ELSE call
  /\ raced' = IF Holding THEN raced \cup ({s} \cap Gnd) ELSE raced
  /\ UNCHANGED <<netVars, initiated, manager, lfib, prev, seen, taken, kern, input, pc,
                 steady, missed, astray, faults>>

StoreEntries ==
  /\ call.at = "begun" /\ call' = [call EXCEPT !.at = "built"]
  /\ lfib' = [lfib EXCEPT ![call.source] = call.entries]
  /\ input' = [input EXCEPT ![call.source] = Neighbours(call.source, links)]
  /\ UNCHANGED <<netVars, initiated, manager, custom, prev, seen, taken, kern, pc, histVars>>

\* The command is sent; one that fails, having done all or nothing, is logged.
SendLines ==
  LET s == call.source
      table == Replaced(kern[s], Accepted(s, RouteLines(s, call.entries)))
  IN /\ call.at = "built"
     /\ \/ /\ call' = [call EXCEPT !.at = "sent"]
           /\ kern' = [kern EXCEPT ![s] = table]
           /\ UNCHANGED <<missed, astray, faults>>
        \/ /\ call' = NoCall
           /\ faults < MaxFaults /\ faults' = faults + 1 /\ missed' = missed \cup {s}
           /\ \/ UNCHANGED <<kern, astray>>
              \/ kern' = [kern EXCEPT ![s] = table] /\ astray' = astray \cup {s}
     /\ UNCHANGED <<netVars, initiated, daemonVars, seen, taken, input, pc, steady, raced>>

\* What is remembered is what the kernel has, whatever went wrong before, if no
\* pass was in the way.
RememberLines ==
  LET s == call.source
  IN /\ call.at = "sent" /\ call' = NoCall
     /\ prev' = [prev EXCEPT !["gs"][s] = Remembered("gs", s, RouteLines(s, call.entries))]
     /\ raced' = IF call.alone THEN raced \ {s} ELSE raced
     /\ astray' = IF call.alone THEN astray \ {s} ELSE astray
     /\ UNCHANGED <<netVars, initiated, manager, custom, lfib, seen, taken, kern, input, pc,
                    steady, missed, faults>>

\* set_sr_custom_path
SetCustomPath ==
  /\ manager
  /\ \E p \in CustomPaths :
       LET q == <<p[1], p[Len(p)]>>
       IN ApplyCustom(p[1], [r \in DOMAIN custom \cup {q} |-> IF r = q THEN p ELSE custom[r]])

\* clear_sr_custom_path, of a pair that has one.
ClearCustomPath ==
  /\ manager
  /\ \E q \in DOMAIN custom : ApplyCustom(q[1], [r \in DOMAIN custom \ {q} |-> custom[r]])

\* delete_routing(): the label table is flushed, routes with labels stay.
DeleteRouting ==
  /\ pc = "idle" /\ call.at = "none" /\ initiated /\ manager
  /\ kern' = [n \in Node |-> {l \in kern[n] : l.fec[1] = "ip" \/ ~status}]
  /\ manager' = FALSE /\ custom' = <<>> /\ prev' = NoPrev
  /\ lfib' = [s \in Dest |-> NoPaths]
  /\ initiated' = FALSE
  /\ steady' = {} /\ Forgiven
  /\ UNCHANGED <<netVars, localVars, input, pc, faults>>

StartGonetem ==
  /\ pc = "idle" /\ call.at = "none" /\ ~status
  /\ status' = TRUE
  /\ UNCHANGED <<graph, initiated, daemonVars, localVars, kern, input, pc, histVars>>

\* stop_gonetem(): the containers go, the daemon stays as it is.
StopGonetem ==
  /\ pc = "idle" /\ call.at = "none" /\ status
  /\ status' = FALSE /\ initiated' = FALSE
  /\ kern' = NoLines /\ input' = NoLines /\ steady' = {}
  /\ Forgiven
  /\ UNCHANGED <<graph, daemonVars, localVars, pc, faults>>

ApplyGroundStations == TakeRoutes \/ SendStations \/ RememberStations

Daemon == Rebuild \/ ApplyNodeSids \/ ApplyGroundStations \/ ApplySatellites

Call == StoreEntries \/ SendLines \/ RememberLines

Calls ==
  \/ InitRouting \/ Pass \/ SetCustomPath \/ ClearCustomPath
  \/ DeleteRouting \/ StartGonetem \/ StopGonetem

Next == Daemon \/ Call \/ Calls

Spec == Init /\ [][Next]_vars

-----------------------------------------------------------------------------
(* The way of a packet.  It is at a node, came from a neighbour (or is at its
   source: from the node itself), and carries labels above its destination. *)

Lookup(n, fec) == {l \in kern[n] : l.fec = fec}

\* Dropped: no line, or a labelled packet by an interface without MPLS input.
Dropped(k) ==
  IF k.labels = <<>> THEN k.at = k.to \/ Lookup(k.at, <<"ip", k.to>>) = {}
  ELSE \/ k.from # k.at /\ k.from \notin input[k.at]
       \/ Lookup(k.at, <<"mpls", Head(k.labels)>>) = {}

Forwarded(k) ==
  IF Dropped(k) THEN k
  ELSE LET l == CHOOSE l \in Lookup(k.at, IF k.labels = <<>> THEN <<"ip", k.to>>
                                          ELSE <<"mpls", Head(k.labels)>>) : TRUE
       IN [k EXCEPT !.at = l.via, !.from = k.at,
                    !.labels = IF @ = <<>> THEN l.push ELSE Tail(@)]

\* Where a packet from s to d is after each of n steps.
Way(s, d, n) ==
  LET way[i \in 0..n] ==
        IF i = 0 THEN [at |-> s, from |-> s, to |-> d, labels |-> <<>>] ELSE Forwarded(way[i - 1])
  IN way

Follows(p) ==
  LET way == Way(p[1], p[Len(p)], Len(p) - 1)
  IN \A i \in 1..Len(p) : way[i - 1].at = p[i]

-----------------------------------------------------------------------------
(* Properties. *)

Settled == pc = "idle" /\ initiated /\ status /\ missed = {}

\* The lines of the source are known: no call is under way, and since init() no batch
\* ran that seemed to fail and no call met a pass, unless a call went through alone later.
Known(s) == ~Busy(s) /\ s \notin astray \cup raced

\* Only satellites forward labels: a path through a ground station has no rules.
OverSatellites(p) == \A i \in 2..(Len(p) - 1) : p[i] \in Sat

\* Between two passes, packets between ground stations, from them to addressable
\* satellites, and between those, take exactly the path the daemon computed if
\* its links were up since init() and the lines of the source are known: whatever
\* lines were skipped because an earlier batch had them, whichever batches did not
\* run in earlier passes, and whatever a custom path or an earlier daemon left in
\* the kernels.
SteadyPathsDeliver ==
  Settled =>
    \A s \in Dest, d \in Dest :
      LET p == lfib[s][d]
      IN /\ Known(s)
         /\ p # <<>> /\ Hops(p) \subseteq steady /\ OverSatellites(p)
         /\ (s \in Gnd \/ d \in Addressable)
         => Follows(p)

\* A custom path holds from the call that sets it until it is cleared, also when the
\* call falls between the stages of a pass that computed another path for the pair.
\* A call that meets a pass while it computes its entries or installs those of the
\* stations is promised nothing: without a lock, each may undo what the other sent,
\* and the custom path may be lost until init() or until a call for its source that
\* meets no pass.
CustomPathsDeliver ==
  Settled =>
    \A q \in DOMAIN custom :
      /\ Known(q[1]) /\ q[1] \in Gnd /\ q[2] \in Gnd
      /\ Hops(custom[q]) \subseteq steady /\ OverSatellites(custom[q])
      => Follows(custom[q])
=============================================================================

------------------------- MODULE StaticRoutesProofs -------------------------
(* Proofs about StaticRoutes, for any nodes and destinations, any choice of   *)
(* shortest paths and any number of things that go wrong.                     *)
EXTENDS StaticRoutes, TLAPS

USE DestAssumption, ValuesAssumption, NoSigAssumption

-----------------------------------------------------------------------------
(* Helpers. *)

\* The shortest paths give one of the next hops of the graph.
LEMMA PathsRoute ==
  ASSUME NEW g, NEW h, \E p \in ShortestPaths : p.graph = g /\ h = p.next
  PROVE  h \in [Node -> Table] /\ IsRouting(h, g)
<1>1. PICK p \in ShortestPaths : p.graph = g /\ h = p.next
  OBVIOUS
<1>2. PICK g1 \in SUBSET AllLinks, h1 \in [Node -> Table] :
        IsRouting(h1, g1) /\ p = [graph |-> g1, next |-> h1]
  BY <1>1 DEF ShortestPaths
<1> QED
  BY <1>1, <1>2

\* A route leaves through a link of the graph, and whether there is one does not
\* depend on the choice of paths.
LEMMA RouteFacts ==
  ASSUME NEW g, NEW h, IsRouting(h, g), NEW n \in Node, NEW d \in Dest
  PROVE  /\ h[n][d] # None => {n, h[n][d]} \in g
         /\ h[n][d] = None <=> NextHops(n, d, g) = {None}
<1>1. h[n][d] \in NextHops(n, d, g)
  BY DEF IsRouting
<1> QED
  BY <1>1 DEF NextHops

\* No link leads to a node that is none.
LEMMA NoLinkToNone ==
  ASSUME NEW n \in Node, NEW g \in SUBSET AllLinks
  PROVE  {n, None} \notin g
  BY DEF AllLinks

\* What Begin leaves.
LEMMA BeginFacts ==
  ASSUME NEW m, NEW g, Begin(m, g)
  PROVE  /\ prev' = cur /\ cur' = NoTable /\ mode' = m /\ pc' = "populate" /\ missed' = {}
         /\ hop' \in [Node -> Table] /\ IsRouting(hop', g)
  BY PathsRoute DEF Begin, Rotated

-----------------------------------------------------------------------------
(* Types. *)

\* TypeOK in two parts.
Flags ==
  /\ status \in BOOLEAN /\ initiated \in BOOLEAN /\ daemon \in BOOLEAN
  /\ pc \in {"idle", "populate", "apply"} /\ mode \in {"init", "update"}
  /\ faults \in 0..MaxFaults

Tables ==
  /\ sim \subseteq AllLinks /\ ifaces \subseteq AllLinks /\ devs \subseteq AllLinks
  /\ cur \in [Node -> Table] /\ prev \in [Node -> Table] /\ kern \in [Node -> Table]
  /\ sig \in [Node -> Table \cup {NoSig}] /\ hop \in [Node -> Table]
  /\ missed \subseteq Node

TypeInv == Flags /\ Tables

\* The two parts are TypeOK.
LEMMA TypeParts == TypeInv <=> TypeOK
  BY Zenon DEF TypeInv, Flags, Tables, TypeOK

\* The empty tables are tables.
LEMMA NoTableType == NoTable \in [Node -> Table] /\ Empty \in Table
  BY DEF NoTable, Empty, Table

\* Tables that are reused, or new, are tables.
LEMMA InstallType ==
  ASSUME TypeInv, NEW ns \in SUBSET Node
  PROVE  /\ Install(ns) => cur' \in [Node -> Table] /\ sig' \in [Node -> Table \cup {NoSig}]
         /\ PreviousAfter(ns) \in [Node -> Table]
<1>1. \A n \in Node : SameHops(n) => sig[n] \in Table
  BY DEF SameHops, TypeInv, Tables
<1> QED
  BY <1>1 DEF Install, PreviousAfter, TypeInv, Tables

\* What the commands leave in a kernel is a table.
LEMMA KernelType ==
  ASSUME TypeInv
  PROVE  /\ \A n \in Node : Applied(n) \in Table
         /\ \A ls : Purged(ls) \in [Node -> Table]
         /\ WithoutTables \in [Node -> Table]
<1> USE DEF TypeInv, Tables, Table
<1>1. ASSUME NEW n \in Node PROVE Applied(n) \in Table
  BY DEF Applied
<1>2. ASSUME NEW ls PROVE Purged(ls) \in [Node -> Table]
  BY DEF Purged
<1>3. WithoutTables \in [Node -> Table]
  BY DEF WithoutTables
<1> QED
  BY <1>1, <1>2, <1>3

\* The initial states have the types.
LEMMA TypeInit == Init => TypeInv
<1> SUFFICES ASSUME Init PROVE TypeInv
  OBVIOUS
<1>1. Flags
  <2>1. 0 \in 0..MaxFaults
    OBVIOUS
  <2> QED
    BY <2>1 DEF Init, Flags
<1>2. Tables
  BY NoTableType DEF Init, Tables
<1> QED
  BY <1>1, <1>2 DEF TypeInv

\* A step keeps the types of the flags.
LEMMA FlagsStep ==
  ASSUME Flags, [Next]_vars
  PROVE  Flags'
<1>1. faults' \in 0..MaxFaults
  <2>1. faults' = faults \/ (faults < MaxFaults /\ faults' = faults + 1)
    BY DEF Next, vars, Daemon, Populate, PopulateRaises, Apply, Calls, InitRouting, Pass,
       MoveToTime, DeleteRouting, StartGonetem, StopGonetem, Fault
  <2> QED
    BY <2>1 DEF Flags
<1>2. /\ status' \in BOOLEAN /\ initiated' \in BOOLEAN /\ daemon' \in BOOLEAN
  BY DEF Flags, Next, vars, Daemon, Populate, PopulateRaises, Apply, Calls, InitRouting, Pass,
     MoveToTime, DeleteRouting, StartGonetem, StopGonetem
<1>3. pc' \in {"idle", "populate", "apply"} /\ mode' \in {"init", "update"}
  BY DEF Flags, Next, vars, callVars, Daemon, Populate, PopulateRaises, Apply, Calls,
     InitRouting, Pass, MoveToTime, DeleteRouting, StartGonetem, StopGonetem, Begin
<1> QED
  BY <1>1, <1>2, <1>3 DEF Flags

\* A step keeps the types of the links, the tables and the kernels.
LEMMA TablesStep ==
  ASSUME TypeInv, [Next]_vars
  PROVE  Tables'
<1>1. Tables
  BY DEF TypeInv
<1>2. CASE Populate
  <2>1. cur' \in [Node -> Table] /\ sig' \in [Node -> Table \cup {NoSig}]
    BY <1>2, InstallType DEF Populate
  <2>2. prev' \in [Node -> Table]
    BY <1>2, InstallType, NoTableType DEF Populate, InitPrevious
  <2>3. UNCHANGED <<sim, ifaces, devs, kern, hop, missed>>
    BY <1>2 DEF Populate, netVars
  <2> QED
    BY <1>1, <2>1, <2>2, <2>3 DEF Tables
<1>3. CASE PopulateRaises
  <2>1. PICK ns \in SUBSET Node : Install(ns) /\ prev' = PreviousAfter(ns)
    BY <1>3 DEF PopulateRaises
  <2>2. UNCHANGED <<sim, ifaces, devs, kern, hop, missed>>
    BY <1>3 DEF PopulateRaises, netVars
  <2> QED
    BY <1>1, <2>1, <2>2, InstallType DEF Tables
<1>4. CASE Apply
  <2>1. kern' \in [Node -> Table]
    BY <1>1, <1>4, KernelType DEF Apply, Tables
  <2>2. missed' \subseteq Node
    BY <1>4 DEF Apply, Changed
  <2>3. UNCHANGED <<sim, ifaces, devs, cur, prev, sig, hop>>
    BY <1>4 DEF Apply, netVars, tableVars
  <2> QED
    BY <1>1, <2>1, <2>2, <2>3 DEF Tables
<1>5. CASE InitRouting
  <2>1. Begin("init", sim) /\ sig' = [n \in Node |-> NoSig]
        /\ UNCHANGED <<sim, ifaces, devs, kern>>
    BY <1>5 DEF InitRouting, netVars
  <2> QED
    BY <1>1, <2>1, BeginFacts, NoTableType DEF Tables
<1>6. CASE Pass
  <2>1. sim' \subseteq AllLinks /\ ifaces' \subseteq AllLinks
    BY <1>6 DEF Pass
  <2>2. devs' \subseteq AllLinks
    BY <1>1, <1>6, <2>1 DEF Pass, Tables
  <2>3. kern' \in [Node -> Table]
    BY <1>6, KernelType DEF Pass
  <2>4. \/ Begin("update", sim') /\ UNCHANGED sig
        \/ UNCHANGED <<tableVars, callVars, missed>>
    BY <1>6 DEF Pass
  <2> QED
    BY <1>1, <2>1, <2>2, <2>3, <2>4, BeginFacts, NoTableType DEF Tables, tableVars, callVars
<1>7. CASE MoveToTime
  <2>1. \/ Begin("update", sim') /\ UNCHANGED sig
        \/ UNCHANGED <<tableVars, callVars, missed>>
    BY <1>7 DEF MoveToTime
  <2>2. sim' \subseteq AllLinks /\ UNCHANGED <<ifaces, devs, kern>>
    BY <1>7 DEF MoveToTime
  <2> QED
    BY <1>1, <2>1, <2>2, BeginFacts, NoTableType DEF Tables, tableVars, callVars
<1>8. CASE DeleteRouting
  BY <1>1, <1>8, KernelType, NoTableType DEF DeleteRouting, Tables, netVars, callVars
<1>9. CASE StartGonetem
  BY <1>1, <1>9 DEF StartGonetem, Tables, tableVars, callVars
<1>10. CASE StopGonetem
  BY <1>1, <1>10, NoTableType DEF StopGonetem, Tables, tableVars, callVars
<1>11. CASE UNCHANGED vars
  BY <1>1, <1>11 DEF Tables, vars, netVars, tableVars, callVars
<1> QED
  BY <1>2, <1>3, <1>4, <1>5, <1>6, <1>7, <1>8, <1>9, <1>10, <1>11 DEF Next, Daemon, Calls

\* The variables of the daemon and of the kernels keep their types.
THEOREM StaticTypesCorrect == Spec => []TypeOK
<1>1. TypeInv /\ [Next]_vars => TypeInv'
  BY FlagsStep, TablesStep DEF TypeInv
<1> QED
  BY <1>1, TypeInit, TypeParts, PTL DEF Spec

-----------------------------------------------------------------------------
(* Kernels and tables. *)

\* What holds of a call that is under way: before the batches are applied, the
\* kernel has the routes of the previous tables whose device is still there, or,
\* in an init(), no route to a destination that the new tables do not reach.
Behind ==
  IF mode = "init"
  THEN \A n \in Node, d \in Dest : hop[n][d] = None => kern[n][d] = None
  ELSE \A n \in Node, d \in Dest :
         kern[n][d] = IF {n, prev[n][d]} \in devs THEN prev[n][d] ELSE None

\* As long as nothing went wrong: interfaces and devices are those of the
\* simulation, only a running emulator has routes, the signatures are those of the
\* tables that are installed, and a call leaves tables that route in the graph.
CleanInv == faults = 0 =>
  /\ ifaces = sim /\ devs = (IF status THEN sim ELSE {})
  /\ ~status => pc = "idle" /\ ~initiated
  /\ ~initiated /\ pc = "idle" => kern = NoTable
  /\ pc = "idle" /\ initiated => kern = cur /\ sig = cur /\ IsRouting(cur, sim)
  /\ pc # "idle" => IsRouting(hop, sim) /\ Behind /\ (mode = "update" => initiated)
  /\ pc = "populate" => \/ mode = "init" /\ sig = [n \in Node |-> NoSig]
                        \/ mode = "update" /\ sig = prev
  /\ pc = "apply" => cur = hop /\ sig = cur

\* An init() compares with empty tables.
FreshInv == pc = "apply" /\ mode = "init" => prev = NoTable

\* Every step keeps FreshInv.
LEMMA FreshStep ==
  ASSUME TypeInv, FreshInv, [Next]_vars
  PROVE  FreshInv'
<1>1. CASE Populate
  BY <1>1 DEF Populate, FreshInv, InitPrevious
<1>2. CASE ~Populate
  BY <1>2 DEF FreshInv, Next, Daemon, Calls, PopulateRaises, Apply, InitRouting, Pass, MoveToTime,
     DeleteRouting, StartGonetem, StopGonetem, Begin, vars, tableVars, callVars
<1> QED
  BY <1>1, <1>2

\* As long as nothing went wrong, every next hop has its interface and the call
\* installs the next hops it computed.
LEMMA CleanPopulate ==
  ASSUME TypeInv, CleanInv, Populate, faults = 0
  PROVE  CleanInv'
<1> USE DEF TypeInv, Flags, Tables
<1>1. /\ ifaces = sim /\ devs = sim /\ status /\ IsRouting(hop, sim) /\ Behind
      /\ mode = "update" => initiated
      /\ \/ mode = "init" /\ sig = [n \in Node |-> NoSig]
         \/ mode = "update" /\ sig = prev
  BY DEF CleanInv, Populate
<1>2. /\ UNCHANGED <<sim, ifaces, devs, kern, status, initiated, mode, hop>>
      /\ pc' = "apply" /\ Install(Node)
  BY <1>1 DEF Populate, netVars
<1>3. cur' = hop
  <2>1. \A n \in Node : cur'[n] = hop[n]
    BY <1>2 DEF Install, SameHops
  <2> QED
    BY <1>2, <2>1 DEF Install
<1>4. sig' = hop
  <2>1. \A n \in Node : sig'[n] = hop[n]
    BY <1>2 DEF Install, SameHops
  <2> QED
    BY <1>2, <2>1 DEF Install
<1>5. mode = "update" => prev' = prev
  <2> SUFFICES ASSUME mode = "update" PROVE prev' = prev
    OBVIOUS
  <2>1. prev' = PreviousAfter(Node) /\ sig = prev
    BY <1>1 DEF Populate
  <2> QED
    BY <2>1 DEF PreviousAfter
<1>6. Behind'
  <2>1. CASE mode = "init"
    BY <1>1, <1>2, <2>1 DEF Behind
  <2>2. CASE mode = "update"
    BY <1>1, <1>2, <1>5, <2>2 DEF Behind
  <2> QED
    BY <2>1, <2>2
<1>7. IsRouting(hop, sim)'
  BY <1>1, <1>2
<1> QED
  BY <1>1, <1>2, <1>3, <1>4, <1>6, <1>7 DEF CleanInv

\* As long as nothing went wrong, no call raises.
LEMMA CleanNeverRaises ==
  ASSUME TypeInv, CleanInv, faults = 0
  PROVE  ~PopulateRaises
<1> SUFFICES ASSUME PopulateRaises PROVE FALSE
  OBVIOUS
<1>1. ifaces = sim /\ IsRouting(hop, sim)
  BY DEF CleanInv, PopulateRaises
<1>2. PICK n \in Node : ~Resolved(n)
  BY DEF PopulateRaises
<1>3. PICK d \in Dest : hop[n][d] # None /\ {n, hop[n][d]} \notin ifaces
  BY <1>2 DEF Resolved
<1> QED
  BY <1>1, <1>3, RouteFacts

\* The batches bring a kernel from what it had to the new table.
LEMMA AppliedFacts ==
  ASSUME TypeInv, CleanInv, FreshInv, pc = "apply", faults = 0, NEW n \in Node
  PROVE  Applied(n) = cur[n]
<1> USE DEF TypeInv, Flags, Tables
<1>1. ifaces = sim /\ devs = sim /\ IsRouting(cur, sim) /\ cur = hop /\ Behind
  BY DEF CleanInv
<1>2. ASSUME NEW d \in Dest
      PROVE  Applied(n)[d] = cur[n][d]
  <2>1. cur[n][d] # None => {n, cur[n][d]} \in devs
    BY <1>1, RouteFacts
  <2>2. CASE mode = "init"
    <3>1. prev[n][d] = None
      BY <2>2 DEF FreshInv, NoTable, Empty
    <3>2. cur[n][d] = None => kern[n][d] = None
      BY <1>1, <2>2 DEF Behind
    <3> QED
      BY <2>1, <3>1, <3>2 DEF Applied, Deleted, Replaced
  <2>3. CASE mode = "update"
    <3>1. kern[n][d] = IF {n, prev[n][d]} \in devs THEN prev[n][d] ELSE None
      BY <1>1, <2>3 DEF Behind
    <3>2. prev[n][d] = None => {n, prev[n][d]} \notin devs
      BY <1>1, NoLinkToNone
    <3> QED
      BY <1>1, <2>1, <3>1, <3>2 DEF Applied, Deleted, Replaced
  <2> QED
    BY <2>2, <2>3
<1>3. Applied(n) = [d \in Dest |-> Applied(n)[d]]
  BY DEF Applied
<1>4. cur[n] = [d \in Dest |-> cur[n][d]]
  BY DEF Table
<1> QED
  BY <1>2, <1>3, <1>4

\* Without a failed batch the kernels have the tables.
LEMMA CleanApply ==
  ASSUME TypeInv, CleanInv, FreshInv, Apply, faults = 0
  PROVE  CleanInv'
<1> SUFFICES ASSUME faults' = 0 PROVE CleanInv'
  BY DEF CleanInv
<1> USE DEF TypeInv, Flags, Tables
<1>1. /\ ifaces = sim /\ devs = sim /\ status /\ IsRouting(hop, sim) /\ cur = hop /\ sig = cur
      /\ mode = "update" => initiated
  BY DEF CleanInv, Apply
<1>2. missed' = {}
  BY <1>1 DEF Apply, Fault
<1>3. kern' = cur
  <2>1. kern' = [n \in Node |-> Applied(n)]
    BY <1>2 DEF Apply
  <2>2. \A n \in Node : Applied(n) = cur[n]
    BY AppliedFacts DEF Apply
  <2>3. cur = [n \in Node |-> cur[n]]
    OBVIOUS
  <2> QED
    BY <2>1, <2>2, <2>3
<1>4. /\ UNCHANGED <<sim, ifaces, devs, cur, sig, status>> /\ pc' = "idle" /\ initiated'
  BY <1>1 DEF Apply, netVars, tableVars
<1>5. IsRouting(cur, sim)'
  BY <1>1, <1>4
<1> QED
  BY <1>1, <1>3, <1>4, <1>5 DEF CleanInv

\* init_routing() starts from kernels without a route that its tables will not have.
LEMMA CleanInit ==
  ASSUME TypeInv, CleanInv, InitRouting, faults = 0
  PROVE  CleanInv'
<1> SUFFICES ASSUME faults' = 0 PROVE CleanInv'
  BY DEF CleanInv
<1> USE DEF TypeInv, Flags, Tables
<1>1. /\ pc = "idle" /\ ifaces = sim /\ (status => devs = sim)
      /\ (~initiated => kern = NoTable)
      /\ (initiated => kern = cur /\ IsRouting(cur, sim))
  BY DEF CleanInv, InitRouting
<1>2. status
  BY DEF InitRouting, Fault
<1>3. /\ UNCHANGED <<sim, ifaces, devs, kern, status, initiated>>
      /\ sig' = [n \in Node |-> NoSig] /\ Begin("init", sim)
  BY DEF InitRouting, netVars
<1>4. pc' = "populate" /\ mode' = "init" /\ IsRouting(hop', sim)
  BY <1>3, BeginFacts
<1>5. ASSUME NEW n \in Node, NEW d \in Dest, hop'[n][d] = None
      PROVE  kern[n][d] = None
  <2>1. CASE ~initiated
    BY <1>1, <2>1 DEF NoTable, Empty
  <2>2. CASE initiated
    <3>1. NextHops(n, d, sim) = {None}
      BY <1>4, <1>5, RouteFacts
    <3>2. IsRouting(cur, sim) /\ kern = cur
      BY <1>1, <2>2
    <3>3. cur[n][d] \in NextHops(n, d, sim)
      BY <3>2 DEF IsRouting
    <3> QED
      BY <3>1, <3>2, <3>3
  <2> QED
    BY <2>1, <2>2
<1>6. Behind'
  BY <1>3, <1>4, <1>5 DEF Behind
<1>7. IsRouting(hop, sim)'
  BY <1>3, <1>4
<1> QED
  BY <1>1, <1>2, <1>3, <1>4, <1>6, <1>7 DEF CleanInv

\* A pass without a lost deletion takes away the routes of the links that went.
LEMMA CleanPass ==
  ASSUME TypeInv, CleanInv, Pass, faults = 0
  PROVE  CleanInv'
<1> SUFFICES ASSUME faults' = 0 PROVE CleanInv'
  BY DEF CleanInv
<1> USE DEF TypeInv, Flags, Tables
<1>1. /\ pc = "idle" /\ (~status => ~initiated)
      /\ (~initiated => kern = NoTable)
      /\ (initiated => kern = cur /\ sig = cur)
  BY DEF CleanInv, Pass
<1>2. /\ sim' \in SUBSET AllLinks /\ ifaces' = sim' /\ devs' = (IF status THEN sim' ELSE {})
      /\ kern' = Purged(devs') /\ UNCHANGED <<status, initiated>>
  BY DEF Pass, Fault
<1>3. CASE initiated
  <2>1. Begin("update", sim') /\ sig' = sig
    BY <1>3 DEF Pass
  <2>2. prev' = cur /\ pc' = "populate" /\ mode' = "update" /\ IsRouting(hop', sim')
    BY <2>1, BeginFacts
  <2>3. \A n \in Node, d \in Dest :
          kern'[n][d] = IF {n, prev'[n][d]} \in devs' THEN prev'[n][d] ELSE None
    BY <1>1, <1>2, <1>3, <2>2 DEF Purged
  <2>4. Behind'
    BY <2>2, <2>3 DEF Behind
  <2>5. IsRouting(hop, sim)'
    BY <2>2
  <2> QED
    BY <1>1, <1>2, <1>3, <2>1, <2>2, <2>4, <2>5 DEF CleanInv
<1>4. CASE ~initiated
  <2>1. kern' = NoTable
    BY <1>1, <1>2, <1>4 DEF Purged, NoTable, Empty
  <2>2. UNCHANGED <<pc>>
    BY <1>4 DEF Pass, callVars
  <2> QED
    BY <1>1, <1>2, <1>4, <2>1, <2>2 DEF CleanInv
<1> QED
  BY <1>3, <1>4

\* delete_routing() empties the kernels: they have the routes of the tables.
LEMMA CleanDelete ==
  ASSUME TypeInv, CleanInv, DeleteRouting, faults = 0
  PROVE  CleanInv'
<1> USE DEF TypeInv, Tables
<1>1. kern = cur /\ ifaces = sim /\ devs = sim /\ status
  BY DEF CleanInv, DeleteRouting
<1>2. kern' = NoTable
  BY <1>1 DEF DeleteRouting, WithoutTables, NoTable, Empty
<1> QED
  BY <1>1, <1>2 DEF CleanInv, DeleteRouting, netVars, callVars

\* Every step keeps CleanInv.
LEMMA CleanStep ==
  ASSUME TypeInv, CleanInv, FreshInv, [Next]_vars
  PROVE  CleanInv'
<1> SUFFICES ASSUME faults' = 0 PROVE CleanInv'
  BY DEF CleanInv
<1>1. faults = 0 /\ ~MoveToTime
  <2>1. faults \in Nat
    BY DEF TypeInv, Flags
  <2>2. faults' = faults \/ faults' = faults + 1
    BY DEF Next, vars, Daemon, Populate, PopulateRaises, Apply, Calls, InitRouting, Pass,
       MoveToTime, DeleteRouting, StartGonetem, StopGonetem, Fault
  <2> QED
    BY <2>1, <2>2 DEF MoveToTime, Fault
<1>2. CASE Daemon
  BY <1>1, <1>2, CleanPopulate, CleanNeverRaises, CleanApply DEF Daemon
<1>3. CASE InitRouting
  BY <1>1, <1>3, CleanInit
<1>4. CASE Pass
  BY <1>1, <1>4, CleanPass
<1>5. CASE DeleteRouting
  BY <1>1, <1>5, CleanDelete
<1>6. CASE StartGonetem
  BY <1>1, <1>6 DEF CleanInv, StartGonetem, tableVars, callVars
<1>7. CASE StopGonetem
  BY <1>1, <1>7 DEF CleanInv, StopGonetem, tableVars, callVars
<1>8. CASE UNCHANGED vars
  BY <1>1, <1>8 DEF CleanInv, Behind, vars, netVars, tableVars, callVars
<1> QED
  BY <1>1, <1>2, <1>3, <1>4, <1>5, <1>6, <1>7, <1>8 DEF Next, Calls

\* As long as nothing went wrong, between two calls the kernels have exactly the
\* routes of the tables, and none without routing.
THEOREM KernelCorrect == Spec => []KernelFollowsTables
<1> DEFINE IInv == TypeInv /\ CleanInv /\ FreshInv
<1>1. Init => IInv
  BY TypeInit DEF Init, CleanInv, FreshInv
<1>2. IInv /\ [Next]_vars => IInv'
  BY FlagsStep, TablesStep, CleanStep, FreshStep DEF TypeInv
<1>3. IInv => KernelFollowsTables
  BY DEF CleanInv, KernelFollowsTables, Quiet, Installed
<1> QED
  BY <1>1, <1>2, <1>3, PTL DEF Spec

\* An init() installs all routes of its tables on the nodes it reached, whatever
\* went wrong before.
THEOREM InitRepairs == Spec => InitInstallsAll
<1> DEFINE IInv == TypeInv /\ FreshInv
<1>1. Init => IInv
  BY TypeInit DEF Init, FreshInv
<1>2. IInv /\ [Next]_vars => IInv'
  BY FlagsStep, TablesStep, FreshStep DEF TypeInv
<1> DEFINE Repairs == Apply /\ mode = "init" =>
       \A n \in Node \ missed', d \in Dest :
         cur[n][d] # None /\ {n, cur[n][d]} \in devs => kern'[n][d] = cur[n][d]
<1>3. IInv /\ [Next]_vars => [Repairs]_vars
  <2> SUFFICES ASSUME IInv, Apply, mode = "init", NEW n \in Node \ missed', NEW d \in Dest,
                      cur[n][d] # None, {n, cur[n][d]} \in devs
               PROVE  kern'[n][d] = cur[n][d]
    OBVIOUS
  <2>1. prev[n][d] = None
    BY DEF FreshInv, Apply, NoTable, Empty
  <2>2. d \in Replaced(n) /\ d \notin Deleted(n)
    BY <2>1 DEF Replaced, Deleted
  <2>3. kern'[n] = Applied(n)
    BY DEF Apply
  <2> QED
    BY <2>2, <2>3 DEF Applied
<1> QED
  BY <1>1, <1>2, <1>3, PTL DEF Spec, InitInstallsAll
=============================================================================

---------------------------- MODULE SrMplsProofs ----------------------------
(* Proofs about SrMpls, for any satellites and stations, any graphs, any    *)
(* custom paths and any number of failing batches.                          *)
EXTENDS SrMpls, FiniteSetTheorems, SequenceTheorems, WellFoundedInduction,
        TLAPS

USE NodeAssumption, LinkAssumption, GraphAssumption, BoundAssumption, PathAssumption

-----------------------------------------------------------------------------
(* The way of a packet.  Way is a recursive function: it is found by its     *)
(* equation, and what it computes by least counterexample.                   *)

Below == {e \in Nat \X Nat : e[1] < e[2]}

\* A nonempty set of natural numbers has a least one.
LEMMA LeastNumber ==
  ASSUME NEW T \in SUBSET Nat, T # {}
  PROVE  \E x \in T : \A y \in T : x <= y
<1>1. IsWellFoundedOn(Below, Nat)
  <2>1. OpToRel(<, Nat) = Below
    BY DEF OpToRel, Below
  <2> QED
    BY <2>1, NatLessThanWellFounded
<1>2. PICK x \in T : \A y \in T : <<y, x>> \notin Below
  BY <1>1, WFMin
<1>3. ASSUME NEW y \in T PROVE x <= y
  <2>1. <<y, x>> \in Nat \X Nat /\ <<y, x>>[1] = y /\ <<y, x>>[2] = x
    OBVIOUS
  <2>2. ~(y < x)
    BY <1>2, <2>1 DEF Below
  <2> QED
    BY <2>2
<1> QED
  BY <1>3

Start(s, d) == [at |-> s, from |-> s, to |-> d, labels |-> <<>>]

\* A node forwards a packet by the one line it has for it: the route of its
\* destination when it has no labels,
LEMMA ForwardedByRoute ==
  ASSUME NEW k, NEW l, k.labels = <<>>, k.at # k.to, Lookup(k.at, <<"ip", k.to>>) = {l}
  PROVE  Forwarded(k) = [k EXCEPT !.at = l.via, !.from = k.at, !.labels = l.push]
<1>1. ~Dropped(k) /\ (CHOOSE r \in Lookup(k.at, <<"ip", k.to>>) : TRUE) = l
  BY DEF Dropped
<1> QED
  BY <1>1 DEF Forwarded

\* or the rule of its first label.
LEMMA ForwardedByLabel ==
  ASSUME NEW k, NEW l, k.labels # <<>>, k.from = k.at \/ k.from \in input[k.at],
         Lookup(k.at, <<"mpls", Head(k.labels)>>) = {l}
  PROVE  Forwarded(k) = [k EXCEPT !.at = l.via, !.from = k.at, !.labels = Tail(k.labels)]
<1>1. ~Dropped(k) /\ (CHOOSE r \in Lookup(k.at, <<"mpls", Head(k.labels)>>) : TRUE) = l
  BY DEF Dropped
<1> QED
  BY <1>1 DEF Forwarded

\* A packet follows a path when its source has the route of the path and every
\* node between has the rule for the next one, and takes labels from the last.
LEMMA RulesDeliver ==
  ASSUME NEW p \in Seq(Node), Len(p) >= 2, p[1] # p[Len(p)],
         Lookup(p[1], <<"ip", p[Len(p)]>>) = {RouteLine(p)},
         \A i \in 2..(Len(p) - 1) : /\ Lookup(p[i], <<"mpls", p[i + 1]>>) = {ForwardLine(p[i + 1])}
                                    /\ p[i - 1] \in input[p[i]]
  PROVE  Follows(p)
<1> DEFINE s == p[1]
           d == p[Len(p)]
           n == Len(p) - 1
           labels(i) == SubSeq(p, i + 2, Len(p))
           At(i) == [at |-> p[i + 1], from |-> p[i], to |-> d, labels |-> labels(i)]
           w == [i \in 0..n |-> IF i = 0 THEN Start(s, d) ELSE At(i)]
<1>1. n \in Nat /\ n >= 1
  OBVIOUS
<1>2. At(1) = Forwarded(Start(s, d))
  <2>1. RouteLine(p).via = p[2] /\ RouteLine(p).push = SubSeq(p, 3, Len(p))
    BY DEF RouteLine, Line, LabelStack
  <2> DEFINE k == Start(s, d)
  <2>2. k.labels = <<>> /\ k.at = s /\ k.to = d
    BY DEF Start
  <2>3. Forwarded(k) = [k EXCEPT !.at = RouteLine(p).via, !.from = k.at,
                                 !.labels = RouteLine(p).push]
    <3> HIDE DEF k
    <3> QED
      BY <2>2, ForwardedByRoute
  <2>4. Forwarded(k) = [at |-> p[2], from |-> s, to |-> d, labels |-> SubSeq(p, 3, Len(p))]
    BY <2>1, <2>3 DEF Start
  <2>5. 1 + 1 = 2 /\ 1 + 2 = 3
    OBVIOUS
  <2>6. At(1) = [at |-> p[2], from |-> s, to |-> d, labels |-> SubSeq(p, 3, Len(p))]
    BY ONLY <2>5
  <2> QED
    BY <2>4, <2>6
<1>3. ASSUME NEW i \in 1..(n - 1) PROVE At(i + 1) = Forwarded(At(i))
  <2> DEFINE m == p[i + 2]
  <2>1. labels(i) # <<>> /\ Head(labels(i)) = m /\ Tail(labels(i)) = labels(i + 1)
    <3>1. i + 2 \in 1..Len(p) /\ Len(p) \in (i + 2)..Len(p)
      OBVIOUS
    <3>2. Len(labels(i)) = Len(p) - (i + 2) + 1
      BY <3>1, SubSeqProperties
    <3>3. Head(labels(i)) = m /\ Tail(labels(i)) = SubSeq(p, (i + 2) + 1, Len(p))
      BY <3>1, HeadTailOfSubSeq
    <3>4. Len(p) - (i + 2) + 1 >= 1
      BY <3>1
    <3>5. labels(i) # <<>>
      <4> HIDE DEF labels
      <4> QED
        BY <3>2, <3>4
    <3>6. (i + 2) + 1 = (i + 1) + 2
      OBVIOUS
    <3> QED
      BY ONLY <3>3, <3>5, <3>6
  <2>2. Lookup(p[i + 1], <<"mpls", m>>) = {ForwardLine(m)} /\ p[i] \in input[p[i + 1]]
    <3>1. i + 1 \in 2..(Len(p) - 1) /\ (i + 1) + 1 = i + 2 /\ (i + 1) - 1 = i
      OBVIOUS
    <3> QED
      BY <3>1
  <2>3. ForwardLine(m).via = m
    BY DEF ForwardLine, Line
  <2> DEFINE k == At(i)
  <2>4. k.labels = labels(i) /\ k.at = p[i + 1] /\ k.from = p[i]
    OBVIOUS
  <2>5. Forwarded(k) = [k EXCEPT !.at = ForwardLine(m).via, !.from = k.at,
                                 !.labels = Tail(k.labels)]
    <3>1. k.labels # <<>> /\ Lookup(k.at, <<"mpls", Head(k.labels)>>) = {ForwardLine(m)}
      <4> HIDE DEF k, labels, m
      <4> QED
        BY <2>1, <2>2, <2>4
    <3> HIDE DEF k, labels, m
    <3> QED
      BY <2>2, <2>4, <3>1, ForwardedByLabel
  <2>6. (i + 1) + 1 = i + 2
    OBVIOUS
  <2> HIDE DEF labels
  <2> QED
    BY <2>1, <2>3, <2>4, <2>5, <2>6
<1>4. ASSUME NEW i \in 1..n PROVE w[i] = Forwarded(w[i - 1])
  <2>1. w[i] = At(i)
    OBVIOUS
  <2>2. CASE i = 1
    <3>1. w[i - 1] = Start(s, d)
      BY <2>2
    <3> HIDE DEF w, At
    <3> QED
      BY <1>2, <2>1, <2>2, <3>1
  <2>3. CASE i # 1
    <3>1. i - 1 \in 1..(n - 1) /\ (i - 1) + 1 = i
      BY <2>3
    <3>2. w[i - 1] = At(i - 1)
      BY <3>1
    <3>3. At((i - 1) + 1) = Forwarded(At(i - 1))
      BY <1>3, <3>1
    <3> HIDE DEF At, w, n
    <3> QED
      BY <2>1, <3>1, <3>2, <3>3
  <2> QED
    BY <2>2, <2>3
<1>5. \A i \in 0..n : Way(s, d, n)[i] = w[i]
  <2> DEFINE way == Way(s, d, n)
             T == {i \in 0..n : way[i] # w[i]}
  <2>1. \E v : v = [i \in 0..n |-> IF i = 0 THEN Start(s, d) ELSE Forwarded(v[i - 1])]
    <3>1. w[0] = Start(s, d) /\ w = [i \in 0..n |-> w[i]]
      OBVIOUS
    <3> HIDE DEF w
    <3>2. \A i \in 0..n : w[i] = IF i = 0 THEN Start(s, d) ELSE Forwarded(w[i - 1])
      BY <1>4, <3>1
    <3>3. w = [i \in 0..n |-> IF i = 0 THEN Start(s, d) ELSE Forwarded(w[i - 1])]
      BY <3>1, <3>2
    <3> QED
      BY <3>3
  <2>2. way = [i \in 0..n |-> IF i = 0 THEN Start(s, d) ELSE Forwarded(way[i - 1])]
    <3>1. way = CHOOSE v : v = [i \in 0..n |-> IF i = 0 THEN Start(s, d) ELSE Forwarded(v[i - 1])]
      BY DEF Way, Start
    <3> QED
      BY <2>1, <3>1, Zenon
  <2> SUFFICES ASSUME T # {} PROVE FALSE
    OBVIOUS
  <2>3. w[0] = Start(s, d)
    OBVIOUS
  <2> HIDE DEF way, w, n
  <2>4. PICK i \in T : \A j \in T : i <= j
    <3>1. T \in SUBSET Nat
      BY <1>1
    <3> HIDE DEF T
    <3> QED
      BY <3>1, LeastNumber
  <2>5. i \in 1..n /\ i - 1 \in 0..n /\ i - 1 \notin T
    BY <1>1, <2>2, <2>3, <2>4
  <2>6. way[i] = Forwarded(way[i - 1]) /\ way[i - 1] = w[i - 1]
    BY <2>2, <2>5
  <2>7. w[i] = Forwarded(w[i - 1])
    BY <1>4, <2>5
  <2>8. way[i] # w[i]
    BY <2>4
  <2> QED
    BY ONLY <2>6, <2>7, <2>8
<1>6. ASSUME NEW i \in 1..Len(p) PROVE w[i - 1].at = p[i]
  BY DEF Start
<1>7. ASSUME NEW i \in 1..Len(p) PROVE Way(s, d, n)[i - 1].at = p[i]
  <2>1. i - 1 \in 0..n
    OBVIOUS
  <2> QED
    BY <1>5, <1>6, <2>1
<1> QED
  BY <1>7 DEF Follows

-----------------------------------------------------------------------------
(* Types, and what the paths and lines of the daemon are. *)

LineSet == [fec : {"mpls", "ip"} \X Node, push : Seq(Node), via : Node]

Types ==
  /\ graph \in Graphs
  /\ status \in BOOLEAN /\ initiated \in BOOLEAN /\ manager \in BOOLEAN
  /\ lfib \in [Dest -> [Dest -> Seq(Node)]]
  /\ prev \in [Stages -> [Node -> SUBSET LineSet]]
  /\ kern \in [Node -> SUBSET LineSet]
  /\ input \in [Node -> SUBSET Node]
  /\ pc \in Stages \cup {"idle", "build", "send", "keep"}
  /\ steady \subseteq links /\ missed \subseteq Node /\ astray \subseteq Node /\ raced \subseteq Gnd
  /\ faults \in 0..MaxFaults

\* A path from s to another node d whose first hop is one of the links ls.
IsRoute(s, d, p, ls) ==
  /\ s # d /\ p \in Seq(Node) /\ Len(p) >= 2 /\ p[1] = s /\ p[Len(p)] = d
  /\ {s, p[2]} \in ls

\* A table has one line per FEC.
OneLineEach(table) == \A k, l \in table : k.fec = l.fec => k = l

\* The custom paths of the manager are paths of their pairs, and so are the
\* entries; a pass computes them when routing is on.
CustomPaired(cust) ==
  \A q \in DOMAIN cust : \E p \in CustomPaths : cust[q] = p /\ q = <<p[1], p[Len(p)]>>

\* The entries of a source are paths from it.
Routes(s, entries) ==
  /\ entries \in [Dest -> Seq(Node)]
  /\ \A d \in Dest : entries[d] = <<>> \/ IsRoute(s, d, entries[d], AllLinks)

PathInv ==
  /\ CustomPaired(custom) /\ CustomPaired(seen) /\ (initiated => manager)
  /\ \A s \in Dest : Routes(s, lfib[s])
  /\ pc # "idle" => initiated /\ (status \/ pc = "build")

\* What a pass has taken for the stations, and what a call has computed.
LocalInv ==
  /\ taken = [lines |-> taken.lines, new |-> taken.new, sent |-> taken.sent]
  /\ taken.lines \in [Gnd -> SUBSET LineSet] /\ taken.new \in [Gnd -> SUBSET LineSet]
  /\ \A n \in Gnd : OneLineEach(taken.lines[n]) /\ taken.new[n] \subseteq taken.lines[n]
  /\ taken.sent \subseteq Gnd
  /\ call = [at |-> call.at, source |-> call.source, entries |-> call.entries,
             alone |-> call.alone]
  /\ call.at \in {"none", "begun", "built", "sent"}
  /\ call.at # "none" => /\ call.source \in Gnd /\ manager /\ status
                         /\ Routes(call.source, call.entries)
  /\ call.alone \in BOOLEAN /\ (call.alone => pc \notin {"build", "send", "keep"})

\* The lines a node has use interfaces it has, and a node takes labels from
\* neighbours.
KernInv ==
  /\ \A n \in Node : OneLineEach(kern[n])
  /\ \A n \in Node : \A l \in kern[n] : l.via = n \/ {n, l.via} \in links
  /\ \A n \in Node : input[n] \subseteq Neighbours(n, links)

-----------------------------------------------------------------------------
(* Links, entries and lines. *)

\* A link joins two different nodes.
LEMMA LinkEnds ==
  ASSUME NEW n, NEW m, {n, m} \in AllLinks
  PROVE  n \in Node /\ m \in Node /\ n # m
<1>1. PICK a \in Node, b \in Node : {n, m} = {a, b}
  OBVIOUS
<1>2. n \in Node /\ m \in Node
  BY <1>1
<1> QED
  BY <1>2

\* FECs of different kinds or of different nodes differ.
LEMMA FecsDiffer ==
  /\ \A n, m : <<"mpls", n>> # <<"ip", m>>
  /\ \A n, m : <<"mpls", n>> = <<"mpls", m>> => n = m
  /\ \A n, m : <<"ip", n>> = <<"ip", m>> => n = m
OBVIOUS

\* The shortest path of a pair is a path of the pair.
LEMMA ShortestIsPath ==
  ASSUME NEW g \in Graphs, NEW s \in Dest, NEW d \in Dest
  PROVE  LET p == ShortestPath[g][s][d]
         IN p = <<>> \/ (p \in Seq(Node) /\ p[1] = s /\ p[Len(p)] = d)
<1> DEFINE all == {p \in SimplePaths : p[1] = s /\ p[Len(p)] = d /\ Hops(p) \subseteq g.links}
           least == {p \in all : \A q \in all : Length(p, g.weight) <= Length(q, g.weight)}
<1>1. ShortestPath[g][s][d] = IF least = {} THEN <<>> ELSE CHOOSE p \in least : TRUE
  BY DEF ShortestPath
<1>2. ASSUME NEW p \in least PROVE p \in Seq(Node) /\ p[1] = s /\ p[Len(p)] = d
  <2>1. p \in SimplePaths /\ p[1] = s /\ p[Len(p)] = d
    OBVIOUS
  <2>2. PICK k \in 2..Cardinality(Node) : p \in [1..k -> Node]
    BY <2>1 DEF SimplePaths
  <2> QED
    BY <2>1, <2>2
<1>3. least # {} => (CHOOSE p \in least : TRUE) \in least
  OBVIOUS
<1> HIDE DEF least
<1> QED
  BY <1>1, <1>2, <1>3

\* An entry is the path of its pair by a link of the graph.
LEMMA EntryIsRoute ==
  ASSUME NEW g \in Graphs, NEW s \in Dest, NEW d \in Dest, NEW cust, CustomPaired(cust)
  PROVE  LET e == Entry(s, d, cust, ShortestPath[g][s][d], g.links)
         IN e = <<>> \/ IsRoute(s, d, e, g.links)
<1> DEFINE p == IF <<s, d>> \in DOMAIN cust THEN cust[<<s, d>>] ELSE ShortestPath[g][s][d]
<1>1. p = <<>> \/ (p \in Seq(Node) /\ p[1] = s /\ p[Len(p)] = d)
  <2>1. CASE <<s, d>> \in DOMAIN cust
    <3>1. PICK c \in CustomPaths : cust[<<s, d>>] = c /\ <<s, d>> = <<c[1], c[Len(c)]>>
      BY <2>1 DEF CustomPaired
    <3> QED
      BY <2>1, <3>1
  <2>2. CASE <<s, d>> \notin DOMAIN cust
    BY <2>2, ShortestIsPath
  <2> QED
    BY <2>1, <2>2
<1> HIDE DEF p
<1>2. Entry(s, d, cust, ShortestPath[g][s][d], g.links) =
        IF s # d /\ Len(p) >= 2 /\ {s, p[2]} \in g.links THEN p ELSE <<>>
  BY DEF Entry, p
<1>3. Len(<<>>) = 0
  OBVIOUS
<1> QED
  BY <1>1, <1>2, <1>3 DEF IsRoute

\* So are the entries that a rebuild gives.
LEMMA BuiltRoutes ==
  ASSUME NEW g \in Graphs, NEW cust, CustomPaired(cust)
  PROVE  /\ Built(cust, g) \in [Dest -> [Dest -> Seq(Node)]]
         /\ \A s \in Dest : Routes(s, Built(cust, g)[s])
<1>1. ASSUME NEW s \in Dest, NEW d \in Dest
      PROVE  Built(cust, g)[s][d] = Entry(s, d, cust, ShortestPath[g][s][d], g.links)
  BY DEF Built
<1>2. ASSUME NEW s \in Dest, NEW d \in Dest
      PROVE  Built(cust, g)[s][d] = <<>> \/ IsRoute(s, d, Built(cust, g)[s][d], g.links)
  BY <1>1, EntryIsRoute
<1>3. ASSUME NEW s \in Dest, NEW d \in Dest PROVE Built(cust, g)[s][d] \in Seq(Node)
  <2> DEFINE e == Built(cust, g)[s][d]
  <2>1. e = <<>> \/ IsRoute(s, d, e, g.links)
    BY <1>2
  <2> HIDE DEF e
  <2>2. e \in Seq(Node)
    <3>1. <<>> \in Seq(Node)
      OBVIOUS
    <3>2. IsRoute(s, d, e, g.links) => e \in Seq(Node)
      BY DEF IsRoute
    <3> QED
      BY <2>1, <3>1, <3>2, Zenon
  <2> QED
    BY <2>2 DEF e
<1>4. Built(cust, g) = [s \in Dest |-> [d \in Dest |-> Built(cust, g)[s][d]]]
  BY DEF Built
<1>5. Built(cust, g) \in [Dest -> [Dest -> Seq(Node)]]
  BY <1>3, <1>4
<1>6. \A s \in Dest, d \in Dest :
        Built(cust, g)[s][d] = <<>> \/ IsRoute(s, d, Built(cust, g)[s][d], AllLinks)
  BY <1>2 DEF IsRoute
<1> QED
  BY <1>5, <1>6 DEF Routes

\* The line of a path routes its destination by its second node.
LEMMA RouteLineFields ==
  ASSUME NEW s \in Dest, NEW d \in Dest, NEW p, NEW ls, IsRoute(s, d, p, ls)
  PROVE  RouteLine(p) \in LineSet /\ RouteLine(p).fec = <<"ip", d>> /\ RouteLine(p).via = p[2]
<1>1. SubSeq(p, 3, Len(p)) \in Seq(Node) /\ p[2] \in Node /\ d \in Node
  BY DEF IsRoute, Dest, Node
<1> QED
  BY <1>1 DEF IsRoute, RouteLine, Line, LineSet, LabelStack

\* The lines that a source gets: one route per entry, and its own label.
LEMMA RouteLinesFacts ==
  ASSUME NEW n \in Dest, NEW entries, Routes(n, entries)
  PROVE  /\ RouteLines(n, entries) \subseteq LineSet
         /\ OneLineEach(RouteLines(n, entries))
         /\ \A d \in Dest, l \in RouteLines(n, entries) :
              l.fec = <<"ip", d>> => entries[d] # <<>> /\ l = RouteLine(entries[d])
         /\ \A m \in Node, l \in RouteLines(n, entries) : l.fec = <<"mpls", m>> => m = n
         /\ \A d \in Dest : entries[d] # <<>> => /\ RouteLine(entries[d]) \in RouteLines(n, entries)
                                                 /\ RouteLine(entries[d]).fec = <<"ip", d>>
                                                 /\ RouteLine(entries[d]).via = entries[d][2]
<1>1. /\ OwnLine(n) \in LineSet /\ OwnLine(n).fec = <<"mpls", n>> /\ OwnLine(n).via = n
  BY DEF OwnLine, Line, LineSet, Dest, Node
<1>2. ASSUME NEW l \in RouteLines(n, entries), l # OwnLine(n)
      PROVE  \E d \in Dest : /\ entries[d] # <<>> /\ l = RouteLine(entries[d])
                             /\ l \in LineSet /\ l.fec = <<"ip", d>> /\ l.via = entries[d][2]
  BY <1>2, RouteLineFields DEF RouteLines, Routes
<1>3. \A d \in Dest : entries[d] # <<>> => /\ RouteLine(entries[d]) \in RouteLines(n, entries)
                                           /\ RouteLine(entries[d]).fec = <<"ip", d>>
                                           /\ RouteLine(entries[d]).via = entries[d][2]
  BY RouteLineFields DEF RouteLines, Routes
<1> DEFINE lines == RouteLines(n, entries)
<1>4. OneLineEach(lines)
  <2> SUFFICES ASSUME NEW k \in lines, NEW l \in lines, k.fec = l.fec PROVE k = l
    BY DEF OneLineEach
  <2>1. CASE k = OwnLine(n) \/ l = OwnLine(n)
    BY <1>1, <1>2, <2>1
  <2>2. CASE k # OwnLine(n) /\ l # OwnLine(n)
    BY <1>2, <2>2
  <2> QED
    BY <2>1, <2>2
<1>5. lines \subseteq LineSet
  BY <1>1, <1>2
<1>6. ASSUME NEW d \in Dest, NEW l \in lines, l.fec = <<"ip", d>>
      PROVE  entries[d] # <<>> /\ l = RouteLine(entries[d])
  BY <1>1, <1>2, <1>6
<1>7. \A m \in Node, l \in lines : l.fec = <<"mpls", m>> => m = n
  BY <1>1, <1>2
<1> QED
  BY <1>3, <1>4, <1>5, <1>6, <1>7

\* The lines that a satellite gets: its own label, the labels of its neighbours and
\* the stations among them.
LEMMA SidLinesFacts ==
  ASSUME NEW n \in Sat, NEW ls, ls \subseteq AllLinks
  PROVE  /\ SidLines(n, ls) \subseteq LineSet
         /\ OneLineEach(SidLines(n, ls))
         /\ \A l \in SidLines(n, ls) : l.via = n \/ {n, l.via} \in ls
         /\ \A d \in Node, l \in SidLines(n, ls) : l.fec = <<"ip", d>> => d \in Gnd
         /\ \A m \in Node, l \in SidLines(n, ls) :
              l.fec = <<"mpls", m>> /\ m # n => l = ForwardLine(m)
         /\ \A m \in Node : {n, m} \in ls => ForwardLine(m) \in SidLines(n, ls)
<1> DEFINE lines == SidLines(n, ls)
<1>1. ASSUME NEW m \in Node
      PROVE  /\ OwnLine(m) = ForwardLine(m) /\ ForwardLine(m) \in LineSet
             /\ ForwardLine(m).fec = <<"mpls", m>> /\ ForwardLine(m).via = m
  BY DEF OwnLine, ForwardLine, Line, LineSet
<1>2. ASSUME NEW g \in Gnd
      PROVE  DirectLine(g) \in LineSet /\ DirectLine(g).fec = <<"ip", g>> /\ DirectLine(g).via = g
  BY DEF DirectLine, Line, LineSet, Node
<1>3. ASSUME NEW m, {n, m} \in ls PROVE m \in Node /\ m # n
  BY <1>3, LinkEnds
<1>4. \A m \in Node : {n, m} \in ls => ForwardLine(m) \in lines
  BY DEF SidLines, Neighbours
<1>5. ASSUME NEW l \in lines
      PROVE  \/ \E m \in Node : /\ l = ForwardLine(m) /\ l \in LineSet /\ l.fec = <<"mpls", m>>
                                /\ l.via = m /\ (m = n \/ {n, m} \in ls)
             \/ \E g \in Gnd : /\ l = DirectLine(g) /\ l \in LineSet /\ l.fec = <<"ip", g>>
                               /\ l.via = g /\ {n, g} \in ls
  <2>1. n \in Node
    BY DEF Node
  <2>2. CASE l = OwnLine(n)
    BY <1>1, <2>1, <2>2
  <2>3. ASSUME NEW m \in Neighbours(n, ls), l = ForwardLine(m) PROVE \E k \in Node :
          /\ l = ForwardLine(k) /\ l \in LineSet /\ l.fec = <<"mpls", k>>
          /\ l.via = k /\ (k = n \/ {n, k} \in ls)
    BY <1>1, <2>3 DEF Neighbours
  <2>4. ASSUME NEW g \in Neighbours(n, ls) \cap Gnd, l = DirectLine(g) PROVE \E k \in Gnd :
          /\ l = DirectLine(k) /\ l \in LineSet /\ l.fec = <<"ip", k>>
          /\ l.via = k /\ {n, k} \in ls
    BY <1>2, <2>4 DEF Neighbours
  <2> QED
    BY <2>2, <2>3, <2>4 DEF SidLines
<1> HIDE DEF lines
<1>6. ASSUME NEW l \in lines PROVE l \in LineSet /\ (l.via = n \/ {n, l.via} \in ls)
  BY <1>5
<1>7. ASSUME NEW k \in lines, NEW l \in lines, k.fec = l.fec PROVE k = l
  <2>1. \/ \E m \in Node : k = ForwardLine(m) /\ k.fec = <<"mpls", m>>
        \/ \E g \in Gnd : k = DirectLine(g) /\ k.fec = <<"ip", g>>
    BY <1>5
  <2>2. \/ \E m \in Node : l = ForwardLine(m) /\ l.fec = <<"mpls", m>>
        \/ \E g \in Gnd : l = DirectLine(g) /\ l.fec = <<"ip", g>>
    BY <1>5
  <2> QED
    BY ONLY <1>7, <2>1, <2>2, FecsDiffer, Zenon
<1>8. ASSUME NEW d \in Node, NEW l \in lines, l.fec = <<"ip", d>> PROVE d \in Gnd
  BY <1>5, <1>8, FecsDiffer, Zenon
<1>9. ASSUME NEW m \in Node, NEW l \in lines, l.fec = <<"mpls", m>> PROVE l = ForwardLine(m)
  BY <1>5, <1>9, FecsDiffer, Zenon
<1> QED
  BY <1>4, <1>6, <1>7, <1>8, <1>9 DEF lines, OneLineEach

-----------------------------------------------------------------------------
(* What a batch does. *)

\* Lines take the place of those with their FEC.
LEMMA ReplacedFacts ==
  ASSUME NEW table, NEW lines
  PROVE  /\ OneLineEach(table) /\ OneLineEach(lines) => OneLineEach(Replaced(table, lines))
         /\ \A l \in Replaced(table, lines) : l \in table \/ l \in lines
         /\ \A l \in lines : l \in Replaced(table, lines)
         /\ \A l \in table :
              (\A k \in lines : k.fec = l.fec => k = l) => l \in Replaced(table, lines)
BY DEF OneLineEach, Replaced

\* The batch of a node ran, did not run, or ran and failed all the same.
Table(n, lines) == Replaced(kern[n], Accepted(n, lines))

Ran(stage, n, lines, new) ==
  /\ kern'[n] = Table(n, new[n])
  /\ prev'[stage][n] = IF new[n] = {} THEN prev[stage][n] ELSE lines[n]

NotRun(stage, n) ==
  n \in missed' /\ kern'[n] = kern[n] /\ prev'[stage][n] = prev[stage][n]

RanAstray(stage, n, new) ==
  /\ n \in missed' /\ n \in astray'
  /\ kern'[n] = Table(n, new[n]) /\ prev'[stage][n] = prev[stage][n]

\* Lines that the kernel takes in keep it a table with one line per FEC, by devices
\* that are there; a line that is known by its device is among those taken.
LEMMA TableFacts ==
  ASSUME NEW n \in Node, NEW lines \in SUBSET LineSet, Types, KernInv
  PROVE  /\ Table(n, lines) \subseteq LineSet
         /\ OneLineEach(lines) => OneLineEach(Table(n, lines))
         /\ \A l \in Table(n, lines) : l.via = n \/ {n, l.via} \in links
         /\ \A l \in lines : l.via = n \/ {n, l.via} \in links => l \in Table(n, lines)
         /\ \A l \in kern[n] :
              (\A k \in lines : k.fec = l.fec => k = l) => l \in Table(n, lines)
<1> DEFINE new == Accepted(n, lines)
<1>1. /\ new \subseteq lines /\ \A l \in new : l.via = n \/ {n, l.via} \in links
      /\ \A l \in lines : l.via = n \/ {n, l.via} \in links => l \in new
  BY DEF Accepted
<1>2. OneLineEach(kern[n]) /\ \A l \in kern[n] : l.via = n \/ {n, l.via} \in links
  BY DEF KernInv
<1>3. kern[n] \subseteq LineSet
  BY DEF Types
<1>4. OneLineEach(lines) => OneLineEach(new)
  BY <1>1 DEF OneLineEach
<1> HIDE DEF new
<1>5. Table(n, lines) = Replaced(kern[n], new)
  BY DEF Table, new
<1>6. /\ OneLineEach(new) => OneLineEach(Replaced(kern[n], new))
      /\ \A l \in Replaced(kern[n], new) : l \in kern[n] \/ l \in new
      /\ \A l \in new : l \in Replaced(kern[n], new)
      /\ \A l \in kern[n] :
              (\A k \in new : k.fec = l.fec => k = l) => l \in Replaced(kern[n], new)
  BY <1>2, ReplacedFacts
<1> QED
  BY <1>1, <1>2, <1>3, <1>4, <1>5, <1>6

\* At most one of the nodes.
AtMostOne(ns) == {{}} \cup {{n} : n \in ns}

\* What is sent fails for one node or none.
LEMMA SendsOutcome ==
  ASSUME Types, KernInv, NEW ns \in SUBSET Node, NEW new \in [ns -> SUBSET LineSet],
         NEW failed \in AtMostOne(ns), NEW done \in BOOLEAN,
         Sends(ns, new, failed, done)
  PROVE  /\ kern' \in [Node -> SUBSET LineSet]
         /\ missed \subseteq missed' /\ missed' \subseteq Node
         /\ astray \subseteq astray' /\ astray' \subseteq Node
         /\ faults' \in 0..MaxFaults /\ failed \subseteq ns
         /\ \A n \in ns \ failed : kern'[n] = Table(n, new[n])
         /\ \A n \in failed : /\ n \in missed'
                              /\ kern'[n] = kern[n] \/ (n \in astray' /\ kern'[n] = Table(n, new[n]))
         /\ \A n \in Node \ ns : kern'[n] = kern[n]
<1> USE DEF Types, AtMostOne
<1>1. /\ \A n \in failed : new[n] # {} /\ faults < MaxFaults
      /\ faults' = faults + Cardinality(failed)
      /\ missed' = missed \cup failed
      /\ astray' = IF done THEN astray \cup failed ELSE astray
      /\ kern' = [n \in Node |->
           IF n \in ns \ failed \/ (n \in failed /\ done) THEN Table(n, new[n]) ELSE kern[n]]
  BY DEF Sends, Table
<1>2. failed \subseteq ns /\ ns \subseteq Node
  OBVIOUS
<1>3. faults' \in 0..MaxFaults
  <2>1. CASE failed = {}
    BY <1>1, <2>1, FS_EmptySet
  <2>2. ASSUME NEW n \in ns, failed = {n} PROVE faults' \in 0..MaxFaults
    <3>1. Cardinality({n}) = 1 /\ faults < MaxFaults
      BY <1>1, <2>2, FS_Singleton
    <3> QED
      BY <1>1, <2>2, <3>1
  <2> QED
    BY <2>1, <2>2
<1>4. ASSUME NEW n \in Node
      PROVE  /\ kern'[n] = IF n \in ns \ failed \/ (n \in failed /\ done)
                           THEN Table(n, new[n]) ELSE kern[n]
             /\ kern'[n] \in SUBSET LineSet
  <2>1. n \in ns => new[n] \in SUBSET LineSet
    OBVIOUS
  <2>2. n \in ns => Table(n, new[n]) \subseteq LineSet
    BY <2>1, TableFacts
  <2>3. kern'[n] = IF n \in ns \ failed \/ (n \in failed /\ done)
                   THEN Table(n, new[n]) ELSE kern[n]
    BY <1>1
  <2> QED
    BY <1>2, <2>2, <2>3
<1>5. kern' \in [Node -> SUBSET LineSet]
  <2>1. kern' = [n \in Node |-> kern'[n]]
    BY <1>1
  <2> QED
    BY <1>4, <2>1
<1>6. /\ \A n \in ns \ failed : kern'[n] = Table(n, new[n])
      /\ \A n \in Node \ ns : kern'[n] = kern[n]
  BY <1>2, <1>4
<1>7. ASSUME NEW n \in failed
      PROVE  n \in missed' /\ (kern'[n] = kern[n] \/ (n \in astray' /\ kern'[n] = Table(n, new[n])))
  <2>1. n \in Node /\ n \notin ns \ failed
    BY <1>2
  <2>2. CASE done
    BY <1>1, <1>4, <2>1, <2>2
  <2>3. CASE ~done
    BY <1>1, <1>4, <2>1, <2>3
  <2> QED
    BY <2>2, <2>3
<1>8. /\ missed \subseteq missed' /\ missed' \subseteq Node
      /\ astray \subseteq astray' /\ astray' \subseteq Node
  BY <1>1, <1>2
<1> QED
  BY <1>2, <1>3, <1>5, <1>6, <1>7, <1>8

\* Every node of a set has lines.
Tables(ns, lines) == \A n \in ns : lines[n] \in SUBSET LineSet

\* What is remembered, of some nodes.
LEMMA RemembersOutcome ==
  ASSUME Types, NEW stage \in Stages, NEW ns \in SUBSET Node, NEW lines,
         Tables(ns, lines), Remembers(stage, ns, lines)
  PROVE  /\ prev' \in [Stages -> [Node -> SUBSET LineSet]]
         /\ \A n \in Node : prev'[stage][n] = IF n \in ns THEN lines[n] ELSE prev[stage][n]
         /\ \A t \in Stages \ {stage} : prev'[t] = prev[t]
<1>1. prev' = [prev EXCEPT ![stage] = [n \in Node |-> IF n \in ns THEN lines[n] ELSE @[n]]]
  BY DEF Remembers, Remembered
<1>2. prev \in [Stages -> [Node -> SUBSET LineSet]]
  BY DEF Types
<1> DEFINE kept == [n \in Node |-> IF n \in ns THEN lines[n] ELSE prev[stage][n]]
<1>3. kept \in [Node -> SUBSET LineSet]
  BY <1>2 DEF Tables
<1>4. prev' = [prev EXCEPT ![stage] = kept]
  BY <1>1, <1>2
<1>5. \A n \in Node : kept[n] = IF n \in ns THEN lines[n] ELSE prev[stage][n]
  OBVIOUS
<1> HIDE DEF kept
<1>6. prev'[stage] = kept /\ prev' \in [Stages -> [Node -> SUBSET LineSet]]
  BY <1>2, <1>3, <1>4
<1>7. \A n \in Node : prev'[stage][n] = IF n \in ns THEN lines[n] ELSE prev[stage][n]
  BY <1>5, <1>6
<1>8. \A t \in Stages \ {stage} : prev'[t] = prev[t]
  BY <1>2, <1>4
<1> QED
  BY <1>6, <1>7, <1>8

\* Which of the three it is, and that nothing else changes.
LEMMA BatchOutcome ==
  ASSUME Types, KernInv, NEW stage \in Stages, NEW ns \in SUBSET Node,
         NEW lines \in [ns -> SUBSET LineSet], NEW new \in [ns -> SUBSET LineSet],
         Batches(stage, ns, lines, new)
  PROVE  /\ kern' \in [Node -> SUBSET LineSet]
         /\ prev' \in [Stages -> [Node -> SUBSET LineSet]]
         /\ missed \subseteq missed' /\ missed' \subseteq Node
         /\ astray \subseteq astray' /\ astray' \subseteq Node
         /\ faults' \in 0..MaxFaults
         /\ \A n \in ns : \/ Ran(stage, n, lines, new) \/ NotRun(stage, n)
                          \/ RanAstray(stage, n, new)
         /\ \A n \in Node \ ns : kern'[n] = kern[n] /\ prev'[stage][n] = prev[stage][n]
         /\ \A t \in Stages \ {stage} : prev'[t] = prev[t]
         /\ UNCHANGED <<netVars, initiated, manager, custom, lfib, input, steady>>
<1>1. PICK failed \in AtMostOne(ns), done \in BOOLEAN :
        /\ Sends(ns, new, failed, done)
        /\ Remembers(stage, {n \in ns \ failed : new[n] # {}}, lines)
  BY DEF Batches, AtMostOne
<1>2. /\ kern' \in [Node -> SUBSET LineSet]
      /\ missed \subseteq missed' /\ missed' \subseteq Node
      /\ astray \subseteq astray' /\ astray' \subseteq Node
      /\ faults' \in 0..MaxFaults /\ failed \subseteq ns
      /\ \A n \in ns \ failed : kern'[n] = Table(n, new[n])
      /\ \A n \in failed : /\ n \in missed'
                           /\ kern'[n] = kern[n] \/ (n \in astray' /\ kern'[n] = Table(n, new[n]))
      /\ \A n \in Node \ ns : kern'[n] = kern[n]
  BY <1>1, SendsOutcome
<1> DEFINE ran == {n \in ns \ failed : new[n] # {}}
<1>3. Remembers(stage, ran, lines) /\ ran \in SUBSET Node /\ Tables(ran, lines)
  BY <1>1 DEF Tables
<1>4. /\ prev' \in [Stages -> [Node -> SUBSET LineSet]]
      /\ \A n \in Node : prev'[stage][n] = IF n \in ran THEN lines[n] ELSE prev[stage][n]
      /\ \A t \in Stages \ {stage} : prev'[t] = prev[t]
  <2> HIDE DEF ran
  <2> QED
    BY <1>3, RemembersOutcome
<1>5. ASSUME NEW n \in ns
      PROVE  \/ Ran(stage, n, lines, new) \/ NotRun(stage, n) \/ RanAstray(stage, n, new)
  <2>1. prev'[stage][n] = IF n \in ran THEN lines[n] ELSE prev[stage][n]
    BY <1>4
  <2>2. CASE n \in failed
    BY <1>2, <2>1, <2>2 DEF NotRun, RanAstray
  <2>3. CASE n \notin failed
    BY <1>2, <2>1, <2>3 DEF Ran
  <2> QED
    BY <2>2, <2>3
<1>6. UNCHANGED <<netVars, initiated, manager, custom, lfib, input, steady>>
  BY DEF Batches
<1>7. \A n \in Node \ ns : prev'[stage][n] = prev[stage][n]
  BY <1>3, <1>4
<1> QED
  BY <1>2, <1>4, <1>5, <1>6, <1>7

\* The entries that a call computes are paths from its source.
LEMMA SourceRoutes ==
  ASSUME Types, NEW s \in Gnd, NEW cust, CustomPaired(cust)
  PROVE  Routes(s, SourceEntries(s, cust))
<1> DEFINE entries == SourceEntries(s, cust)
<1>1. s \in Dest /\ graph \in Graphs /\ links = graph.links /\ links \subseteq AllLinks
  BY DEF Dest, Types, links
<1>2. ASSUME NEW d \in Dest
      PROVE  entries[d] = IF d \in Gnd THEN Entry(s, d, cust, ShortestPath[graph][s][d], links)
                          ELSE <<>>
  BY DEF SourceEntries
<1> HIDE DEF entries
<1>3. ASSUME NEW d \in Dest PROVE entries[d] = <<>> \/ IsRoute(s, d, entries[d], AllLinks)
  <2>1. CASE d \in Gnd
    <3>1. entries[d] = <<>> \/ IsRoute(s, d, entries[d], links)
      BY <1>1, <1>2, <2>1, EntryIsRoute
    <3> QED
      BY <1>1, <3>1 DEF IsRoute
  <2>2. CASE d \notin Gnd
    BY <1>2, <2>2
  <2> QED
    BY <2>1, <2>2
<1>4. entries \in [Dest -> Seq(Node)]
  <2>1. ASSUME NEW d \in Dest PROVE entries[d] \in Seq(Node)
    <3> DEFINE e == entries[d]
    <3>1. <<>> \in Seq(Node) /\ (e = <<>> \/ IsRoute(s, d, e, AllLinks))
      BY <1>3
    <3> HIDE DEF e
    <3>2. IsRoute(s, d, e, AllLinks) => e \in Seq(Node)
      BY DEF IsRoute
    <3>3. e \in Seq(Node)
      BY <3>1, <3>2, Zenon
    <3> QED
      BY <3>3 DEF e
  <2>2. entries = [d \in Dest |-> entries[d]]
    BY DEF entries, SourceEntries
  <2> QED
    BY <2>1, <2>2
<1> QED
  BY <1>3, <1>4 DEF Routes, entries

\* Setting or clearing a custom path leaves the manager with paths of their pairs.
LEMMA CustomOutcome ==
  ASSUME CustomPaired(custom), SetCustomPath \/ ClearCustomPath
  PROVE  \E s, cust : /\ CustomPaired(cust) /\ ApplyCustom(s, cust)
                      /\ \A q \in DOMAIN cust :
                             q[1] # s => q \in DOMAIN custom /\ cust[q] = custom[q]
<1>1. CASE SetCustomPath
  <2>1. PICK p \in CustomPaths :
          LET q == <<p[1], p[Len(p)]>>
          IN ApplyCustom(p[1], [r \in DOMAIN custom \cup {q} |-> IF r = q THEN p ELSE custom[r]])
    BY <1>1 DEF SetCustomPath
  <2> DEFINE q == <<p[1], p[Len(p)]>>
             cust == [r \in DOMAIN custom \cup {q} |-> IF r = q THEN p ELSE custom[r]]
  <2>2. CustomPaired(cust)
    BY DEF CustomPaired
  <2>3. \A r \in DOMAIN cust : r[1] # p[1] => r \in DOMAIN custom /\ cust[r] = custom[r]
    OBVIOUS
  <2> HIDE DEF cust
  <2> QED
    BY <2>1, <2>2, <2>3 DEF cust
<1>2. CASE ClearCustomPath
  <2>1. PICK q \in DOMAIN custom : ApplyCustom(q[1], [r \in DOMAIN custom \ {q} |-> custom[r]])
    BY <1>2 DEF ClearCustomPath
  <2> DEFINE cust == [r \in DOMAIN custom \ {q} |-> custom[r]]
  <2>2. CustomPaired(cust)
    BY DEF CustomPaired
  <2>3. \A r \in DOMAIN cust : r \in DOMAIN custom /\ cust[r] = custom[r]
    OBVIOUS
  <2> HIDE DEF cust
  <2> QED
    BY <2>1, <2>2, <2>3 DEF cust
<1> QED
  BY <1>1, <1>2

-----------------------------------------------------------------------------
(* Types, paths and tables, whatever the calls. *)

BaseInv == Types /\ PathInv /\ KernInv /\ LocalInv

\* What a step changes is its own: the rest of the invariant is about variables that
\* stay as they are.
LEMMA PathsStay ==
  ASSUME PathInv, UNCHANGED <<custom, seen, initiated, manager, lfib>>,
         pc' # "idle" => initiated /\ (status' \/ pc' = "build")
  PROVE  PathInv'
<1>1. /\ CustomPaired(custom)' /\ CustomPaired(seen)' /\ (initiated' => manager')
      /\ \A s \in Dest : Routes(s, lfib'[s])
  BY DEF PathInv, CustomPaired
<1> QED
  BY <1>1 DEF PathInv

LEMMA TakenStays ==
  ASSUME LocalInv, UNCHANGED <<taken, call, manager, status>>,
         pc' \in {"build", "send", "keep"} => pc \in {"build", "send", "keep"}
  PROVE  LocalInv'
BY DEF LocalInv, OneLineEach

LEMMA KernStays ==
  ASSUME KernInv, UNCHANGED <<kern, input, links>>
  PROVE  KernInv'
BY DEF KernInv, OneLineEach, Neighbours

\* Lines that are one for each FEC keep the kernels.
LEMMA SendsKeepKern ==
  ASSUME Types, KernInv, NEW ns \in SUBSET Node, NEW new \in [ns -> SUBSET LineSet],
         \A n \in ns : OneLineEach(new[n]), UNCHANGED <<graph, input>>,
         \A n \in Node : kern'[n] = kern[n] \/ (n \in ns /\ kern'[n] = Table(n, new[n]))
  PROVE  KernInv'
<1>1. links' = links
  BY DEF links
<1>2. ASSUME NEW n \in Node
      PROVE  OneLineEach(kern'[n]) /\ \A l \in kern'[n] : l.via = n \/ {n, l.via} \in links
  <2>1. OneLineEach(kern[n]) /\ \A l \in kern[n] : l.via = n \/ {n, l.via} \in links
    BY DEF KernInv
  <2>2. CASE kern'[n] = kern[n]
    BY <2>1, <2>2
  <2>3. CASE n \in ns /\ kern'[n] = Table(n, new[n])
    <3>1. new[n] \in SUBSET LineSet /\ OneLineEach(new[n])
      BY <2>3
    <3> QED
      BY <2>3, <3>1, TableFacts
  <2> QED
    BY <2>2, <2>3
<1> QED
  BY <1>1, <1>2 DEF KernInv, OneLineEach, Neighbours

\* A batch whose lines are one for each FEC keeps the kernels and the types.
LEMMA BatchesKeepKern ==
  ASSUME Types, KernInv, NEW stage \in Stages, NEW ns \in SUBSET Node,
         NEW lines \in [ns -> SUBSET LineSet], NEW new \in [ns -> SUBSET LineSet],
         Batches(stage, ns, lines, new), \A n \in ns : OneLineEach(new[n]),
         pc' \in Stages \cup {"idle"}, raced' = raced
  PROVE  Types' /\ KernInv'
<1>1. /\ kern' \in [Node -> SUBSET LineSet]
      /\ prev' \in [Stages -> [Node -> SUBSET LineSet]]
      /\ missed' \subseteq Node /\ astray' \subseteq Node /\ faults' \in 0..MaxFaults
      /\ \A n \in ns : \/ Ran(stage, n, lines, new) \/ NotRun(stage, n)
                       \/ RanAstray(stage, n, new)
      /\ \A n \in Node \ ns : kern'[n] = kern[n] /\ prev'[stage][n] = prev[stage][n]
      /\ UNCHANGED <<netVars, initiated, manager, custom, lfib, input, steady>>
  BY BatchOutcome
<1>2. ASSUME NEW n \in Node
      PROVE  kern'[n] = kern[n] \/ (n \in ns /\ kern'[n] = Table(n, new[n]))
  BY <1>1 DEF Ran, NotRun, RanAstray
<1>3. links' = links /\ graph' = graph /\ status' = status
  BY <1>1 DEF links, netVars
<1>4. Types'
  BY <1>1, <1>3 DEF Types
<1>5. KernInv'
  BY <1>1, <1>2, <1>3, SendsKeepKern
<1> QED
  BY <1>4, <1>5

\* The lines of the label stage, and of the stages of routes, and those of them that
\* were not in the batch before.
SidTables == [n \in Sat |-> SidLines(n, links)]
RouteTables(ns) == [n \in ns |-> RouteLines(n, lfib[n])]

LEMMA ChangedFacts ==
  ASSUME NEW stage, NEW ns, NEW lines \in [ns -> SUBSET LineSet],
         \A n \in ns : OneLineEach(lines[n])
  PROVE  /\ Changed(stage, lines) \in [ns -> SUBSET LineSet]
         /\ \A n \in ns : /\ Changed(stage, lines)[n] = lines[n] \ prev[stage][n]
                          /\ Changed(stage, lines)[n] \subseteq lines[n]
                          /\ OneLineEach(Changed(stage, lines)[n])
<1>1. \A n \in ns : Changed(stage, lines)[n] = lines[n] \ prev[stage][n]
  BY DEF Changed
<1>2. Changed(stage, lines) \in [ns -> SUBSET LineSet]
  BY DEF Changed
<1> QED
  BY <1>1, <1>2 DEF OneLineEach

LEMMA SidTablesFacts ==
  ASSUME Types
  PROVE  /\ SidTables \in [Sat -> SUBSET LineSet] /\ Sat \in SUBSET Node
         /\ \A n \in Sat : SidTables[n] = SidLines(n, links) /\ OneLineEach(SidTables[n])
<1>1. links \subseteq AllLinks
  BY DEF Types, links
<1>2. ASSUME NEW n \in Sat
      PROVE  SidLines(n, links) \subseteq LineSet /\ OneLineEach(SidLines(n, links))
  BY <1>1, SidLinesFacts
<1>3. \A n \in Sat : SidTables[n] = SidLines(n, links)
  BY DEF SidTables
<1>4. SidTables \in [Sat -> SUBSET LineSet]
  BY <1>2 DEF SidTables
<1> QED
  BY <1>2, <1>3, <1>4 DEF Node

LEMMA RouteTablesFacts ==
  ASSUME PathInv, NEW ns \in SUBSET Dest
  PROVE  /\ RouteTables(ns) \in [ns -> SUBSET LineSet] /\ ns \in SUBSET Node
         /\ \A n \in ns : /\ RouteTables(ns)[n] = RouteLines(n, lfib[n])
                          /\ OneLineEach(RouteTables(ns)[n])
<1>1. ASSUME NEW n \in ns
      PROVE  RouteLines(n, lfib[n]) \subseteq LineSet /\ OneLineEach(RouteLines(n, lfib[n]))
  BY RouteLinesFacts DEF PathInv
<1>2. \A n \in ns : RouteTables(ns)[n] = RouteLines(n, lfib[n])
  BY DEF RouteTables
<1>3. RouteTables(ns) \in [ns -> SUBSET LineSet]
  BY <1>1 DEF RouteTables
<1>4. ns \in SUBSET Node
  BY DEF Dest, Node
<1> QED
  BY <1>1, <1>2, <1>3, <1>4

\* The steps of a pass keep types, paths and tables.
LEMMA DaemonKeepsBase ==
  ASSUME BaseInv, Daemon
  PROVE  BaseInv'
<1>0. Types /\ PathInv /\ KernInv /\ LocalInv
  BY DEF BaseInv
<1>1. CASE Rebuild
  <2>1. PICK old \in SUBSET Dest :
          lfib' = [s \in Dest |-> IF s \in old THEN Built(seen, graph)[s] ELSE Built(custom, graph)[s]]
    BY <1>1 DEF Rebuild
  <2>2. /\ pc = "build" /\ pc' = IF status THEN "sids" ELSE "idle"
        /\ seen' = <<>>
        /\ UNCHANGED <<netVars, initiated, manager, custom, taken, call, prev, kern, input, histVars>>
    BY <1>1 DEF Rebuild
  <2>3. links' = links /\ graph' = graph /\ status' = status /\ graph \in Graphs
    BY <1>0, <2>2 DEF links, netVars, Types
  <2>4. ASSUME NEW s \in Dest PROVE Routes(s, lfib'[s])
    <3>1. lfib'[s] = Built(seen, graph)[s] \/ lfib'[s] = Built(custom, graph)[s]
      BY <2>1
    <3> QED
      BY <1>0, <2>3, <3>1, BuiltRoutes DEF PathInv
  <2>5. lfib' \in [Dest -> [Dest -> Seq(Node)]]
    <3>1. lfib' = [s \in Dest |-> lfib'[s]]
      BY <2>1
    <3> QED
      BY <2>4, <3>1 DEF Routes
  <2>6. Types'
    <3>1. pc' \in Stages \cup {"idle", "build", "send", "keep"}
      BY <2>2 DEF Stages
    <3>2. UNCHANGED <<initiated, manager, prev, kern, input, steady, missed, astray, raced, faults>>
      BY <2>2 DEF histVars
    <3> QED
      BY <1>0, <2>3, <2>5, <3>1, <3>2 DEF Types
  <2>7. PathInv'
    <3>1. CustomPaired(custom)' /\ CustomPaired(seen)'
      BY <1>0, <2>2 DEF PathInv, CustomPaired
    <3> QED
      BY <1>0, <2>2, <2>3, <2>4, <3>1 DEF PathInv
  <2>8. KernInv'
    BY <1>0, <2>2, <2>3, KernStays
  <2>9. LocalInv'
    BY <1>0, <2>2, <2>3, TakenStays
  <2> QED
    BY <2>6, <2>7, <2>8, <2>9 DEF BaseInv
<1>2. CASE ApplyNodeSids
  <2> DEFINE lines == SidTables
             new == Changed("sids", lines)
  <2>1. /\ Batches("sids", Sat, lines, new) /\ pc = "sids" /\ pc' = "gs"
        /\ UNCHANGED <<localVars, raced>>
    BY <1>2 DEF ApplyNodeSids, SidTables
  <2>2. /\ lines \in [Sat -> SUBSET LineSet] /\ Sat \in SUBSET Node
        /\ new \in [Sat -> SUBSET LineSet] /\ \A n \in Sat : OneLineEach(new[n])
    BY <1>0, SidTablesFacts, ChangedFacts
  <2> HIDE DEF lines, new
  <2>3. "sids" \in Stages /\ pc' \in Stages \cup {"idle"}
    BY <2>1 DEF Stages
  <2>4. UNCHANGED <<netVars, initiated, manager, custom, lfib, input, steady>>
    BY <1>0, <2>1, <2>2, <2>3, BatchOutcome
  <2>5. Types' /\ KernInv'
    BY <1>0, <2>1, <2>2, <2>3, BatchesKeepKern
  <2>6. PathInv'
    BY <1>0, <2>1, <2>4, PathsStay DEF localVars, netVars, PathInv
  <2>7. LocalInv'
    BY <1>0, <2>1, <2>4, TakenStays DEF localVars, netVars
  <2> QED
    BY <2>5, <2>6, <2>7 DEF BaseInv
<1>3. CASE TakeRoutes
  <2> DEFINE lines == RouteTables(Gnd)
             new == Changed("gs", lines)
  <2>1. /\ pc = "gs" /\ pc' = "send" /\ taken' = [lines |-> lines, new |-> new, sent |-> {}]
        /\ call' = [call EXCEPT !.alone = FALSE]
        /\ raced' = raced \cup {s \in Gnd : Busy(s)}
        /\ UNCHANGED <<netVars, initiated, daemonVars, seen, kern, input, steady, missed, astray, faults>>
    BY <1>3 DEF TakeRoutes, RouteTables, Overlap
  <2>2. /\ lines \in [Gnd -> SUBSET LineSet] /\ \A n \in Gnd : OneLineEach(lines[n])
        /\ new \in [Gnd -> SUBSET LineSet] /\ \A n \in Gnd : new[n] \subseteq lines[n]
    <3>1. Gnd \in SUBSET Dest
      BY DEF Dest
    <3>2. lines \in [Gnd -> SUBSET LineSet] /\ \A n \in Gnd : OneLineEach(lines[n])
      BY <1>0, <3>1, RouteTablesFacts
    <3> HIDE DEF lines
    <3> QED
      BY <3>2, ChangedFacts
  <2> HIDE DEF lines, new
  <2>3. links' = links /\ graph' = graph /\ status' = status
    BY <2>1 DEF links, netVars
  <2>4. Types'
    <3>1. raced' \subseteq Gnd /\ pc' \in Stages \cup {"idle", "build", "send", "keep"}
      BY <1>0, <2>1 DEF Types
    <3> QED
      BY <1>0, <2>1, <2>3, <3>1 DEF Types, daemonVars
  <2>5. PathInv'
    BY <1>0, <2>1, <2>3, PathsStay DEF daemonVars, PathInv
  <2>6. KernInv'
    BY <1>0, <2>1, <2>3, KernStays
  <2>7. LocalInv'
    BY <1>0, <2>1, <2>2, <2>3 DEF LocalInv, OneLineEach, daemonVars
  <2> QED
    BY <2>4, <2>5, <2>6, <2>7 DEF BaseInv
<1>4. CASE SendStations
  <2> DEFINE new == taken.new
  <2>1. PICK failed \in AtMostOne(Gnd), done \in BOOLEAN :
          /\ Sends(Gnd, new, failed, done)
          /\ taken' = [taken EXCEPT !.sent = {n \in Gnd \ failed : new[n] # {}}]
    BY <1>4 DEF SendStations, AtMostOne
  <2>2. /\ pc = "send" /\ pc' = "keep"
        /\ UNCHANGED <<graph, status, initiated, manager, custom, lfib, prev, seen, call, input>>
        /\ UNCHANGED <<steady, raced>>
    BY <1>4 DEF SendStations, netVars, daemonVars
  <2>3. /\ Gnd \in SUBSET Node /\ new \in [Gnd -> SUBSET LineSet]
        /\ \A n \in Gnd : OneLineEach(new[n])
    BY <1>0 DEF LocalInv, OneLineEach, Node
  <2>4. LocalInv'
    <3>1. /\ taken'.lines = taken.lines /\ taken'.new = taken.new /\ taken'.sent \subseteq Gnd
          /\ taken' = [lines |-> taken'.lines, new |-> taken'.new, sent |-> taken'.sent]
      BY <1>0, <2>1 DEF LocalInv
    <3> QED
      BY <1>0, <2>2, <3>1 DEF LocalInv, OneLineEach
  <2> HIDE DEF new
  <2>5. /\ kern' \in [Node -> SUBSET LineSet]
        /\ missed' \subseteq Node /\ astray' \subseteq Node /\ faults' \in 0..MaxFaults
        /\ \A n \in Gnd \ failed : kern'[n] = Table(n, new[n])
        /\ \A n \in failed : n \in Gnd /\ (kern'[n] = kern[n] \/ kern'[n] = Table(n, new[n]))
        /\ \A n \in Node \ Gnd : kern'[n] = kern[n]
    BY <1>0, <2>1, <2>3, SendsOutcome
  <2>6. Types'
    BY <1>0, <2>2, <2>5 DEF Types, links
  <2>7. KernInv'
    <3>1. \A n \in Node : kern'[n] = kern[n] \/ (n \in Gnd /\ kern'[n] = Table(n, new[n]))
      BY <2>5
    <3> QED
      BY <1>0, <2>2, <2>3, <3>1, SendsKeepKern
  <2>8. PathInv'
    BY <1>0, <2>2, PathsStay DEF PathInv
  <2> QED
    BY <2>4, <2>6, <2>7, <2>8 DEF BaseInv
<1>5. CASE RememberStations
  <2>1. /\ pc = "keep" /\ pc' = "sats" /\ Remembers("gs", taken.sent, taken.lines)
        /\ taken' = NoTaken /\ links' = links
        /\ UNCHANGED <<graph, status, initiated, manager, custom, lfib, seen, call, kern, input>>
        /\ UNCHANGED histVars
    BY <1>5 DEF RememberStations, netVars, links
  <2>2. prev' \in [Stages -> [Node -> SUBSET LineSet]]
    <3>1. Tables(taken.sent, taken.lines) /\ taken.sent \in SUBSET Node /\ "gs" \in Stages
      BY <1>0 DEF LocalInv, Node, Stages, Tables
    <3> QED
      BY <1>0, <2>1, <3>1, RemembersOutcome
  <2>3. Types'
    BY <1>0, <2>1, <2>2 DEF Types, histVars, Stages
  <2>4. PathInv'
    BY <1>0, <2>1, PathsStay DEF PathInv
  <2>5. KernInv'
    BY <1>0, <2>1, KernStays
  <2>6. LocalInv'
    <3>1. /\ NoTaken = [lines |-> NoTaken.lines, new |-> NoTaken.new, sent |-> NoTaken.sent]
          /\ NoTaken.lines \in [Gnd -> SUBSET LineSet] /\ NoTaken.new \in [Gnd -> SUBSET LineSet]
          /\ \A n \in Gnd : OneLineEach(NoTaken.lines[n]) /\ NoTaken.new[n] \subseteq NoTaken.lines[n]
          /\ NoTaken.sent \subseteq Gnd
      BY DEF NoTaken, OneLineEach
    <3> HIDE DEF NoTaken
    <3> QED
      BY <1>0, <2>1, <3>1 DEF LocalInv, OneLineEach
  <2> QED
    BY <2>3, <2>4, <2>5, <2>6 DEF BaseInv
<1>6. CASE ApplySatellites
  <2> DEFINE lines == RouteTables(Addressable)
             new == Changed("sats", lines)
  <2>1. /\ Batches("sats", Addressable, lines, new) /\ pc = "sats" /\ pc' = "idle"
        /\ UNCHANGED <<localVars, raced>>
    BY <1>6 DEF ApplySatellites, RouteTables
  <2>2. /\ lines \in [Addressable -> SUBSET LineSet] /\ Addressable \in SUBSET Node
        /\ new \in [Addressable -> SUBSET LineSet] /\ \A n \in Addressable : OneLineEach(new[n])
    <3>1. Addressable \in SUBSET Dest
      BY DEF Dest
    <3>2. /\ lines \in [Addressable -> SUBSET LineSet] /\ Addressable \in SUBSET Node
          /\ \A n \in Addressable : OneLineEach(lines[n])
      BY <1>0, <3>1, RouteTablesFacts
    <3> HIDE DEF lines
    <3> QED
      BY <3>2, ChangedFacts
  <2> HIDE DEF lines, new
  <2>3. "sats" \in Stages /\ pc' \in Stages \cup {"idle"}
    BY <2>1 DEF Stages
  <2>4. UNCHANGED <<netVars, initiated, manager, custom, lfib, input, steady>>
    BY <1>0, <2>1, <2>2, <2>3, BatchOutcome
  <2>5. Types' /\ KernInv'
    BY <1>0, <2>1, <2>2, <2>3, BatchesKeepKern
  <2>6. PathInv'
    BY <1>0, <2>1, <2>4, PathsStay DEF localVars, netVars, PathInv
  <2>7. LocalInv'
    BY <1>0, <2>1, <2>4, TakenStays DEF localVars, netVars
  <2> QED
    BY <2>5, <2>6, <2>7 DEF BaseInv
<1> QED
  BY <1>1, <1>2, <1>3, <1>4, <1>5, <1>6 DEF Daemon, ApplyGroundStations

\* So does a custom path that is set or cleared, in a pass or between two,
LEMMA CustomKeepsBase ==
  ASSUME BaseInv, NEW s, NEW cust, CustomPaired(cust), ApplyCustom(s, cust), manager
  PROVE  BaseInv'
<1>0. Types /\ PathInv /\ KernInv /\ LocalInv
  BY DEF BaseInv
<1>1. /\ UNCHANGED <<netVars, initiated, manager, lfib, prev, seen, taken, kern, input, pc,
                     steady, missed, astray, faults>>
      /\ custom' = cust
      /\ raced' = raced \/ raced' = raced \cup ({s} \cap Gnd)
      /\ \/ /\ status /\ s \in Gnd
            /\ call' = [at |-> "begun", source |-> s, entries |-> SourceEntries(s, cust),
                        alone |-> pc \notin {"build", "send", "keep"}]
         \/ call' = call
  BY DEF ApplyCustom, Holding
<1>2. links' = links /\ graph' = graph /\ status' = status
  BY <1>1 DEF links, netVars
<1>3. Types'
  BY <1>0, <1>1, <1>2 DEF Types
<1>4. PathInv'
  <2>1. CustomPaired(custom)' /\ CustomPaired(seen)'
    BY <1>0, <1>1 DEF PathInv, CustomPaired
  <2> QED
    BY <1>0, <1>1, <1>2, <2>1 DEF PathInv
<1>5. KernInv'
  BY <1>0, <1>1, <1>2, KernStays
<1>6. LocalInv'
  <2>1. CASE call' = call
    BY <1>0, <1>1, <1>2, <2>1, TakenStays
  <2>2. CASE call' # call
    <3>1. s \in Gnd /\ Routes(s, SourceEntries(s, cust)) /\ status
      BY <1>0, <1>1, <2>2, SourceRoutes
    <3> DEFINE entries == SourceEntries(s, cust)
               alone == pc \notin {"build", "send", "keep"}
    <3>2. call' = [at |-> "begun", source |-> s, entries |-> entries, alone |-> alone]
      BY <1>1, <2>2
    <3>3. alone \in BOOLEAN /\ (alone => pc \notin {"build", "send", "keep"})
      OBVIOUS
    <3> HIDE DEF entries, alone
    <3>4. /\ call'.at = "begun" /\ call'.source = s /\ call'.entries = entries /\ call'.alone = alone
          /\ call' = [at |-> call'.at, source |-> call'.source, entries |-> call'.entries,
                      alone |-> call'.alone]
      BY <3>2
    <3>5. UNCHANGED <<taken, pc, manager, status>>
      BY <1>1, <1>2
    <3> QED
      BY <1>0, <3>1, <3>3, <3>4, <3>5 DEF LocalInv, OneLineEach, entries
  <2> QED
    BY <2>1, <2>2
<1> QED
  BY <1>3, <1>4, <1>5, <1>6 DEF BaseInv

\* The source of a call under way, and its lines.
LEMMA CallFacts ==
  ASSUME BaseInv, call.at # "none"
  PROVE  LET s == call.source IN
         /\ s \in Gnd /\ s \in Dest /\ s \in Node /\ manager /\ status
         /\ Routes(s, call.entries)
         /\ RouteLines(s, call.entries) \in SUBSET LineSet
         /\ OneLineEach(RouteLines(s, call.entries))
<1>1. /\ call.source \in Gnd /\ manager /\ status /\ Routes(call.source, call.entries)
  BY DEF BaseInv, LocalInv
<1> QED
  BY <1>1, RouteLinesFacts DEF Dest, Node

\* and the rest of its call: the entries are stored, the lines sent and remembered.
LEMMA CallKeepsBase ==
  ASSUME BaseInv, Call
  PROVE  BaseInv'
<1>0. Types /\ PathInv /\ KernInv /\ LocalInv
  BY DEF BaseInv
<1> DEFINE s == call.source
           lines == RouteLines(s, call.entries)
<1>1. call.at # "none"
  BY DEF Call, StoreEntries, SendLines, RememberLines
<1>2. /\ s \in Gnd /\ s \in Dest /\ s \in Node /\ manager /\ status /\ Routes(s, call.entries)
      /\ lines \in SUBSET LineSet /\ OneLineEach(lines)
  BY <1>1, CallFacts
<1>3. /\ UNCHANGED <<netVars, initiated, manager, custom, seen, taken, pc, steady>>
      /\ \/ call' = NoCall
         \/ call' = [call EXCEPT !.at = "built"] \/ call' = [call EXCEPT !.at = "sent"]
  BY DEF Call, StoreEntries, SendLines, RememberLines, daemonVars, histVars
<1>4. links' = links /\ graph' = graph /\ status' = status
  BY <1>3 DEF links, netVars
<1>5. LocalInv'
  <2>1. CASE call' = NoCall
    <3>1. NoCall.at = "none" /\ NoCall.alone = FALSE
          /\ NoCall = [at |-> NoCall.at, source |-> NoCall.source, entries |-> NoCall.entries,
                       alone |-> NoCall.alone]
      BY DEF NoCall
    <3> HIDE DEF NoCall
    <3> QED
      BY <1>0, <1>3, <1>4, <2>1, <3>1 DEF LocalInv, OneLineEach
  <2>2. CASE call' = [call EXCEPT !.at = "built"] \/ call' = [call EXCEPT !.at = "sent"]
    <3>1. /\ UNCHANGED <<taken, manager, pc>> /\ call'.at \in {"built", "sent"}
          /\ call'.source = s /\ call'.entries = call.entries /\ call'.alone = call.alone
          /\ call' = [at |-> call'.at, source |-> call'.source, entries |-> call'.entries,
                      alone |-> call'.alone]
      BY <1>0, <1>3, <2>2 DEF LocalInv
    <3> QED
      BY <1>0, <1>2, <1>4, <3>1 DEF LocalInv, OneLineEach
  <2> QED
    BY <1>3, <2>1, <2>2
<1>6. CASE StoreEntries
  <2>1. /\ lfib' = [lfib EXCEPT ![s] = call.entries]
        /\ input' = [input EXCEPT ![s] = Neighbours(s, links)]
        /\ UNCHANGED <<prev, kern, histVars>>
    BY <1>6 DEF StoreEntries
  <2>2. \A t \in Dest : Routes(t, lfib'[t])
    BY <1>0, <1>2, <2>1 DEF PathInv, Types
  <2>3. lfib' \in [Dest -> [Dest -> Seq(Node)]]
    BY <1>0, <1>2, <2>1 DEF Types, Routes
  <2>4. input' \in [Node -> SUBSET Node]
    BY <1>0, <1>2, <2>1 DEF Types, Neighbours
  <2>5. Types'
    BY <1>0, <1>3, <1>4, <2>1, <2>3, <2>4 DEF Types, histVars
  <2>6. PathInv'
    <3>1. CustomPaired(custom)' /\ CustomPaired(seen)'
      BY <1>0, <1>3 DEF PathInv, CustomPaired
    <3> QED
      BY <1>0, <1>3, <1>4, <2>2, <3>1 DEF PathInv
  <2>7. KernInv'
    <3>1. \A n \in Node : input'[n] \subseteq Neighbours(n, links)
      BY <1>0, <1>2, <2>1 DEF Types, KernInv
    <3> QED
      BY <1>0, <1>4, <2>1, <3>1 DEF KernInv, OneLineEach, Neighbours
  <2> QED
    BY <1>5, <2>5, <2>6, <2>7 DEF BaseInv
<1>7. CASE SendLines
  <2>1. /\ kern' = [kern EXCEPT ![s] = Table(s, lines)] \/ kern' = kern
        /\ missed' \subseteq missed \cup {s} /\ astray' \subseteq astray \cup {s}
        /\ faults' = faults \/ (faults < MaxFaults /\ faults' = faults + 1)
        /\ UNCHANGED <<lfib, prev, input, raced>>
    BY <1>7 DEF SendLines, Table, daemonVars
  <2>2. /\ Table(s, lines) \subseteq LineSet /\ OneLineEach(Table(s, lines))
        /\ \A l \in Table(s, lines) : l.via = s \/ {s, l.via} \in links
    BY <1>0, <1>2, TableFacts
  <2> HIDE DEF lines
  <2>3. Types'
    <3>1. kern' \in [Node -> SUBSET LineSet]
      <4>1. kern \in [Node -> SUBSET LineSet]
        BY <1>0 DEF Types
      <4>2. CASE kern' = [kern EXCEPT ![s] = Table(s, lines)]
        BY <2>2, <4>1, <4>2
      <4> QED
        BY <2>1, <4>1, <4>2
    <3>2. missed' \subseteq Node /\ astray' \subseteq Node /\ faults' \in 0..MaxFaults
      BY <1>0, <1>2, <2>1 DEF Types
    <3> QED
      BY <1>0, <1>3, <1>4, <2>1, <3>1, <3>2 DEF Types
  <2>4. PathInv'
    BY <1>0, <1>3, <1>4, <2>1, PathsStay DEF PathInv
  <2>5. KernInv'
    <3>1. ASSUME NEW n \in Node
          PROVE  OneLineEach(kern'[n]) /\ \A l \in kern'[n] : l.via = n \/ {n, l.via} \in links
      <4>1. kern'[n] = kern[n] \/ (n = s /\ kern'[n] = Table(s, lines))
        BY <1>0, <2>1 DEF Types
      <4>2. OneLineEach(kern[n]) /\ \A l \in kern[n] : l.via = n \/ {n, l.via} \in links
        BY <1>0 DEF KernInv
      <4> QED
        BY <2>2, <4>1, <4>2
    <3> QED
      BY <1>0, <1>4, <2>1, <3>1 DEF KernInv, OneLineEach, Neighbours
  <2> QED
    BY <1>5, <2>3, <2>4, <2>5 DEF BaseInv
<1>8. CASE RememberLines
  <2>1. /\ prev' = [prev EXCEPT !["gs"][s] = lines]
        /\ raced' \subseteq raced /\ astray' \subseteq astray
        /\ UNCHANGED <<lfib, kern, input, missed, faults>>
    BY <1>8 DEF RememberLines, Remembered
  <2> HIDE DEF lines
  <2>2. Types'
    <3>1. prev' \in [Stages -> [Node -> SUBSET LineSet]]
      BY <1>0, <1>2, <2>1 DEF Types
    <3> QED
      BY <1>0, <1>3, <1>4, <2>1, <3>1 DEF Types
  <2>3. PathInv'
    BY <1>0, <1>3, <1>4, <2>1, PathsStay DEF PathInv
  <2>4. KernInv'
    BY <1>0, <1>4, <2>1, KernStays
  <2> QED
    BY <1>5, <2>2, <2>3, <2>4 DEF BaseInv
<1> QED
  BY <1>6, <1>7, <1>8 DEF Call

\* They hold before anything was sent.
LEMMA InitHasBase == Init => BaseInv
<1> SUFFICES ASSUME Init PROVE BaseInv
  OBVIOUS
<1>1. /\ graph \in Graphs /\ status = FALSE /\ initiated = FALSE /\ manager = FALSE
      /\ custom = <<>> /\ lfib = [s \in Dest |-> NoPaths]
      /\ prev = NoPrev /\ kern = NoLines /\ input = NoLines
      /\ seen = <<>> /\ taken = NoTaken /\ call = NoCall
      /\ pc = "idle" /\ steady = {} /\ missed = {} /\ astray = {} /\ raced = {} /\ faults = 0
  BY DEF Init
<1>2. NoPaths \in [Dest -> Seq(Node)] /\ \A d \in Dest : NoPaths[d] = <<>>
  <2>1. <<>> \in Seq(Node)
    OBVIOUS
  <2> QED
    BY <2>1 DEF NoPaths
<1>3. NoPrev \in [Stages -> [Node -> SUBSET LineSet]]
  BY DEF NoPrev, NoLines
<1>4. Types
  <2>1. lfib \in [Dest -> [Dest -> Seq(Node)]]
    BY <1>1, <1>2
  <2>2. kern \in [Node -> SUBSET LineSet] /\ input \in [Node -> SUBSET Node]
    BY <1>1 DEF NoLines
  <2>3. prev \in [Stages -> [Node -> SUBSET LineSet]]
    BY <1>1, <1>3
  <2>4. /\ steady \subseteq links /\ missed \subseteq Node /\ astray \subseteq Node
        /\ raced \subseteq Gnd /\ faults \in 0..MaxFaults
    BY <1>1
  <2>5. status \in BOOLEAN /\ initiated \in BOOLEAN /\ manager \in BOOLEAN
    BY <1>1
  <2> QED
    BY <1>1, <2>1, <2>2, <2>3, <2>4, <2>5, Zenon DEF Types
<1>5. PathInv
  BY <1>1, <1>2 DEF PathInv, CustomPaired, Routes
<1>6. KernInv
  BY <1>1 DEF KernInv, NoLines, OneLineEach
<1>7. LocalInv
  BY <1>1 DEF LocalInv, NoTaken, NoCall, OneLineEach
<1> QED
  BY <1>4, <1>5, <1>6, <1>7 DEF BaseInv

\* init_routing() rebuilds the entries from the graph of the moment.
LEMMA InitRoutingKeepsBase ==
  ASSUME BaseInv, InitRouting
  PROVE  BaseInv'
<1>1. /\ pc = "idle" /\ call.at = "none" /\ manager' = TRUE /\ custom' = <<>> /\ prev' = NoPrev
      /\ lfib' = Built(<<>>, graph) /\ initiated' = TRUE
      /\ missed' = {} /\ astray' = {} /\ raced' = {}
      /\ UNCHANGED <<netVars, localVars, kern, faults>>
      /\ \/ /\ status /\ input' = [n \in Node |-> Neighbours(n, links)]
            /\ steady' = links /\ pc' = "sids"
         \/ ~status /\ steady' = {} /\ UNCHANGED <<input, pc>>
  BY DEF InitRouting, Forgiven
<1>2. Types /\ PathInv /\ KernInv /\ LocalInv
  BY DEF BaseInv
<1>3. links' = links /\ graph' = graph /\ status' = status /\ graph \in Graphs
  BY <1>1, <1>2 DEF links, netVars, Types
<1>4. CustomPaired(<<>>) /\ CustomPaired(custom)' /\ CustomPaired(seen)'
  BY <1>1, <1>2 DEF CustomPaired, PathInv, localVars
<1>5. /\ lfib' \in [Dest -> [Dest -> Seq(Node)]] /\ \A s \in Dest : Routes(s, lfib'[s])
  BY <1>1, <1>3, <1>4, BuiltRoutes
<1>6. Types'
  <2>1. prev' \in [Stages -> [Node -> SUBSET LineSet]]
    BY <1>1 DEF NoPrev, NoLines
  <2>2. input' \in [Node -> SUBSET Node]
    <3>1. \A n \in Node : Neighbours(n, links) \in SUBSET Node
      BY DEF Neighbours
    <3>2. [n \in Node |-> Neighbours(n, links)] \in [Node -> SUBSET Node]
      BY <3>1
    <3>3. input \in [Node -> SUBSET Node]
      BY <1>2 DEF Types
    <3> QED
      BY <1>1, <3>2, <3>3
  <2> QED
    BY <1>1, <1>2, <1>3, <1>5, <2>1, <2>2 DEF Types, Stages
<1>7. PathInv'
  BY <1>1, <1>3, <1>4, <1>5 DEF PathInv
<1>8. KernInv'
  BY <1>1, <1>2, <1>3 DEF KernInv, OneLineEach, Neighbours
<1>9. LocalInv'
  BY <1>1, <1>2, <1>3 DEF LocalInv, OneLineEach, localVars
<1> QED
  BY <1>6, <1>7, <1>8, <1>9 DEF BaseInv

\* A pass takes the lines and the inputs of lost links away with them.
LEMMA PassKeepsBase ==
  ASSUME BaseInv, Pass
  PROVE  BaseInv'
<1>1. /\ pc = "idle" /\ pc' = (IF initiated THEN "build" ELSE "idle") /\ graph' \in Graphs
      /\ kern' = [n \in Node |-> {l \in kern[n] : l.via = n \/ {n, l.via} \in links'}]
      /\ input' = [n \in Node |-> {m \in input[n] : {n, m} \in links'}]
      /\ steady' = steady \cap links'
      /\ seen' = custom \/ seen' = <<>>
      /\ missed' = {} \/ missed' = missed
      /\ call' = [call EXCEPT !.alone = FALSE] /\ raced' = raced \cup {s \in Gnd : Busy(s)}
      /\ UNCHANGED <<status, initiated, daemonVars, taken, astray, faults>>
  BY DEF Pass, Overlap
<1>2. Types /\ PathInv /\ KernInv /\ LocalInv
  BY DEF BaseInv
<1>3. UNCHANGED <<manager, custom, lfib, prev>>
  BY <1>1 DEF daemonVars
<1>4. Types'
  <2>1. kern' \in [Node -> SUBSET LineSet]
    BY <1>1, <1>2 DEF Types
  <2>2. input' \in [Node -> SUBSET Node]
    BY <1>1, <1>2 DEF Types
  <2>3. /\ missed' \subseteq Node /\ raced' \subseteq Gnd
        /\ pc' \in Stages \cup {"idle", "build", "send", "keep"}
    BY <1>1, <1>2 DEF Types
  <2> QED
    BY <1>1, <1>2, <1>3, <2>1, <2>2, <2>3 DEF Types
<1>5. PathInv'
  <2>1. CustomPaired(custom)' /\ CustomPaired(seen)'
    BY <1>1, <1>2, <1>3 DEF PathInv, CustomPaired
  <2> QED
    BY <1>1, <1>2, <1>3, <2>1 DEF PathInv
<1>6. KernInv'
  BY <1>1, <1>2 DEF KernInv, OneLineEach, Neighbours, Types
<1>7. LocalInv'
  BY <1>1, <1>2, <1>3 DEF LocalInv, OneLineEach
<1> QED
  BY <1>4, <1>5, <1>6, <1>7 DEF BaseInv

\* The calls that forget, start and stop, and a stutter.
LEMMA OtherCallsKeepBase ==
  ASSUME BaseInv, DeleteRouting \/ StartGonetem \/ StopGonetem \/ UNCHANGED vars
  PROVE  BaseInv'
<1>1. Types /\ PathInv /\ KernInv /\ LocalInv
  BY DEF BaseInv
<1>2. NoPaths \in [Dest -> Seq(Node)] /\ \A d \in Dest : NoPaths[d] = <<>>
  <2>1. <<>> \in Seq(Node)
    OBVIOUS
  <2> QED
    BY <2>1 DEF NoPaths
<1>3. CASE DeleteRouting
  <2>1. /\ pc = "idle" /\ call.at = "none" /\ UNCHANGED <<netVars, localVars, input, pc, faults>>
        /\ kern' = [n \in Node |-> {l \in kern[n] : l.fec[1] = "ip" \/ ~status}]
        /\ manager' = FALSE /\ custom' = <<>> /\ prev' = NoPrev
        /\ lfib' = [s \in Dest |-> NoPaths] /\ initiated' = FALSE
        /\ steady' = {} /\ missed' = {} /\ astray' = {} /\ raced' = {}
    BY <1>3 DEF DeleteRouting, Forgiven
  <2>2. links' = links /\ graph' = graph /\ status' = status
    BY <2>1 DEF links, netVars
  <2>3. prev' \in [Stages -> [Node -> SUBSET LineSet]]
    BY <2>1 DEF NoPrev, NoLines
  <2>4. Types'
    <3>1. kern' \in [Node -> SUBSET LineSet] /\ lfib' \in [Dest -> [Dest -> Seq(Node)]]
      BY <1>1, <1>2, <2>1 DEF Types
    <3> QED
      BY <1>1, <2>1, <2>2, <2>3, <3>1 DEF Types
  <2>5. PathInv'
    BY <1>1, <1>2, <2>1 DEF PathInv, CustomPaired, Routes, localVars
  <2>6. KernInv'
    BY <1>1, <2>1, <2>2 DEF KernInv, OneLineEach, Neighbours, Types
  <2>7. LocalInv'
    BY <1>1, <2>1, <2>2 DEF LocalInv, OneLineEach, localVars
  <2> QED
    BY <2>4, <2>5, <2>6, <2>7 DEF BaseInv
<1>4. CASE StartGonetem
  <2>1. /\ pc = "idle" /\ call.at = "none" /\ status' = TRUE
        /\ UNCHANGED <<graph, initiated, manager, custom, lfib, prev, kern, input, pc>>
        /\ UNCHANGED <<localVars, histVars>>
    BY <1>4 DEF StartGonetem, daemonVars
  <2>2. links' = links
    BY <2>1 DEF links
  <2>3. Types'
    BY <1>1, <2>1, <2>2 DEF Types, histVars
  <2>4. PathInv'
    BY <1>1, <2>1, PathsStay DEF localVars
  <2>5. KernInv'
    BY <1>1, <2>1, <2>2, KernStays
  <2>6. LocalInv'
    BY <1>1, <2>1 DEF LocalInv, OneLineEach, localVars
  <2> QED
    BY <2>3, <2>4, <2>5, <2>6 DEF BaseInv
<1>5. CASE StopGonetem
  <2>1. /\ pc = "idle" /\ call.at = "none" /\ status' = FALSE /\ initiated' = FALSE
        /\ kern' = NoLines /\ input' = NoLines /\ steady' = {}
        /\ missed' = {} /\ astray' = {} /\ raced' = {}
        /\ UNCHANGED <<graph, manager, custom, lfib, prev, localVars, pc, faults>>
    BY <1>5 DEF StopGonetem, daemonVars, Forgiven
  <2>2. links' = links
    BY <2>1 DEF links
  <2>3. Types'
    BY <1>1, <2>1, <2>2 DEF Types, NoLines
  <2>4. PathInv'
    BY <1>1, <2>1 DEF PathInv, CustomPaired, localVars
  <2>5. KernInv'
    BY <2>1 DEF KernInv, OneLineEach, NoLines
  <2>6. LocalInv'
    BY <1>1, <2>1 DEF LocalInv, OneLineEach, localVars
  <2> QED
    BY <2>3, <2>4, <2>5, <2>6 DEF BaseInv
<1>6. CASE UNCHANGED vars
  <2>1. UNCHANGED <<graph, status, initiated, manager, custom, lfib, prev, kern, input, pc>>
    BY <1>6 DEF vars, netVars, daemonVars
  <2>2. UNCHANGED <<steady, missed, astray, raced, faults, links, seen, taken, call>>
    BY <1>6 DEF vars, netVars, histVars, links, localVars
  <2>3. Types'
    BY <1>1, <2>1, <2>2 DEF Types
  <2>4. PathInv'
    <3>1. pc' # "idle" => initiated /\ (status' \/ pc' = "build")
      BY <1>1, <2>1 DEF PathInv
    <3> QED
      BY <1>1, <2>1, <2>2, <3>1, PathsStay
  <2>5. KernInv'
    BY <1>1, <2>1, <2>2, KernStays
  <2>6. LocalInv'
    BY <1>1, <2>1, <2>2, TakenStays
  <2> QED
    BY <2>3, <2>4, <2>5, <2>6 DEF BaseInv
<1> QED
  BY <1>3, <1>4, <1>5, <1>6

\* No step of the daemon or of a call breaks them.
LEMMA NextKeepsBase == BaseInv /\ [Next]_vars => BaseInv'
<1> SUFFICES ASSUME BaseInv, [Next]_vars PROVE BaseInv'
  OBVIOUS
<1>1. CASE SetCustomPath \/ ClearCustomPath
  <2>1. CustomPaired(custom)
    BY DEF BaseInv, PathInv
  <2>2. PICK s, cust : CustomPaired(cust) /\ ApplyCustom(s, cust)
    BY <1>1, <2>1, CustomOutcome
  <2>3. manager
    BY <1>1 DEF SetCustomPath, ClearCustomPath
  <2> QED
    BY <2>2, <2>3, CustomKeepsBase
<1> QED
  BY <1>1, DaemonKeepsBase, CallKeepsBase, InitRoutingKeepsBase, PassKeepsBase, OtherCallsKeepBase
  DEF Next, Calls

\* The variables keep their types; in particular, the entries of the label table and
\* the lines of the kernels never leave the links of the simulation, and a FEC never
\* has two lines, whatever is sent to the kernels, and in whatever pass.
THEOREM SrMplsTypeCorrect == Spec => []TypeOK
<1>1. BaseInv => TypeOK
  BY DEF BaseInv, Types, PathInv, CustomPaired, Routes, KernInv, LocalInv, OneLineEach, IsRoute,
         Holding, TypeOK
<1> QED
  BY <1>1, InitHasBase, NextKeepsBase, PTL DEF Spec

-----------------------------------------------------------------------------
(* What the daemon believes to be in the kernels is there, for links that were
   up since init(). *)

\* A node takes labels from neighbours it had since init().
InputInv == \A n, m \in Node : {n, m} \in steady => m \in input[n]

IdleInv == ~status => steady = {}

\* A rule is in the kernel when its line was sent,
\* and after its stage of a pass whose batch went through.
LabelInv ==
  \A n \in Sat, m \in Node : {n, m} \in steady =>
    /\ ForwardLine(m) \in prev["sids"][n] => ForwardLine(m) \in kern[n]
    /\ initiated /\ pc \notin {"build", "sids"} /\ n \notin missed => ForwardLine(m) \in kern[n]

StageOf(s) == IF s \in Gnd THEN "gs" ELSE "sats"

\* The stage of s in the pass is over.
Served(s) == pc = "idle" \/ (s \in Gnd /\ pc = "sats")

\* A call has sent its lines and not remembered them yet.
Sent(s) == call.at = "sent" /\ call.source = s

\* The batch of the stations is sent and not remembered yet.
Keeping(s) == pc = "keep" /\ s \in Gnd

\* So is a route, unless a batch with it ran and failed all the same or a call met
\* a pass; while a call or a stage is under way, a source may have its routes already.
RouteInv ==
  \A s \in Dest, d \in Dest :
    s \notin astray /\ s \notin raced /\ (s \in Gnd \/ d \in Addressable) =>
      /\ ~Sent(s) /\ ~Keeping(s) =>
           \A l \in prev[StageOf(s)][s] :
             l.fec = <<"ip", d>> /\ {s, l.via} \in steady => l \in kern[s]
      /\ LET p == lfib[s][d]
         IN /\ ~Busy(s) /\ initiated /\ Served(s) /\ s \notin missed
            /\ p # <<>> /\ {s, p[2]} \in steady
            => RouteLine(p) \in kern[s]

\* The entry of a pair is its custom path, unless a call met a pass.
CustomInv ==
  \A q \in DOMAIN custom :
    /\ q[1] \in Gnd \ raced /\ q[2] \in Gnd /\ ~Busy(q[1])
    /\ initiated /\ pc # "build" /\ {q[1], custom[q][2]} \in steady
    => lfib[q[1]][q[2]] = custom[q]

\* A source is said to have met a pass as soon as it does; the custom paths and the
\* lines that a pass holds are those of now for the other ones.
RacedInv == call.at # "none" /\ ~call.alone => call.source \in raced

SeenInv ==
  pc = "build" => \A q \in DOMAIN custom :
    q[1] \in Gnd \ raced => q \in DOMAIN seen /\ seen[q] = custom[q]

\* The routes among the lines, along links that were up since init(), are there.
InKernel(n, lines) ==
  \A l \in lines, d \in Dest :
    l.fec = <<"ip", d>> /\ {n, l.via} \in steady => l \in kern[n]

\* Until it is remembered, a batch that went through has the routes of now.
BatchInv(n) ==
  n \notin astray =>
    /\ n \notin taken.sent => InKernel(n, prev["gs"][n])
    /\ n \in taken.sent \/ n \notin missed => InKernel(n, taken.lines[n])

TakenInv ==
  pc \in {"send", "keep"} => \A n \in Gnd \ raced :
    /\ taken.lines[n] = RouteLines(n, lfib[n])
    /\ pc = "send" => taken.new[n] = taken.lines[n] \ prev["gs"][n]
    /\ pc = "keep" => BatchInv(n)

\* A call that met no pass has the entries of now, and its lines are in the kernel
\* once it sent them.
CallInv ==
  call.at # "none" /\ call.alone =>
    /\ call.entries = SourceEntries(call.source, custom)
    /\ call.at \in {"built", "sent"} => lfib[call.source] = call.entries
    /\ call.at = "sent" => \A l \in RouteLines(call.source, call.entries) :
                             {call.source, l.via} \in steady => l \in kern[call.source]

MeetInv == RacedInv /\ SeenInv /\ TakenInv /\ CallInv

ReachInv == InputInv /\ IdleInv /\ LabelInv /\ RouteInv /\ CustomInv /\ MeetInv

\* A link that was up since init() is up.
LEMMA SteadyLink ==
  ASSUME Types, NEW n, NEW m, {n, m} \in steady
  PROVE  {n, m} \in links /\ n \in Node /\ m \in Node /\ n # m
<1>1. {n, m} \in links /\ {n, m} \in AllLinks
  BY DEF Types, links
<1> QED
  BY <1>1, LinkEnds

\* The rule for a label forwards it to the node it names.
LEMMA ForwardLineFields ==
  \A m : ForwardLine(m).fec = <<"mpls", m>> /\ ForwardLine(m).via = m
BY DEF ForwardLine, Line

\* A batch leaves the lines whose FEC it does not route otherwise,
LEMMA BatchKeeps ==
  ASSUME Types, KernInv, NEW stage, NEW n \in Node, NEW lines, NEW new,
         new[n] \in SUBSET LineSet, new[n] \subseteq lines[n],
         Ran(stage, n, lines, new) \/ NotRun(stage, n) \/ RanAstray(stage, n, new),
         NEW l \in kern[n], \A k \in lines[n] : k.fec = l.fec => k = l
  PROVE  l \in kern'[n]
<1>1. \A k \in new[n] : k.fec = l.fec => k = l
  OBVIOUS
<1>2. l \in Table(n, new[n])
  BY <1>1, TableFacts
<1> QED
  BY <1>2 DEF Ran, NotRun, RanAstray

\* and when it went through, all of its lines by devices that are there are in the
\* kernel, given that those that were not sent again were.
LEMMA BatchSends ==
  ASSUME Types, KernInv, NEW stage, NEW n \in Node, NEW lines, NEW new,
         lines[n] \in SUBSET LineSet, new[n] = lines[n] \ prev[stage][n],
         Ran(stage, n, lines, new), OneLineEach(lines[n]),
         NEW l \in lines[n], {n, l.via} \in links, l \in prev[stage][n] => l \in kern[n]
  PROVE  l \in kern'[n]
<1>1. new[n] \in SUBSET LineSet /\ new[n] \subseteq lines[n]
  OBVIOUS
<1>2. CASE l \in prev[stage][n]
  BY <1>1, <1>2, BatchKeeps DEF OneLineEach
<1>3. CASE l \notin prev[stage][n]
  <2>1. l \in new[n]
    BY <1>3
  <2>2. l \in Table(n, new[n])
    BY <1>1, <2>1, TableFacts
  <2> QED
    BY <2>2 DEF Ran
<1> QED
  BY <1>2, <1>3

\* What was sent of a batch that went through: its lines, or what had been sent before.
LEMMA BatchSent ==
  ASSUME Types, KernInv, NEW stage, NEW n \in Node, NEW lines, NEW new,
         lines[n] \in SUBSET LineSet, new[n] = lines[n] \ prev[stage][n],
         Ran(stage, n, lines, new), OneLineEach(lines[n]),
         NEW l \in prev'[stage][n], {n, l.via} \in links, l \in prev[stage][n] => l \in kern[n]
  PROVE  l \in kern'[n]
<1>1. CASE l \in lines[n]
  BY <1>1, BatchSends
<1>2. CASE l \notin lines[n]
  <2>1. new[n] = {} /\ l \in prev[stage][n] /\ l \in kern[n]
    BY <1>2 DEF Ran
  <2>2. l \in Table(n, {})
    BY <2>1, TableFacts
  <2> QED
    BY <2>1, <2>2 DEF Ran
<1> QED
  BY <1>1, <1>2

\* The entries of a call that met no pass stay those of now.
LEMMA CallStays ==
  ASSUME CallInv, call' \in {call, NoCall}, UNCHANGED <<graph, custom, lfib>>,
         steady' \subseteq steady,
         call.at # "none" /\ call.alone => kern'[call.source] = kern[call.source]
  PROVE  CallInv'
<1>1. CASE call' = NoCall
  BY <1>1 DEF CallInv, NoCall
<1>2. CASE call' = call
  <2>1. \A s, cust : SourceEntries(s, cust)' = SourceEntries(s, cust')
    BY DEF SourceEntries, links
  <2>2. SourceEntries(call.source, custom)' = SourceEntries(call.source, custom)
    BY <1>2 DEF SourceEntries, links
  <2> QED
    BY <1>2, <2>2 DEF CallInv
<1> QED
  BY <1>1, <1>2

\* The label stage: the lines are new or were sent, and it leaves the routes of
\* addressable satellites alone, which have no direct line.
LEMMA SidsReach ==
  ASSUME BaseInv, ReachInv, ApplyNodeSids
  PROVE  ReachInv'
<1> DEFINE lines == SidTables
           new == Changed("sids", lines)
<1>0. /\ Types /\ KernInv /\ LocalInv
      /\ InputInv /\ IdleInv /\ LabelInv /\ RouteInv /\ CustomInv /\ MeetInv
  BY DEF BaseInv, ReachInv
<1>1. /\ Batches("sids", Sat, lines, new) /\ "sids" \in Stages
      /\ pc = "sids" /\ pc' = "gs" /\ UNCHANGED <<localVars, raced>>
  BY DEF ApplyNodeSids, SidTables, Stages
<1>2. /\ lines \in [Sat -> SUBSET LineSet] /\ Sat \in SUBSET Node
      /\ \A n \in Sat : lines[n] = SidLines(n, links) /\ OneLineEach(lines[n])
  BY <1>0, SidTablesFacts
<1>3. links \subseteq AllLinks
  BY <1>0 DEF Types, links
<1> HIDE DEF lines
<1>4. /\ new \in [Sat -> SUBSET LineSet]
      /\ \A n \in Sat : /\ new[n] = lines[n] \ prev["sids"][n] /\ new[n] \subseteq lines[n]
                        /\ new[n] \in SUBSET LineSet
  BY <1>2, ChangedFacts
<1> HIDE DEF new
<1>5. /\ missed \subseteq missed' /\ astray \subseteq astray'
      /\ UNCHANGED <<netVars, initiated, manager, custom, lfib, input, steady>>
      /\ \A n \in Sat : \/ Ran("sids", n, lines, new) \/ NotRun("sids", n)
                        \/ RanAstray("sids", n, new)
      /\ \A n \in Node \ Sat : kern'[n] = kern[n] /\ prev'["sids"][n] = prev["sids"][n]
      /\ \A t \in Stages \ {"sids"} : prev'[t] = prev[t]
  BY <1>0, <1>1, <1>2, <1>4, BatchOutcome
<1>6. InputInv' /\ IdleInv'
  BY <1>0, <1>5 DEF InputInv, IdleInv, netVars
<1>7. UNCHANGED <<graph, status, custom, lfib, steady, initiated, seen, taken, call, raced>>
  BY <1>1, <1>5 DEF netVars, localVars
<1>8. CustomInv'
  BY <1>0, <1>1, <1>7 DEF CustomInv, Busy
<1>9. MeetInv'
  <2>1. CallInv'
    <3>1. call.at # "none" => call.source \in Node \ Sat
      BY <1>0 DEF LocalInv, Node
    <3> QED
      BY <1>0, <1>5, <1>7, <3>1, CallStays DEF MeetInv
  <2> QED
    BY <1>0, <1>1, <1>7, <2>1 DEF MeetInv, RacedInv, SeenInv, TakenInv
<1>10. LabelInv'
  <2> SUFFICES ASSUME NEW n \in Sat, NEW m \in Node, {n, m} \in steady
               PROVE  /\ ForwardLine(m) \in prev'["sids"][n] => ForwardLine(m) \in kern'[n]
                      /\ n \notin missed' => ForwardLine(m) \in kern'[n]
    BY <1>5 DEF LabelInv
  <2> DEFINE l == ForwardLine(m)
  <2>1. /\ n # m /\ l.fec = <<"mpls", m>> /\ l \in lines[n] /\ {n, l.via} \in links /\ n \in Node
    <3>1. {n, m} \in links /\ n # m /\ n \in Node
      BY <1>0, SteadyLink
    <3>2. l \in SidLines(n, links)
      BY <1>3, <3>1, SidLinesFacts
    <3> QED
      BY <1>2, <3>1, <3>2, ForwardLineFields
  <2>2. l \in prev["sids"][n] => l \in kern[n]
    BY <1>0 DEF LabelInv
  <2>3. /\ lines[n] \in SUBSET LineSet /\ OneLineEach(lines[n]) /\ new[n] \in SUBSET LineSet
        /\ new[n] = lines[n] \ prev["sids"][n] /\ new[n] \subseteq lines[n]
    BY <1>2, <1>4
  <2> HIDE DEF l
  <2>4. CASE Ran("sids", n, lines, new)
    <3>1. l \in kern'[n]
      BY <1>0, <2>1, <2>2, <2>3, <2>4, BatchSends
    <3> QED
      BY <3>1 DEF l
  <2>5. CASE NotRun("sids", n)
    BY <2>2, <2>5 DEF NotRun, l
  <2>6. CASE RanAstray("sids", n, new)
    <3>1. n \in missed' /\ prev'["sids"][n] = prev["sids"][n]
      BY <2>6 DEF RanAstray
    <3>2. l \in kern[n] => l \in kern'[n]
      BY <1>0, <2>1, <2>3, <2>6, BatchKeeps DEF OneLineEach
    <3> QED
      BY <2>2, <3>1, <3>2 DEF l
  <2> QED
    BY <1>5, <2>4, <2>5, <2>6
<1>11. RouteInv'
  <2> SUFFICES ASSUME NEW s \in Dest, NEW d \in Dest,
                      s \notin astray', s \notin raced, s \in Gnd \/ d \in Addressable, ~Sent(s),
                      ~Keeping(s),
                      NEW l \in prev'[StageOf(s)][s], l.fec = <<"ip", d>>, {s, l.via} \in steady
               PROVE  l \in kern'[s]
    BY <1>1, <1>7 DEF RouteInv, Served, Sent, Keeping
  <2>1. StageOf(s) \in Stages \ {"sids"} /\ s \in Node /\ d \in Node
    BY DEF StageOf, Stages, Dest, Node
  <2>2. l \in kern[s]
    <3>1. l \in prev[StageOf(s)][s] /\ s \notin astray
      BY <1>5, <2>1
    <3> QED
      BY <1>0, <3>1 DEF RouteInv
  <2>3. CASE s \in Gnd
    <3>1. s \in Node \ Sat
      BY <2>1, <2>3
    <3> QED
      BY <1>5, <2>2, <3>1
  <2>4. CASE s \notin Gnd
    <3>1. s \in Sat /\ d \notin Gnd
      BY <2>4 DEF Dest
    <3>2. \A k \in lines[s] : k.fec = l.fec => k = l
      BY <1>2, <1>3, <2>1, <3>1, SidLinesFacts
    <3>3. new[s] \in SUBSET LineSet /\ new[s] \subseteq lines[s]
      BY <1>4, <3>1
    <3> QED
      BY <1>0, <1>5, <2>1, <2>2, <3>1, <3>2, <3>3, BatchKeeps
  <2> QED
    BY <2>3, <2>4
<1> QED
  BY <1>6, <1>8, <1>9, <1>10, <1>11 DEF ReachInv

\* The lines of a source are those of its entries and its own one.
SourceTable(n, lines) ==
  /\ OneLineEach(lines)
  /\ \A d \in Dest, l \in lines :
       l.fec = <<"ip", d>> => lfib[n][d] # <<>> /\ l = RouteLine(lfib[n][d])
  /\ \A m \in Node, l \in lines : l.fec = <<"mpls", m>> => m = n
  /\ \A d \in Dest : lfib[n][d] # <<>> => /\ RouteLine(lfib[n][d]) \in lines
                                         /\ RouteLine(lfib[n][d]).fec = <<"ip", d>>
                                         /\ RouteLine(lfib[n][d]).via = lfib[n][d][2]

LEMMA StationLines ==
  ASSUME PathInv, NEW n \in Dest, NEW lines, lines = RouteLines(n, lfib[n])
  PROVE  SourceTable(n, lines)
<1> DEFINE entries == lfib[n]
<1>1. Routes(n, entries) /\ lines = RouteLines(n, entries)
  BY DEF PathInv
<1> HIDE DEF entries
<1>2. /\ OneLineEach(lines)
      /\ \A d \in Dest, l \in lines :
           l.fec = <<"ip", d>> => entries[d] # <<>> /\ l = RouteLine(entries[d])
      /\ \A m \in Node, l \in lines : l.fec = <<"mpls", m>> => m = n
  BY <1>1, RouteLinesFacts
<1>3. \A d \in Dest : entries[d] # <<>> => /\ RouteLine(entries[d]) \in lines
                                           /\ RouteLine(entries[d]).fec = <<"ip", d>>
                                           /\ RouteLine(entries[d]).via = entries[d][2]
  <2> SUFFICES ASSUME NEW d \in Dest, entries[d] # <<>>
               PROVE  /\ RouteLine(entries[d]) \in lines
                      /\ RouteLine(entries[d]).fec = <<"ip", d>>
                      /\ RouteLine(entries[d]).via = entries[d][2]
    OBVIOUS
  <2> QED
    BY <1>1, RouteLineFields DEF Routes, RouteLines
<1> QED
  BY <1>2, <1>3 DEF entries, SourceTable

\* The satellites get the lines of their entries; no call has one for its source.
LEMMA SatellitesReach ==
  ASSUME BaseInv, ReachInv, ApplySatellites
  PROVE  ReachInv'
<1> DEFINE lines == RouteTables(Addressable)
           new == Changed("sats", lines)
<1>0. /\ Types /\ KernInv /\ LocalInv /\ PathInv
      /\ InputInv /\ IdleInv /\ LabelInv /\ RouteInv /\ CustomInv /\ MeetInv
  BY DEF BaseInv, ReachInv
<1>1. /\ Batches("sats", Addressable, lines, new) /\ pc = "sats" /\ pc' = "idle"
      /\ UNCHANGED <<localVars, raced>>
      /\ "sats" \in Stages /\ Addressable \in SUBSET Dest /\ Addressable \in SUBSET Node
      /\ \A s \in Dest : s \in Addressable <=> StageOf(s) = "sats"
  BY DEF ApplySatellites, RouteTables, Stages, Dest, Node, StageOf
<1>2. /\ lines \in [Addressable -> SUBSET LineSet]
      /\ \A n \in Addressable : lines[n] = RouteLines(n, lfib[n]) /\ OneLineEach(lines[n])
  BY <1>0, <1>1, RouteTablesFacts
<1> HIDE DEF lines
<1>3. /\ new \in [Addressable -> SUBSET LineSet]
      /\ \A n \in Addressable :
           /\ lines[n] \in SUBSET LineSet /\ new[n] \in SUBSET LineSet
           /\ new[n] \subseteq lines[n] /\ new[n] = lines[n] \ prev["sats"][n]
           /\ SourceTable(n, lines[n])
  <2>1. new \in [Addressable -> SUBSET LineSet]
    BY <1>2, ChangedFacts
  <2>2. \A n \in Addressable : new[n] \subseteq lines[n] /\ new[n] = lines[n] \ prev["sats"][n]
    BY <1>2, ChangedFacts
  <2>3. ASSUME NEW n \in Addressable PROVE SourceTable(n, lines[n])
    <3>1. n \in Dest /\ lines[n] = RouteLines(n, lfib[n])
      BY <1>1, <1>2
    <3> QED
      BY <1>0, <3>1, StationLines
  <2> HIDE DEF new
  <2> QED
    BY <1>2, <2>1, <2>2, <2>3
<1> HIDE DEF new
<1>4. /\ missed \subseteq missed' /\ astray \subseteq astray'
      /\ UNCHANGED <<netVars, initiated, manager, custom, lfib, input, steady>>
      /\ \A n \in Addressable : \/ Ran("sats", n, lines, new) \/ NotRun("sats", n)
                                \/ RanAstray("sats", n, new)
      /\ \A n \in Node \ Addressable : kern'[n] = kern[n] /\ prev'["sats"][n] = prev["sats"][n]
      /\ \A t \in Stages \ {"sats"} : prev'[t] = prev[t]
  BY <1>0, <1>1, <1>2, <1>3, BatchOutcome
<1>5. UNCHANGED <<graph, status, custom, lfib, steady, initiated, seen, taken, call, raced, links>>
  BY <1>1, <1>4 DEF netVars, links, localVars
<1>6. InputInv' /\ IdleInv' /\ CustomInv'
  <2>1. InputInv' /\ IdleInv'
    BY <1>0, <1>4, <1>5 DEF InputInv, IdleInv
  <2>2. pc # "build" /\ \A s : Busy(s)' <=> Busy(s)
    BY <1>1, <1>5 DEF Busy
  <2>3. CustomInv'
    BY <1>0, <1>5, <2>2 DEF CustomInv
  <2> QED
    BY <2>1, <2>3
<1>7. MeetInv'
  <2>1. call.at # "none" => call.source \in Node \ Addressable
    BY <1>0 DEF LocalInv, Node
  <2>2. CallInv'
    BY <1>0, <1>4, <1>5, <2>1, CallStays DEF MeetInv
  <2> QED
    BY <1>0, <1>1, <1>5, <2>2 DEF MeetInv, RacedInv, SeenInv, TakenInv
<1>8. LabelInv'
  <2> SUFFICES ASSUME NEW n \in Sat, NEW m \in Node, {n, m} \in steady
               PROVE  /\ ForwardLine(m) \in prev'["sids"][n] => ForwardLine(m) \in kern'[n]
                      /\ initiated /\ n \notin missed' => ForwardLine(m) \in kern'[n]
    BY <1>4 DEF LabelInv
  <2>1. n \in Node /\ prev'["sids"] = prev["sids"]
    BY <1>4 DEF Node, Stages
  <2>2. ForwardLine(m) \in kern[n] => ForwardLine(m) \in kern'[n]
    <3>1. CASE n \in Addressable
      <4>1. n # m
        BY <1>0, SteadyLink
      <4>2. \A k \in lines[n] : k.fec = ForwardLine(m).fec => k = ForwardLine(m)
        BY <1>3, <3>1, <4>1, ForwardLineFields DEF SourceTable
      <4> QED
        BY <1>0, <1>3, <1>4, <2>1, <3>1, <4>2, BatchKeeps
    <3>2. CASE n \notin Addressable
      BY <1>4, <2>1, <3>2
    <3> QED
      BY <3>1, <3>2
  <2> QED
    BY <1>0, <1>1, <1>4, <2>1, <2>2 DEF LabelInv
<1>9. RouteInv'
  <2> SUFFICES ASSUME NEW s \in Dest, NEW d \in Dest,
                      s \notin astray', s \notin raced, s \in Gnd \/ d \in Addressable
               PROVE  /\ ~Sent(s) => \A l \in prev'[StageOf(s)][s] :
                           l.fec = <<"ip", d>> /\ {s, l.via} \in steady => l \in kern'[s]
                      /\ LET p == lfib[s][d]
                         IN /\ ~Busy(s) /\ initiated /\ s \notin missed'
                            /\ p # <<>> /\ {s, p[2]} \in steady
                            => RouteLine(p) \in kern'[s]
    BY <1>5 DEF RouteInv, Sent, Busy
  <2>1. /\ StageOf(s) \in Stages /\ s \in Node /\ s \notin astray /\ (~Busy(s) => ~Sent(s))
        /\ ~Keeping(s)
    BY <1>1, <1>4 DEF StageOf, Stages, Dest, Node, Sent, Busy, Keeping
  <2>2. /\ ~Sent(s) => \A l \in prev[StageOf(s)][s] :
             l.fec = <<"ip", d>> /\ {s, l.via} \in steady => l \in kern[s]
        /\ LET p == lfib[s][d]
           IN ~Busy(s) /\ initiated /\ Served(s) /\ s \notin missed /\ p # <<>>
                /\ {s, p[2]} \in steady => RouteLine(p) \in kern[s]
    BY <1>0, <2>1 DEF RouteInv
  <2>3. CASE s \notin Addressable
    <3>1. kern'[s] = kern[s] /\ prev'[StageOf(s)][s] = prev[StageOf(s)][s]
      BY <1>4, <2>1, <2>3
    <3>2. Served(s)
      BY <1>1, <2>3 DEF Served, Dest
    <3> QED
      BY <1>4, <2>2, <3>1, <3>2
  <2>4. CASE s \in Addressable
    <3>1. StageOf(s) = "sats" /\ \A v : {s, v} \in steady => {s, v} \in links
      BY <1>0, <1>1, <2>4, SteadyLink
    <3>2. /\ lines[s] \in SUBSET LineSet /\ OneLineEach(lines[s])
          /\ new[s] = lines[s] \ prev["sats"][s]
      BY <1>3, <2>4 DEF SourceTable
    <3>3. CASE Ran("sats", s, lines, new)
      <4>1. ASSUME ~Sent(s), NEW l \in prev'["sats"][s], l.fec = <<"ip", d>>, {s, l.via} \in steady
            PROVE  l \in kern'[s]
        BY <1>0, <2>1, <2>2, <3>1, <3>2, <3>3, <4>1, BatchSent
      <4>2. ASSUME ~Sent(s), lfib[s][d] # <<>>, {s, lfib[s][d][2]} \in steady
            PROVE  RouteLine(lfib[s][d]) \in kern'[s]
        <5> DEFINE l == RouteLine(lfib[s][d])
        <5>1. l \in lines[s] /\ l.fec = <<"ip", d>> /\ {s, l.via} \in steady
          <6>1. SourceTable(s, lines[s])
            BY <1>3, <2>4
          <6>2. l \in lines[s] /\ l.fec = <<"ip", d>> /\ l.via = lfib[s][d][2]
            BY <4>2, <6>1 DEF SourceTable
          <6> QED
            BY <4>2, <6>2
        <5> HIDE DEF l
        <5>2. l \in prev["sats"][s] => l \in kern[s]
          BY <2>2, <3>1, <4>2, <5>1
        <5>3. {s, l.via} \in links
          BY <3>1, <5>1
        <5>4. l \in kern'[s]
          BY <1>0, <2>1, <3>2, <3>3, <5>1, <5>2, <5>3, BatchSends
        <5> QED
          BY <5>4 DEF l
      <4> QED
        BY <2>1, <3>1, <4>1, <4>2
    <3>4. CASE NotRun("sats", s)
      BY <2>2, <3>1, <3>4 DEF NotRun
    <3>5. CASE RanAstray("sats", s, new)
      BY <3>5 DEF RanAstray
    <3> QED
      BY <1>4, <2>4, <3>3, <3>4, <3>5
  <2> QED
    BY <2>3, <2>4
<1> QED
  BY <1>6, <1>7, <1>8, <1>9 DEF ReachInv

\* The lines of a station reach its kernel, where those that were not sent again are.
LEMMA TableReaches ==
  ASSUME Types, KernInv, NEW n \in Gnd, NEW lines \in SUBSET LineSet, OneLineEach(lines),
         NEW new, new = lines \ prev["gs"][n], InKernel(n, prev["gs"][n]), kern'[n] = Table(n, new),
         UNCHANGED <<steady, links>>
  PROVE  /\ \A l \in lines, d \in Dest :
              l.fec = <<"ip", d>> /\ {n, l.via} \in steady => l \in kern'[n]
         /\ new = {} => \A l \in kern[n] : l \in kern'[n]
<1>1. n \in Node /\ new \in SUBSET LineSet
  BY DEF Node
<1>2. ASSUME NEW l \in lines, NEW d \in Dest, l.fec = <<"ip", d>>, {n, l.via} \in steady
      PROVE  l \in kern'[n]
  <2>1. {n, l.via} \in links
    BY <1>2, SteadyLink
  <2>2. CASE l \in new
    BY <1>1, <2>1, <2>2, TableFacts
  <2>3. CASE l \notin new
    <3>1. l \in kern[n]
      BY <1>2, <2>3 DEF InKernel
    <3>2. \A k \in new : k.fec = l.fec => k = l
      BY DEF OneLineEach
    <3> QED
      BY <1>1, <3>1, <3>2, TableFacts
  <2> QED
    BY <2>2, <2>3
<1>3. new = {} => \A l \in kern[n] : l \in kern'[n]
  BY <1>1, TableFacts
<1> QED
  BY <1>2, <1>3

\* The lines of the stations are sent: until they are remembered, those that met no
\* call have the lines of now, or what was remembered before.
LEMMA SendStationsReach ==
  ASSUME BaseInv, ReachInv, SendStations
  PROVE  ReachInv'
<1> DEFINE new == taken.new
<1>0. /\ Types /\ PathInv /\ KernInv /\ LocalInv
      /\ InputInv /\ IdleInv /\ LabelInv /\ RouteInv /\ CustomInv /\ MeetInv
  BY DEF BaseInv, ReachInv
<1>1. PICK failed \in AtMostOne(Gnd), done \in BOOLEAN :
        /\ Sends(Gnd, new, failed, done)
        /\ taken' = [taken EXCEPT !.sent = {n \in Gnd \ failed : new[n] # {}}]
  BY DEF SendStations, AtMostOne
<1>2. /\ pc = "send" /\ pc' = "keep"
      /\ UNCHANGED <<graph, status, links, initiated, custom, lfib, prev, seen, call, input>>
      /\ UNCHANGED <<steady, raced>>
  BY DEF SendStations, netVars, daemonVars, links
<1>3. /\ Gnd \in SUBSET Node /\ new \in [Gnd -> SUBSET LineSet]
      /\ \A n \in Gnd : taken.lines[n] \in SUBSET LineSet
      /\ taken'.lines = taken.lines /\ taken'.sent = {n \in Gnd \ failed : new[n] # {}}
  BY <1>0, <1>1 DEF LocalInv, Node
<1>4. \A n \in Gnd \ raced : /\ taken.lines[n] = RouteLines(n, lfib[n])
                             /\ new[n] = taken.lines[n] \ prev["gs"][n]
  BY <1>0, <1>2 DEF MeetInv, TakenInv
<1> HIDE DEF new
<1>5. /\ missed \subseteq missed' /\ astray \subseteq astray' /\ failed \subseteq Gnd
      /\ \A n \in Gnd \ failed : kern'[n] = Table(n, new[n])
      /\ \A n \in failed : n \in missed' /\ (n \in astray' \/ kern'[n] = kern[n])
      /\ \A n \in Node \ Gnd : kern'[n] = kern[n]
  BY <1>0, <1>1, <1>3, SendsOutcome
<1>6. /\ \A s : (Busy(s)' <=> Busy(s)) /\ (Sent(s)' <=> Sent(s)) /\ ~Served(s)'
      /\ ~call.alone
  BY <1>0, <1>2 DEF Busy, Sent, Served, LocalInv
<1>7. InputInv' /\ IdleInv' /\ CustomInv'
  BY <1>0, <1>2, <1>6 DEF InputInv, IdleInv, CustomInv
<1>8. LabelInv'
  <2>1. \A n \in Sat : n \in Node /\ kern'[n] = kern[n]
    BY <1>5 DEF Node
  <2> QED
    BY <1>0, <1>2, <1>5, <2>1 DEF LabelInv
<1>9. RouteInv'
  <2> SUFFICES ASSUME NEW s \in Dest, NEW d \in Dest, s \notin Gnd, s \notin astray', s \notin raced,
                      d \in Addressable, ~Sent(s),
                      NEW l \in prev[StageOf(s)][s], l.fec = <<"ip", d>>, {s, l.via} \in steady
               PROVE  l \in kern'[s]
    BY <1>2, <1>6 DEF RouteInv, Keeping
  <2>1. s \in Node \ Gnd /\ ~Keeping(s) /\ s \notin astray
    BY <1>5 DEF Keeping, Dest, Node
  <2>2. l \in kern[s]
    BY <1>0, <2>1 DEF RouteInv
  <2> QED
    BY <1>5, <2>1, <2>2
<1>10. TakenInv'
  <2> SUFFICES ASSUME NEW n \in Gnd \ raced PROVE BatchInv(n)'
    <3>1. \A n \in Gnd : RouteLines(n, lfib[n])' = RouteLines(n, lfib[n])
      BY <1>2
    <3> QED
      BY <1>2, <1>3, <1>4, <3>1 DEF TakenInv
  <2> SUFFICES ASSUME n \notin astray'
               PROVE  /\ n \notin taken'.sent => InKernel(n, prev["gs"][n])'
                      /\ n \in taken'.sent \/ n \notin missed' => InKernel(n, taken.lines[n])'
    BY <1>2, <1>3 DEF BatchInv, InKernel
  <2>1. n \notin astray /\ ~Sent(n) /\ ~Keeping(n) /\ StageOf(n) = "gs" /\ n \in Dest /\ n \in Node
    BY <1>0, <1>2, <1>5, <1>6 DEF MeetInv, RacedInv, Sent, Keeping, StageOf, Dest, Node
  <2>2. InKernel(n, prev["gs"][n])
    BY <1>0, <2>1 DEF RouteInv, InKernel
  <2>3. CASE n \in failed
    <3>1. kern'[n] = kern[n] /\ n \notin taken'.sent /\ n \in missed'
      BY <1>3, <1>5, <2>3
    <3> QED
      BY <1>2, <2>2, <3>1 DEF InKernel
  <2>4. CASE n \notin failed
    <3>1. kern'[n] = Table(n, new[n]) /\ (n \in taken'.sent <=> new[n] # {})
      BY <1>3, <1>5, <2>4
    <3>2. OneLineEach(taken.lines[n])
      BY <1>0 DEF LocalInv
    <3>3. taken.lines[n] \in SUBSET LineSet /\ new[n] = taken.lines[n] \ prev["gs"][n]
      BY <1>3, <1>4
    <3>4. /\ \A l \in taken.lines[n], d \in Dest :
               l.fec = <<"ip", d>> /\ {n, l.via} \in steady => l \in kern'[n]
          /\ new[n] = {} => \A l \in kern[n] : l \in kern'[n]
      BY <1>0, <1>2, <2>2, <3>1, <3>2, <3>3, TableReaches
    <3>5. InKernel(n, taken.lines[n])'
      BY <1>2, <1>3, <3>4 DEF InKernel
    <3>6. n \notin taken'.sent => InKernel(n, prev["gs"][n])'
      BY <1>2, <2>2, <3>1, <3>4 DEF InKernel
    <3> QED
      BY <3>6, <3>5
  <2> QED
    BY <2>3, <2>4
<1>11. MeetInv'
  <2>1. RacedInv' /\ SeenInv' /\ CallInv'
    BY <1>0, <1>2, <1>6 DEF MeetInv, RacedInv, SeenInv, CallInv
  <2> QED
    BY <1>10, <2>1 DEF MeetInv
<1> QED
  BY <1>7, <1>8, <1>9, <1>11 DEF ReachInv

\* What is remembered of the stations is in their kernels, and their routes are, of
\* those that met no call.
LEMMA RememberStationsReach ==
  ASSUME BaseInv, ReachInv, RememberStations
  PROVE  ReachInv'
<1>0. /\ Types /\ PathInv /\ LocalInv
      /\ InputInv /\ IdleInv /\ LabelInv /\ RouteInv /\ CustomInv /\ MeetInv
  BY DEF BaseInv, ReachInv
<1>1. /\ pc = "keep" /\ pc' = "sats" /\ Remembers("gs", taken.sent, taken.lines)
      /\ UNCHANGED <<graph, status, links, initiated, custom, lfib, seen, call, kern, input>>
      /\ UNCHANGED <<steady, missed, astray, raced>>
  BY DEF RememberStations, netVars, histVars, links
<1>2. /\ \A n \in Node : prev'["gs"][n] = IF n \in taken.sent THEN taken.lines[n] ELSE prev["gs"][n]
      /\ \A t \in Stages \ {"gs"} : prev'[t] = prev[t]
  <2> DEFINE ns == taken.sent
             lines == taken.lines
  <2>1. Tables(ns, lines) /\ ns \in SUBSET Node /\ "gs" \in Stages /\ Remembers("gs", ns, lines)
    BY <1>0, <1>1 DEF LocalInv, Node, Stages, Tables
  <2> HIDE DEF ns, lines
  <2>2. /\ \A n \in Node : prev'["gs"][n] = IF n \in ns THEN lines[n] ELSE prev["gs"][n]
        /\ \A t \in Stages \ {"gs"} : prev'[t] = prev[t]
    BY <1>0, <2>1, RemembersOutcome
  <2> QED
    BY <2>2 DEF ns, lines
<1>3. /\ \A s : (Busy(s)' <=> Busy(s)) /\ (Sent(s)' <=> Sent(s))
      /\ ~call.alone
  BY <1>0, <1>1 DEF Busy, Sent, LocalInv
<1>4. InputInv' /\ IdleInv' /\ CustomInv'
  BY <1>0, <1>1, <1>3 DEF InputInv, IdleInv, CustomInv
<1>5. LabelInv'
  <2>1. prev'["sids"] = prev["sids"]
    BY <1>2 DEF Stages
  <2> QED
    BY <1>0, <1>1, <2>1 DEF LabelInv
<1>6. MeetInv'
  BY <1>0, <1>1, <1>3 DEF MeetInv, RacedInv, SeenInv, TakenInv, CallInv
<1>7. RouteInv'
  <2> SUFFICES ASSUME NEW s \in Dest, NEW d \in Dest,
                      s \notin astray, s \notin raced, s \in Gnd \/ d \in Addressable
               PROVE  /\ ~Sent(s) => \A l \in prev'[StageOf(s)][s] :
                           l.fec = <<"ip", d>> /\ {s, l.via} \in steady => l \in kern[s]
                      /\ LET p == lfib[s][d]
                         IN /\ s \in Gnd /\ s \notin missed /\ p # <<>> /\ {s, p[2]} \in steady
                            => RouteLine(p) \in kern[s]
    BY <1>1, <1>3 DEF RouteInv, Served
  <2>1. s \in Node
    BY DEF Dest, Node
  <2>2. CASE s \notin Gnd
    <3>1. prev'[StageOf(s)] = prev[StageOf(s)] /\ ~Keeping(s)
      BY <1>2, <2>2 DEF StageOf, Stages, Keeping
    <3> QED
      BY <1>0, <2>2, <3>1 DEF RouteInv
  <2>3. CASE s \in Gnd
    <3>1. /\ BatchInv(s) /\ taken.lines[s] = RouteLines(s, lfib[s]) /\ StageOf(s) = "gs"
      BY <1>0, <1>1, <2>3 DEF MeetInv, TakenInv, StageOf
    <3>2. InKernel(s, prev'["gs"][s])
      BY <1>2, <2>1, <3>1 DEF BatchInv
    <3>3. s \notin missed => InKernel(s, taken.lines[s])
      BY <3>1 DEF BatchInv
    <3>4. ASSUME lfib[s][d] # <<>>
          PROVE  /\ RouteLine(lfib[s][d]) \in taken.lines[s]
                 /\ RouteLine(lfib[s][d]).fec = <<"ip", d>>
                 /\ RouteLine(lfib[s][d]).via = lfib[s][d][2]
      <4>1. SourceTable(s, taken.lines[s])
        BY <1>0, <3>1, StationLines
      <4> QED
        BY <3>4, <4>1 DEF SourceTable
    <3>5. ASSUME s \notin missed, lfib[s][d] # <<>>, {s, lfib[s][d][2]} \in steady
          PROVE  RouteLine(lfib[s][d]) \in kern[s]
      BY <3>3, <3>4, <3>5 DEF InKernel
    <3> QED
      BY <3>1, <3>2, <3>5 DEF InKernel
  <2> QED
    BY <2>2, <2>3
<1> QED
  BY <1>4, <1>5, <1>6, <1>7 DEF ReachInv

\* A custom path whose first hop has an interface is the entry of its pair.
LEMMA EntryIsCustom ==
  ASSUME NEW s, NEW d, NEW cust, NEW path, NEW ls, <<s, d>> \in DOMAIN cust, s # d,
         Len(cust[<<s, d>>]) >= 2, {s, cust[<<s, d>>][2]} \in ls
  PROVE  Entry(s, d, cust, path, ls) = cust[<<s, d>>]
BY DEF Entry

\* The entries are computed with the custom paths of now, or with those of before,
\* which are the same for a source that met no call.
LEMMA RebuildReach ==
  ASSUME BaseInv, ReachInv, Rebuild
  PROVE  ReachInv'
<1>0. /\ Types /\ PathInv /\ LocalInv
      /\ InputInv /\ IdleInv /\ LabelInv /\ RouteInv /\ CustomInv /\ MeetInv
  BY DEF BaseInv, ReachInv
<1>1. PICK old \in SUBSET Dest :
        lfib' = [s \in Dest |-> IF s \in old THEN Built(seen, graph)[s] ELSE Built(custom, graph)[s]]
  BY DEF Rebuild
<1>2. /\ pc = "build" /\ pc' = IF status THEN "sids" ELSE "idle"
      /\ UNCHANGED <<graph, status, initiated, custom, taken, call, prev, kern, input>>
      /\ UNCHANGED <<steady, missed, astray, raced>>
  BY DEF Rebuild, netVars, histVars
<1>3. InputInv' /\ IdleInv'
  BY <1>0, <1>2 DEF InputInv, IdleInv
<1>4. LabelInv'
  <2> SUFFICES ASSUME NEW n \in Sat, NEW m \in Node, {n, m} \in steady
               PROVE  /\ ForwardLine(m) \in prev["sids"][n] => ForwardLine(m) \in kern[n]
                      /\ pc' = "sids"
    BY <1>2 DEF LabelInv
  <2> QED
    BY <1>0, <1>2 DEF LabelInv, IdleInv
<1>5. RouteInv'
  <2> SUFFICES ASSUME NEW s \in Dest, NEW d \in Dest,
                      s \notin astray, s \notin raced, s \in Gnd \/ d \in Addressable
               PROVE  /\ ~Sent(s) => \A l \in prev[StageOf(s)][s] :
                           l.fec = <<"ip", d>> /\ {s, l.via} \in steady => l \in kern[s]
                      /\ \A v : {s, v} \in steady => ~Served(s)'
    BY <1>2 DEF RouteInv, Sent
  <2>1. \A v : {s, v} \in steady => ~Served(s)'
    BY <1>0, <1>2 DEF IdleInv, Served
  <2>2. ~Keeping(s)
    BY <1>2 DEF Keeping
  <2> QED
    BY <1>0, <2>1, <2>2 DEF RouteInv
<1>6. CustomInv'
  <2> SUFFICES ASSUME NEW q \in DOMAIN custom, q[1] \in Gnd \ raced, q[2] \in Gnd,
                      {q[1], custom[q][2]} \in steady
               PROVE  lfib'[q[1]][q[2]] = custom[q]
    BY <1>2 DEF CustomInv
  <2> DEFINE s == q[1]
             d == q[2]
  <2>1. PICK p \in CustomPaths : custom[q] = p /\ q = <<p[1], p[Len(p)]>>
    BY <1>0 DEF PathInv, CustomPaired
  <2>2. /\ q = <<s, d>> /\ s # d /\ Len(custom[q]) >= 2 /\ {s, custom[q][2]} \in graph.links
        /\ s \in Dest /\ d \in Dest
    BY <1>0, <2>1, SteadyLink DEF links, Dest
  <2>3. q \in DOMAIN seen /\ seen[q] = custom[q]
    BY <1>0, <1>2 DEF MeetInv, SeenInv
  <2>4. /\ Entry(s, d, custom, ShortestPath[graph][s][d], graph.links) = custom[q]
        /\ Entry(s, d, seen, ShortestPath[graph][s][d], graph.links) = custom[q]
    <3>1. /\ <<s, d>> \in DOMAIN custom /\ custom[<<s, d>>] = custom[q]
          /\ <<s, d>> \in DOMAIN seen /\ seen[<<s, d>>] = custom[q]
      BY <2>2, <2>3
    <3> HIDE DEF s, d
    <3>2. Entry(s, d, custom, ShortestPath[graph][s][d], graph.links) = custom[q]
      BY <2>2, <3>1, EntryIsCustom
    <3>3. Entry(s, d, seen, ShortestPath[graph][s][d], graph.links) = custom[q]
      BY <2>2, <3>1, EntryIsCustom
    <3> QED
      BY <3>2, <3>3
  <2>5. Built(custom, graph)[s][d] = custom[q] /\ Built(seen, graph)[s][d] = custom[q]
    BY <2>2, <2>4 DEF Built
  <2>6. lfib'[s] = Built(seen, graph)[s] \/ lfib'[s] = Built(custom, graph)[s]
    BY <1>1, <2>2
  <2> QED
    BY <2>5, <2>6
<1>7. MeetInv'
  <2>1. ~call.alone
    BY <1>0, <1>2 DEF LocalInv
  <2> QED
    BY <1>0, <1>2, <2>1 DEF MeetInv, RacedInv, SeenInv, TakenInv, CallInv
<1> QED
  BY <1>3, <1>4, <1>5, <1>6, <1>7 DEF ReachInv

\* A call that is under way when a pass takes the lines of the stations meets it.
LEMMA TakeReach ==
  ASSUME BaseInv, ReachInv, TakeRoutes
  PROVE  ReachInv'
<1>0. /\ Types /\ PathInv /\ LocalInv
      /\ InputInv /\ IdleInv /\ LabelInv /\ RouteInv /\ CustomInv /\ MeetInv
  BY DEF BaseInv, ReachInv
<1> DEFINE lines == RouteTables(Gnd)
           new == Changed("gs", lines)
<1>1. /\ pc = "gs" /\ pc' = "send" /\ taken' = [lines |-> lines, new |-> new, sent |-> {}]
      /\ call' = [call EXCEPT !.alone = FALSE]
      /\ raced' = raced \cup {s \in Gnd : Busy(s)}
      /\ UNCHANGED <<graph, status, initiated, custom, lfib, prev, seen, kern, input>>
      /\ UNCHANGED <<steady, missed, astray>>
  BY DEF TakeRoutes, RouteTables, Overlap, netVars, daemonVars
<1>2. \A n \in Gnd : lines[n] = RouteLines(n, lfib[n]) /\ new[n] = lines[n] \ prev["gs"][n]
  <2>1. Gnd \in SUBSET Dest
    BY DEF Dest
  <2>2. /\ lines \in [Gnd -> SUBSET LineSet] /\ \A n \in Gnd : OneLineEach(lines[n])
        /\ \A n \in Gnd : lines[n] = RouteLines(n, lfib[n])
    BY <1>0, <2>1, RouteTablesFacts
  <2> HIDE DEF lines
  <2> QED
    BY <2>2, ChangedFacts
<1> HIDE DEF lines, new
<1>3. InputInv' /\ IdleInv'
  BY <1>0, <1>1 DEF InputInv, IdleInv
<1>4. LabelInv'
  BY <1>0, <1>1 DEF LabelInv
<1>5. /\ \A s : Busy(s)' <=> Busy(s)
      /\ \A s : Sent(s)' <=> Sent(s)
      /\ call'.at = call.at /\ call'.source = call.source /\ call'.alone = FALSE
  BY <1>0, <1>1 DEF Busy, Sent, LocalInv
<1>6. RouteInv'
  BY <1>0, <1>1, <1>5 DEF RouteInv, Served, Keeping
<1>7. CustomInv'
  BY <1>0, <1>1, <1>5 DEF CustomInv
<1>8. MeetInv'
  <2>1. RacedInv'
    BY <1>0, <1>1, <1>5 DEF RacedInv, Busy, LocalInv
  <2>2. TakenInv'
    BY <1>1, <1>2 DEF TakenInv
  <2> QED
    BY <1>1, <1>5, <2>1, <2>2 DEF MeetInv, SeenInv, CallInv
<1> QED
  BY <1>3, <1>4, <1>6, <1>7, <1>8 DEF ReachInv

\* A call that stores its custom path meets a pass that computes or installs, and
\* has the entries of now otherwise.
LEMMA CustomReach ==
  ASSUME BaseInv, ReachInv, NEW s, NEW cust, CustomPaired(cust), ApplyCustom(s, cust),
         \A q \in DOMAIN cust : q[1] # s => q \in DOMAIN custom /\ cust[q] = custom[q]
  PROVE  ReachInv'
<1>0. /\ Types /\ LocalInv
      /\ InputInv /\ IdleInv /\ LabelInv /\ RouteInv /\ CustomInv /\ MeetInv
  BY DEF BaseInv, ReachInv
<1>1. /\ call.at = "none" /\ custom' = cust
      /\ UNCHANGED <<graph, status, links, initiated, lfib, prev, seen, taken, kern, input>>
      /\ UNCHANGED <<pc, steady, missed, astray>>
      /\ raced' = IF pc \in {"build", "send", "keep"} THEN raced \cup ({s} \cap Gnd) ELSE raced
  BY DEF ApplyCustom, Holding, netVars, links
<1>2. \/ /\ status /\ s \in Gnd
         /\ call' = [at |-> "begun", source |-> s, entries |-> SourceEntries(s, cust),
                     alone |-> pc \notin {"build", "send", "keep"}]
      \/ ~(status /\ s \in Gnd) /\ call' = call
  BY DEF ApplyCustom, Holding
<1>3. InputInv' /\ IdleInv' /\ LabelInv'
  BY <1>0, <1>1 DEF InputInv, IdleInv, LabelInv
<1>4. \A t : ~Busy(t) /\ ~Sent(t) /\ ~Sent(t)'
  BY <1>1, <1>2 DEF Busy, Sent
<1>5. raced \subseteq raced'
  BY <1>1
<1>6. RouteInv'
  BY <1>0, <1>1, <1>4, <1>5 DEF RouteInv, Served, Keeping
<1>7. CustomInv'
  <2> SUFFICES ASSUME NEW q \in DOMAIN cust, q[1] \in Gnd \ raced', q[2] \in Gnd, ~Busy(q[1])',
                      initiated, pc # "build", {q[1], cust[q][2]} \in steady
               PROVE  lfib[q[1]][q[2]] = cust[q]
    BY <1>1 DEF CustomInv
  <2>1. q[1] # s
    <3>1. CASE status /\ s \in Gnd
      BY <1>2, <3>1 DEF Busy
    <3>2. CASE ~(status /\ s \in Gnd)
      BY <1>0, <3>2 DEF IdleInv
    <3> QED
      BY <3>1, <3>2
  <2>2. q \in DOMAIN custom /\ cust[q] = custom[q]
    BY <2>1
  <2>3. q \in DOMAIN custom /\ q[1] \in Gnd \ raced /\ q[2] \in Gnd /\ ~Busy(q[1])
    BY <1>4, <1>5, <2>2
  <2> QED
    BY <1>0, <2>2, <2>3 DEF CustomInv
<1>8. MeetInv'
  <2>1. RacedInv'
    <3>1. CASE call' = call
      BY <1>1, <3>1 DEF RacedInv
    <3>2. CASE call' # call
      <4>1. s \in Gnd /\ call'.source = s /\ call'.alone = (pc \notin {"build", "send", "keep"})
        BY <1>2, <3>2
      <4>2. ~call'.alone => call'.source \in raced'
        BY <1>1, <4>1
      <4> QED
        BY <4>2 DEF RacedInv
    <3> QED
      BY <3>1, <3>2
  <2>2. SeenInv'
    <3> SUFFICES ASSUME pc = "build", NEW q \in DOMAIN cust, q[1] \in Gnd \ raced'
                 PROVE  q \in DOMAIN seen /\ seen[q] = cust[q]
      BY <1>1 DEF SeenInv
    <3>1. q[1] # s /\ q[1] \in Gnd \ raced
      BY <1>1
    <3> QED
      BY <1>0, <3>1 DEF MeetInv, SeenInv
  <2>3. TakenInv'
    BY <1>0, <1>1, <1>5 DEF MeetInv, TakenInv, BatchInv, InKernel
  <2>4. CallInv'
    <3>1. CASE call' = call
      BY <1>1, <3>1 DEF CallInv
    <3>2. CASE call' # call
      <4>1. call'.at = "begun" /\ call'.source = s /\ call'.entries = SourceEntries(s, cust)
        BY <1>2, <3>2
      <4>2. SourceEntries(call.source, custom)' = SourceEntries(s, cust)
        BY <1>1, <4>1 DEF SourceEntries
      <4> QED
        BY <4>1, <4>2 DEF CallInv
    <3> QED
      BY <3>1, <3>2
  <2> QED
    BY <2>1, <2>2, <2>3, <2>4 DEF MeetInv
<1> QED
  BY <1>3, <1>6, <1>7, <1>8 DEF ReachInv

\* At first nothing is believed to be there.
LEMMA InitHasReach == Init => ReachInv
<1> SUFFICES ASSUME Init PROVE ReachInv
  OBVIOUS
<1>1. status = FALSE /\ steady = {} /\ custom = <<>> /\ DOMAIN custom = {} /\ pc = "idle"
  BY DEF Init
<1>2. call.at = "none"
  BY DEF Init, NoCall
<1>3. InputInv /\ IdleInv /\ LabelInv /\ CustomInv
  BY <1>1 DEF InputInv, IdleInv, LabelInv, CustomInv
<1>4. RouteInv
  BY <1>1 DEF RouteInv
<1>5. MeetInv
  BY <1>1, <1>2 DEF MeetInv, RacedInv, SeenInv, TakenInv, CallInv
<1> QED
  BY <1>3, <1>4, <1>5 DEF ReachInv

\* A new daemon believes nothing to be there.
LEMMA InitRoutingReach ==
  ASSUME BaseInv, ReachInv, InitRouting
  PROVE  ReachInv'
<1>1. /\ pc = "idle" /\ call.at = "none" /\ custom' = <<>> /\ prev' = NoPrev
      /\ UNCHANGED <<status, links, call, seen, taken>>
      /\ \/ /\ status /\ input' = [n \in Node |-> Neighbours(n, links)]
            /\ steady' = links /\ pc' = "sids"
         \/ ~status /\ steady' = {} /\ pc' = "idle"
  BY DEF InitRouting, netVars, links, localVars
<1>2. InputInv' /\ IdleInv'
  BY <1>1 DEF InputInv, IdleInv, Neighbours
<1>3. CustomInv'
  BY <1>1 DEF CustomInv
<1>4. \A t \in Stages, n \in Node : prev'[t][n] = {}
  BY <1>1 DEF NoPrev, NoLines
<1>5. LabelInv'
  BY <1>1, <1>4 DEF LabelInv, Stages, Node
<1>6. RouteInv'
  <2>1. \A s \in Dest : prev'[StageOf(s)][s] = {}
    BY <1>4 DEF StageOf, Stages, Dest, Node
  <2> QED
    BY <1>1, <2>1 DEF RouteInv, Served
<1>7. MeetInv'
  BY <1>1 DEF MeetInv, RacedInv, SeenInv, TakenInv, CallInv
<1> QED
  BY <1>2, <1>3, <1>5, <1>6, <1>7 DEF ReachInv

\* The kernel loses the lines of links that are lost, and those are not steady.  The
\* pass meets the call that is under way when it begins, and sees the custom paths.
LEMMA PassReach ==
  ASSUME BaseInv, ReachInv, Pass
  PROVE  ReachInv'
<1>0. /\ Types /\ PathInv /\ LocalInv
      /\ InputInv /\ IdleInv /\ LabelInv /\ RouteInv /\ CustomInv /\ MeetInv
  BY DEF BaseInv, ReachInv
<1>1. /\ pc = "idle" /\ graph' \in Graphs /\ links' = graph'.links
      /\ kern' = [n \in Node |-> {l \in kern[n] : l.via = n \/ {n, l.via} \in links'}]
      /\ input' = [n \in Node |-> {m \in input[n] : {n, m} \in links'}]
      /\ steady' = steady \cap links'
      /\ UNCHANGED <<status, initiated, custom, lfib, prev, astray>>
      /\ \/ initiated /\ pc' = "build" /\ seen' = custom
         \/ ~initiated /\ pc' = "idle"
  BY DEF Pass, links, daemonVars
<1>2. /\ call' = [call EXCEPT !.alone = FALSE]
      /\ raced' = raced \cup {s \in Gnd : Busy(s)}
  BY DEF Pass, Overlap
<1>3. /\ \A s : Busy(s)' <=> Busy(s)
      /\ \A s : Sent(s)' <=> Sent(s)
      /\ call'.at = call.at /\ call'.source = call.source /\ call'.alone = FALSE
  BY <1>0, <1>2 DEF Busy, Sent, LocalInv
<1>4. InputInv' /\ IdleInv'
  BY <1>0, <1>1 DEF InputInv, IdleInv
<1>5. LabelInv'
  <2> SUFFICES ASSUME NEW n \in Sat, NEW m \in Node, {n, m} \in steady'
               PROVE  /\ ForwardLine(m) \in prev["sids"][n] => ForwardLine(m) \in kern'[n]
                      /\ ~(initiated /\ pc' # "build")
    BY <1>1 DEF LabelInv
  <2>1. {n, m} \in steady /\ {n, m} \in links' /\ n \in Node
    BY <1>1 DEF Node
  <2>2. ForwardLine(m) \in kern[n] => ForwardLine(m) \in kern'[n]
    BY <1>1, <2>1, ForwardLineFields
  <2> QED
    BY <1>0, <1>1, <2>1, <2>2 DEF LabelInv
<1>6. RouteInv'
  <2> SUFFICES ASSUME NEW s \in Dest, NEW d \in Dest,
                      s \notin astray, s \notin raced, s \in Gnd \/ d \in Addressable
               PROVE  /\ ~Sent(s) => \A l \in prev[StageOf(s)][s] :
                           l.fec = <<"ip", d>> /\ {s, l.via} \in steady' => l \in kern'[s]
                      /\ ~(initiated /\ Served(s)')
    BY <1>1, <1>2, <1>3 DEF RouteInv
  <2>1. s \in Node /\ ~Keeping(s)
    BY <1>1 DEF Dest, Node, Keeping
  <2>2. ASSUME ~Sent(s), NEW l \in prev[StageOf(s)][s], l.fec = <<"ip", d>>, {s, l.via} \in steady'
        PROVE  l \in kern'[s]
    <3>1. {s, l.via} \in steady /\ {s, l.via} \in links'
      BY <1>1, <2>2
    <3>2. l \in kern[s]
      BY <1>0, <2>1, <2>2, <3>1 DEF RouteInv
    <3> QED
      BY <1>1, <2>1, <3>1, <3>2
  <2>3. ~(initiated /\ Served(s)')
    BY <1>1 DEF Served
  <2> QED
    BY <2>2, <2>3
<1>7. CustomInv'
  BY <1>1 DEF CustomInv
<1>8. MeetInv'
  <2>1. RacedInv'
    BY <1>0, <1>2, <1>3 DEF RacedInv, Busy, LocalInv
  <2>2. SeenInv'
    BY <1>1 DEF SeenInv
  <2>3. TakenInv' /\ CallInv'
    BY <1>1, <1>3 DEF TakenInv, CallInv
  <2> QED
    BY <2>1, <2>2, <2>3 DEF MeetInv
<1> QED
  BY <1>4, <1>5, <1>6, <1>7, <1>8 DEF ReachInv

\* A call that met no pass stored its custom paths.
LEMMA CallCustom ==
  ASSUME Types, PathInv, CallInv, call.at \in {"built", "sent"}, call.alone,
         NEW q \in DOMAIN custom, q[1] = call.source, q[2] \in Gnd, {q[1], custom[q][2]} \in steady
  PROVE  lfib[q[1]][q[2]] = custom[q]
<1> DEFINE s == q[1]
           d == q[2]
<1>1. PICK p \in CustomPaths : custom[q] = p /\ q = <<p[1], p[Len(p)]>>
  BY DEF PathInv, CustomPaired
<1>2. /\ q = <<s, d>> /\ s # d /\ Len(custom[q]) >= 2 /\ {s, custom[q][2]} \in links
      /\ d \in Dest
  BY <1>1, SteadyLink DEF Dest
<1>3. Entry(s, d, custom, ShortestPath[graph][s][d], links) = custom[q]
  BY <1>2, EntryIsCustom
<1>4. lfib[s] = SourceEntries(s, custom)
  BY DEF CallInv
<1>5. SourceEntries(s, custom)[d] = Entry(s, d, custom, ShortestPath[graph][s][d], links)
  BY <1>2 DEF SourceEntries
<1> QED
  BY <1>3, <1>4, <1>5

\* A call stores its entries; nothing relies on those of its source before it ends.
LEMMA StoreReach ==
  ASSUME BaseInv, ReachInv, StoreEntries
  PROVE  ReachInv'
<1>0. /\ Types /\ PathInv /\ LocalInv
      /\ InputInv /\ IdleInv /\ LabelInv /\ RouteInv /\ CustomInv /\ MeetInv
  BY DEF BaseInv, ReachInv
<1> DEFINE s == call.source
<1>1. /\ call.at = "begun" /\ call' = [call EXCEPT !.at = "built"]
      /\ lfib' = [lfib EXCEPT ![s] = call.entries]
      /\ input' = [input EXCEPT ![s] = Neighbours(s, links)]
      /\ UNCHANGED <<graph, status, links, initiated, custom, prev, seen, taken, kern, pc>>
      /\ UNCHANGED <<steady, missed, astray, raced>>
  BY DEF StoreEntries, netVars, histVars, links
<1>2. s \in Gnd /\ s \in Dest /\ s \in Node
  BY <1>1, CallFacts
<1>3. /\ call'.at = "built" /\ call'.source = s /\ call'.entries = call.entries
      /\ call'.alone = call.alone
  BY <1>0, <1>1 DEF LocalInv
<1>4. \A t : (Busy(t)' <=> Busy(t)) /\ (Busy(t) <=> t = s) /\ ~Sent(t) /\ ~Sent(t)'
  BY <1>1, <1>3 DEF Busy, Sent
<1>5. lfib'[s] = call.entries /\ \A t \in Dest \ {s} : lfib'[t] = lfib[t]
  BY <1>0, <1>1, <1>2 DEF Types
<1>6. InputInv'
  <2> SUFFICES ASSUME NEW n \in Node, NEW m \in Node, {n, m} \in steady PROVE m \in input'[n]
    BY <1>1 DEF InputInv
  <2>1. m \in input[n] /\ {n, m} \in links
    BY <1>0, SteadyLink DEF InputInv
  <2>2. m \in Neighbours(n, links)
    BY <2>1 DEF Neighbours
  <2> QED
    BY <1>0, <1>1, <2>1, <2>2 DEF Types
<1>7. IdleInv' /\ LabelInv'
  BY <1>0, <1>1 DEF IdleInv, LabelInv
<1>8. RouteInv'
  <2> SUFFICES ASSUME NEW t \in Dest, NEW d \in Dest,
                      t \notin astray, t \notin raced, t \in Gnd \/ d \in Addressable
               PROVE  /\ ~Keeping(t) => \A l \in prev[StageOf(t)][t] :
                           l.fec = <<"ip", d>> /\ {t, l.via} \in steady => l \in kern[t]
                      /\ LET p == lfib'[t][d]
                         IN /\ t # s /\ initiated /\ Served(t) /\ t \notin missed
                            /\ p # <<>> /\ {t, p[2]} \in steady
                            => RouteLine(p) \in kern[t]
    BY <1>1, <1>4 DEF RouteInv, Served, Keeping
  <2> QED
    BY <1>0, <1>4, <1>5 DEF RouteInv
<1>9. CustomInv'
  <2> SUFFICES ASSUME NEW q \in DOMAIN custom, q[1] \in Gnd \ raced, q[2] \in Gnd, q[1] # s,
                      initiated, pc # "build", {q[1], custom[q][2]} \in steady
               PROVE  lfib'[q[1]][q[2]] = custom[q]
    BY <1>1, <1>4 DEF CustomInv
  <2>1. lfib[q[1]][q[2]] = custom[q]
    BY <1>0, <1>4 DEF CustomInv
  <2> QED
    BY <1>5, <2>1 DEF Dest
<1>10. MeetInv'
  <2>1. RacedInv' /\ SeenInv'
    BY <1>0, <1>1, <1>3 DEF MeetInv, RacedInv, SeenInv
  <2>2. TakenInv'
    <3> SUFFICES ASSUME pc \in {"send", "keep"}, NEW n \in Gnd \ raced
                 PROVE  /\ taken.lines[n] = RouteLines(n, lfib'[n])
                        /\ pc = "send" => taken.new[n] = taken.lines[n] \ prev["gs"][n]
                        /\ pc = "keep" => BatchInv(n)
      BY <1>1 DEF TakenInv, BatchInv, InKernel
    <3>1. ~call.alone
      BY <1>0 DEF LocalInv
    <3>2. s \in raced
      BY <1>0, <1>1, <3>1 DEF MeetInv, RacedInv
    <3>3. n # s /\ n \in Dest
      BY <3>2 DEF Dest
    <3>4. lfib'[n] = lfib[n]
      BY <1>5, <3>3
    <3> QED
      BY <1>0, <3>4 DEF MeetInv, TakenInv
  <2>3. CallInv'
    <3>1. SourceEntries(call.source, custom)' = SourceEntries(s, custom)
      BY <1>1, <1>3 DEF SourceEntries
    <3>2. call.alone => call.entries = SourceEntries(s, custom)
      BY <1>0, <1>1 DEF MeetInv, CallInv
    <3> QED
      BY <1>3, <1>5, <3>1, <3>2 DEF CallInv
  <2> QED
    BY <2>1, <2>2, <2>3 DEF MeetInv
<1> QED
  BY <1>6, <1>7, <1>8, <1>9, <1>10 DEF ReachInv

\* A call sends its lines: until they are remembered, its source may have them or
\* what was remembered before.
LEMMA SendReach ==
  ASSUME BaseInv, ReachInv, SendLines
  PROVE  ReachInv'
<1>0. /\ Types /\ PathInv /\ KernInv /\ LocalInv
      /\ InputInv /\ IdleInv /\ LabelInv /\ RouteInv /\ CustomInv /\ MeetInv
  BY DEF BaseInv, ReachInv
<1> DEFINE s == call.source
           lines == RouteLines(s, call.entries)
<1>1. /\ call.at = "built"
      /\ UNCHANGED <<graph, status, links, initiated, custom, lfib, prev, seen, taken, input, pc>>
      /\ UNCHANGED <<steady, raced>>
  BY DEF SendLines, netVars, daemonVars, links
<1>2. \/ /\ call' = [call EXCEPT !.at = "sent"] /\ kern' = [kern EXCEPT ![s] = Table(s, lines)]
         /\ UNCHANGED <<missed, astray>>
      \/ /\ call' = NoCall /\ missed' = missed \cup {s}
         /\ \/ UNCHANGED <<kern, astray>>
            \/ kern' = [kern EXCEPT ![s] = Table(s, lines)] /\ astray' = astray \cup {s}
  BY DEF SendLines, Table
<1>3. /\ s \in Gnd /\ s \in Dest /\ s \in Node
      /\ lines \in SUBSET LineSet /\ OneLineEach(lines)
  BY <1>1, CallFacts
<1>4. \A t : (Busy(t) <=> t = s) /\ ~Sent(t)
  BY <1>1 DEF Busy, Sent
<1>5. \A t \in Node \ {s} : kern'[t] = kern[t]
  BY <1>0, <1>2 DEF Types
<1>6. \/ /\ call'.at = "sent" /\ call'.source = s /\ call'.entries = call.entries
         /\ call'.alone = call.alone
         /\ \A t : (Busy(t)' <=> t = s) /\ (Sent(t)' <=> t = s)
      \/ /\ call'.at = "none"
         /\ \A t : ~Busy(t)' /\ ~Sent(t)'
         /\ s \in missed' /\ (s \in astray' \/ kern' = kern)
  <2>1. CASE call' = [call EXCEPT !.at = "sent"]
    BY <1>0, <2>1 DEF LocalInv, Busy, Sent
  <2>2. CASE call' = NoCall
    <3>1. call'.at = "none"
      BY <2>2 DEF NoCall
    <3>2. call' # [call EXCEPT !.at = "sent"]
      BY <1>0, <3>1 DEF LocalInv
    <3>3. s \in missed' /\ (s \in astray' \/ kern' = kern)
      BY <1>2, <3>2
    <3> QED
      BY <3>1, <3>3 DEF Busy, Sent
  <2> QED
    BY <1>2, <2>1, <2>2
<1>7. missed \subseteq missed' /\ astray \subseteq astray'
  BY <1>2
<1> HIDE DEF lines
<1>8. InputInv' /\ IdleInv'
  BY <1>0, <1>1 DEF InputInv, IdleInv
<1>9. LabelInv'
  <2>1. \A n \in Sat : n \in Node \ {s}
    BY <1>3 DEF Node
  <2>2. \A n \in Sat : kern'[n] = kern[n]
    BY <1>5, <2>1
  <2> QED
    BY <1>0, <1>1, <1>7, <2>2 DEF LabelInv
<1>10. RouteInv'
  <2> SUFFICES ASSUME NEW t \in Dest, NEW d \in Dest,
                      t \notin astray', t \notin raced, t \in Gnd \/ d \in Addressable
               PROVE  /\ ~Sent(t)' /\ ~Keeping(t) => \A l \in prev[StageOf(t)][t] :
                           l.fec = <<"ip", d>> /\ {t, l.via} \in steady => l \in kern'[t]
                      /\ LET p == lfib[t][d]
                         IN /\ ~Busy(t)' /\ initiated /\ Served(t) /\ t \notin missed'
                            /\ p # <<>> /\ {t, p[2]} \in steady
                            => RouteLine(p) \in kern'[t]
    BY <1>1 DEF RouteInv, Served, Keeping
  <2>1. /\ ~Keeping(t) => \A l \in prev[StageOf(t)][t] :
             l.fec = <<"ip", d>> /\ {t, l.via} \in steady => l \in kern[t]
        /\ LET p == lfib[t][d]
           IN /\ ~Busy(t) /\ initiated /\ Served(t) /\ t \notin missed
              /\ p # <<>> /\ {t, p[2]} \in steady
              => RouteLine(p) \in kern[t]
    BY <1>0, <1>4, <1>7 DEF RouteInv
  <2>2. CASE t = s
    BY <1>6, <2>1, <2>2
  <2>3. CASE t # s
    <3>1. kern'[t] = kern[t] /\ ~Busy(t)
      BY <1>4, <1>5, <2>3 DEF Dest, Node
    <3> QED
      BY <1>7, <2>1, <3>1
  <2> QED
    BY <2>2, <2>3
<1>11. CustomInv'
  <2> SUFFICES ASSUME NEW q \in DOMAIN custom, q[1] \in Gnd \ raced, q[2] \in Gnd,
                      initiated, pc # "build", {q[1], custom[q][2]} \in steady
               PROVE  lfib[q[1]][q[2]] = custom[q]
    BY <1>1 DEF CustomInv
  <2>1. CASE q[1] = s
    <3>1. call.alone
      BY <1>0, <1>1, <2>1 DEF MeetInv, RacedInv
    <3> QED
      BY <1>0, <1>1, <2>1, <3>1, CallCustom DEF MeetInv
  <2>2. CASE q[1] # s
    BY <1>0, <1>4, <2>2 DEF CustomInv
  <2> QED
    BY <2>1, <2>2
<1>12. MeetInv'
  <2>1. RacedInv' /\ SeenInv'
    BY <1>0, <1>1, <1>6 DEF MeetInv, RacedInv, SeenInv
  <2>3. TakenInv'
    <3> SUFFICES ASSUME pc \in {"send", "keep"}, NEW n \in Gnd \ raced
                 PROVE  /\ taken.lines[n] = RouteLines(n, lfib[n])
                        /\ pc = "send" => taken.new[n] = taken.lines[n] \ prev["gs"][n]
                        /\ pc = "keep" => BatchInv(n)'
      BY <1>1 DEF TakenInv
    <3>1. s \in raced
      BY <1>0, <1>1 DEF LocalInv, MeetInv, RacedInv
    <3>2. n # s /\ kern'[n] = kern[n]
      BY <1>5, <3>1 DEF Node
    <3> QED
      BY <1>0, <1>1, <1>7, <3>2 DEF MeetInv, TakenInv, BatchInv, InKernel
  <2>2. CallInv'
    <3>1. CASE call'.at = "none"
      BY <3>1 DEF CallInv
    <3>2. CASE call'.at # "none"
      <4>1. /\ call'.at = "sent" /\ call'.source = s /\ call'.entries = call.entries
            /\ call'.alone = call.alone
        BY <1>6, <3>2
      <4>2. kern'[s] = Table(s, lines)
        <5>1. kern' = [kern EXCEPT ![s] = Table(s, lines)]
          BY <1>2, <4>1 DEF NoCall
        <5> QED
          BY <1>0, <1>3, <5>1 DEF Types
      <4>3. \A l \in lines : {s, l.via} \in steady => l \in kern'[s]
        <5>1. \A l \in lines : {s, l.via} \in steady => {s, l.via} \in links
          BY <1>0 DEF Types
        <5>2. \A l \in lines : {s, l.via} \in links => l \in Table(s, lines)
          BY <1>0, <1>3, TableFacts
        <5> QED
          BY <4>2, <5>1, <5>2
      <4>4. SourceEntries(call.source, custom)' = SourceEntries(s, custom)
        BY <1>1, <4>1 DEF SourceEntries
      <4>5. RouteLines(call.source, call.entries)' = lines
        BY <4>1 DEF lines
      <4>6. call.alone => /\ call.entries = SourceEntries(s, custom) /\ lfib[s] = call.entries
        BY <1>0, <1>1 DEF MeetInv, CallInv
      <4> QED
        BY <1>1, <4>1, <4>3, <4>4, <4>5, <4>6 DEF CallInv
    <3> QED
      BY <3>1, <3>2
  <2> QED
    BY <2>1, <2>2, <2>3 DEF MeetInv
<1> QED
  BY <1>8, <1>9, <1>10, <1>11, <1>12 DEF ReachInv

\* A call that met no pass knows what its source has when it ends.
LEMMA RememberReach ==
  ASSUME BaseInv, ReachInv, RememberLines
  PROVE  ReachInv'
<1>0. /\ Types /\ PathInv /\ LocalInv
      /\ InputInv /\ IdleInv /\ LabelInv /\ RouteInv /\ CustomInv /\ MeetInv
  BY DEF BaseInv, ReachInv
<1> DEFINE s == call.source
           lines == RouteLines(s, call.entries)
<1>1. /\ call.at = "sent" /\ call' = NoCall
      /\ prev' = [prev EXCEPT !["gs"][s] = lines]
      /\ raced' = IF call.alone THEN raced \ {s} ELSE raced
      /\ astray' = IF call.alone THEN astray \ {s} ELSE astray
      /\ UNCHANGED <<graph, status, initiated, custom, lfib, seen, taken, kern, input, pc>>
      /\ UNCHANGED <<steady, missed>>
  BY DEF RememberLines, Remembered, netVars
<1>2. s \in Gnd /\ s \in Dest /\ s \in Node /\ Routes(s, call.entries)
  BY <1>1, CallFacts
<1>3. /\ \A t : (Busy(t) <=> t = s) /\ (Sent(t) <=> t = s) /\ ~Busy(t)' /\ ~Sent(t)'
      /\ call'.at = "none"
  BY <1>1 DEF Busy, Sent, NoCall
<1>4. /\ prev'["gs"][s] = lines
      /\ \A t \in Gnd \ {s} : prev'["gs"][t] = prev["gs"][t]
      /\ \A k \in Stages \ {"gs"} : prev'[k] = prev[k]
  BY <1>0, <1>1, <1>2 DEF Types, Stages, Node
<1>5. s \notin raced' => call.alone
  BY <1>0, <1>1 DEF MeetInv, RacedInv
<1>6. call.alone =>
        /\ lfib[s] = call.entries
        /\ \A l \in lines : {s, l.via} \in steady => l \in kern[s]
  BY <1>0, <1>1 DEF MeetInv, CallInv
<1>7. \A t : t # s => (t \in raced' <=> t \in raced) /\ (t \in astray' <=> t \in astray)
  BY <1>1
<1> HIDE DEF lines
<1>8. InputInv' /\ IdleInv'
  BY <1>0, <1>1 DEF InputInv, IdleInv
<1>9. LabelInv'
  <2>1. prev'["sids"] = prev["sids"]
    BY <1>4 DEF Stages
  <2> QED
    BY <1>0, <1>1, <2>1 DEF LabelInv
<1>10. RouteInv'
  <2> SUFFICES ASSUME NEW t \in Dest, NEW d \in Dest,
                      t \notin astray', t \notin raced', t \in Gnd \/ d \in Addressable
               PROVE  /\ ~Keeping(t) => \A l \in prev'[StageOf(t)][t] :
                           l.fec = <<"ip", d>> /\ {t, l.via} \in steady => l \in kern[t]
                      /\ LET p == lfib[t][d]
                         IN /\ initiated /\ Served(t) /\ t \notin missed
                            /\ p # <<>> /\ {t, p[2]} \in steady
                            => RouteLine(p) \in kern[t]
    BY <1>1, <1>3 DEF RouteInv, Served, Keeping
  <2>1. CASE t = s
    <3>1. /\ lfib[s] = call.entries /\ StageOf(s) = "gs"
          /\ \A l \in lines : {s, l.via} \in steady => l \in kern[s]
      BY <1>2, <1>5, <1>6, <2>1 DEF StageOf
    <3>2. ASSUME lfib[s][d] # <<>>, {s, lfib[s][d][2]} \in steady
          PROVE  RouteLine(lfib[s][d]) \in kern[s]
      <4>1. RouteLine(lfib[s][d]) \in lines
        BY <3>1, <3>2 DEF lines, RouteLines
      <4>2. RouteLine(lfib[s][d]).via = lfib[s][d][2]
        BY DEF RouteLine, Line
      <4> QED
        BY <3>1, <3>2, <4>1, <4>2
    <3> QED
      BY <1>4, <2>1, <3>1, <3>2
  <2>2. CASE t # s
    <3>1. prev'[StageOf(t)][t] = prev[StageOf(t)][t]
      BY <1>4, <2>2 DEF StageOf, Stages
    <3>2. t \notin astray /\ t \notin raced /\ ~Busy(t) /\ ~Sent(t)
      BY <1>3, <1>7, <2>2
    <3> QED
      BY <1>0, <3>1, <3>2 DEF RouteInv
  <2> QED
    BY <2>1, <2>2
<1>11. CustomInv'
  <2> SUFFICES ASSUME NEW q \in DOMAIN custom, q[1] \in Gnd \ raced', q[2] \in Gnd,
                      initiated, pc # "build", {q[1], custom[q][2]} \in steady
               PROVE  lfib[q[1]][q[2]] = custom[q]
    BY <1>1 DEF CustomInv
  <2>1. CASE q[1] = s
    <3>1. call.alone
      BY <1>5, <2>1
    <3> QED
      BY <1>0, <1>1, <2>1, <3>1, CallCustom DEF MeetInv
  <2>2. CASE q[1] # s
    <3>1. q[1] \notin raced /\ ~Busy(q[1])
      BY <1>3, <1>7, <2>2
    <3> QED
      BY <1>0, <3>1 DEF CustomInv
  <2> QED
    BY <2>1, <2>2
<1>12. MeetInv'
  <2>1. RacedInv' /\ CallInv'
    BY <1>3 DEF RacedInv, CallInv
  <2>2. pc \in {"build", "send", "keep"} => ~call.alone /\ raced' = raced /\ s \in raced
    BY <1>0, <1>1 DEF LocalInv, MeetInv, RacedInv
  <2>3. SeenInv'
    BY <1>0, <1>1, <2>2 DEF MeetInv, SeenInv
  <2>4. TakenInv'
    <3> SUFFICES ASSUME pc \in {"send", "keep"}, NEW n \in Gnd \ raced'
                 PROVE  /\ taken.lines[n] = RouteLines(n, lfib[n])
                        /\ pc = "send" => taken.new[n] = taken.lines[n] \ prev'["gs"][n]
                        /\ pc = "keep" => BatchInv(n)'
      BY <1>1 DEF TakenInv
    <3>1. n \in Gnd \ raced /\ n # s
      BY <2>2
    <3>2. prev'["gs"][n] = prev["gs"][n]
      BY <1>4, <3>1
    <3> QED
      BY <1>0, <1>1, <1>7, <3>1, <3>2 DEF MeetInv, TakenInv, BatchInv, InKernel
  <2> QED
    BY <2>1, <2>3, <2>4 DEF MeetInv
<1> QED
  BY <1>8, <1>9, <1>10, <1>11, <1>12 DEF ReachInv

\* When the containers go, no link is steady; a deleted daemon believes nothing.
LEMMA OtherCallsReach ==
  ASSUME BaseInv, ReachInv, DeleteRouting \/ StartGonetem \/ StopGonetem \/ UNCHANGED vars
  PROVE  ReachInv'
<1>0. InputInv /\ IdleInv /\ LabelInv /\ RouteInv /\ CustomInv /\ MeetInv
  BY DEF ReachInv
<1>1. CASE DeleteRouting
  <2>1. /\ custom' = <<>> /\ prev' = NoPrev /\ initiated' = FALSE /\ steady' = {}
        /\ pc = "idle" /\ call.at = "none" /\ UNCHANGED <<status, input, seen, taken, call, pc>>
    BY <1>1 DEF DeleteRouting, netVars, localVars
  <2>2. InputInv' /\ IdleInv' /\ LabelInv' /\ CustomInv'
    BY <1>0, <2>1 DEF InputInv, IdleInv, LabelInv, CustomInv
  <2>3. \A s \in Dest : prev'[StageOf(s)][s] = {}
    BY <2>1 DEF NoPrev, NoLines, StageOf, Stages, Dest, Node
  <2>4. RouteInv'
    BY <2>1, <2>3 DEF RouteInv
  <2>5. MeetInv'
    BY <2>1 DEF MeetInv, RacedInv, SeenInv, TakenInv, CallInv
  <2> QED
    BY <2>2, <2>4, <2>5 DEF ReachInv
<1>2. CASE StartGonetem \/ UNCHANGED vars
  <2>1. /\ status' \/ status' = status
        /\ UNCHANGED <<graph, links, initiated, custom, lfib, prev, kern, input, pc>>
        /\ UNCHANGED <<seen, taken, call, steady, missed, astray, raced>>
    BY <1>2 DEF StartGonetem, daemonVars, histVars, localVars, vars, netVars, links
  <2>2. InputInv' /\ IdleInv' /\ LabelInv'
    BY <1>0, <2>1 DEF InputInv, IdleInv, LabelInv
  <2>3. \A s : (Busy(s)' <=> Busy(s)) /\ (Sent(s)' <=> Sent(s))
    BY <2>1 DEF Busy, Sent
  <2>4. CustomInv'
    BY <1>0, <2>1, <2>3 DEF CustomInv
  <2>5. RouteInv'
    BY <1>0, <2>1, <2>3 DEF RouteInv, Served, Keeping
  <2>6. CallInv'
    <3>1. SourceEntries(call.source, custom)' = SourceEntries(call.source, custom)
      BY <2>1 DEF SourceEntries
    <3> QED
      BY <1>0, <2>1, <3>1 DEF MeetInv, CallInv
  <2>7. RacedInv' /\ SeenInv' /\ TakenInv'
    BY <1>0, <2>1 DEF MeetInv, RacedInv, SeenInv, TakenInv, BatchInv, InKernel
  <2> QED
    BY <2>2, <2>4, <2>5, <2>6, <2>7 DEF ReachInv, MeetInv
<1>3. CASE StopGonetem
  <2>1. steady' = {} /\ pc = "idle" /\ call.at = "none" /\ UNCHANGED <<pc, call>>
    BY <1>3 DEF StopGonetem, localVars
  <2>2. InputInv' /\ IdleInv' /\ LabelInv' /\ CustomInv' /\ RouteInv'
    BY <2>1 DEF InputInv, IdleInv, LabelInv, RouteInv, CustomInv
  <2>3. MeetInv'
    BY <2>1 DEF MeetInv, RacedInv, SeenInv, TakenInv, CallInv
  <2> QED
    BY <2>2, <2>3 DEF ReachInv
<1> QED
  BY <1>1, <1>2, <1>3

\* What the daemon believes to be in the kernels stays there, step by step.
LEMMA NextKeepsReach == BaseInv /\ ReachInv /\ [Next]_vars => ReachInv'
<1> SUFFICES ASSUME BaseInv, ReachInv, [Next]_vars PROVE ReachInv'
  OBVIOUS
<1>1. CASE SetCustomPath \/ ClearCustomPath
  <2>1. CustomPaired(custom)
    BY DEF BaseInv, PathInv
  <2>2. PICK s, cust : /\ CustomPaired(cust) /\ ApplyCustom(s, cust)
                       /\ \A q \in DOMAIN cust :
                              q[1] # s => q \in DOMAIN custom /\ cust[q] = custom[q]
    BY <1>1, <2>1, CustomOutcome
  <2> QED
    BY <2>2, CustomReach
<1>2. CASE Call
  BY <1>2, StoreReach, SendReach, RememberReach DEF Call
<1> QED
  BY <1>1, <1>2, RebuildReach, SidsReach, TakeReach, SendStationsReach, RememberStationsReach,
     SatellitesReach, InitRoutingReach, PassReach, OtherCallsReach
  DEF Next, Daemon, ApplyGroundStations, Calls

-----------------------------------------------------------------------------
(* Packets follow the paths. *)

\* A source has the route, the nodes between have the rules.
LEMMA SteadyPathFollows ==
  ASSUME BaseInv, ReachInv, Settled, NEW s \in Dest, NEW d \in Dest, Known(s),
         lfib[s][d] # <<>>, Hops(lfib[s][d]) \subseteq steady, OverSatellites(lfib[s][d]),
         s \in Gnd \/ d \in Addressable
  PROVE  Follows(lfib[s][d])
<1> DEFINE p == lfib[s][d]
<1>1. IsRoute(s, d, p, AllLinks)
  <2>1. Routes(s, lfib[s])
    BY DEF BaseInv, PathInv
  <2> QED
    BY <2>1 DEF Routes
<1>2. \A i \in 1..(Len(p) - 1) : {p[i], p[i + 1]} \in steady
  BY DEF Hops
<1>3. \A i \in 2..(Len(p) - 1) : p[i] \in Sat
  BY DEF OverSatellites
<1>4. \A n \in Node : OneLineEach(kern[n])
  BY DEF BaseInv, KernInv
<1>5. RouteLine(p) \in kern[s]
  <2>1. initiated /\ Served(s) /\ s \notin missed /\ s \notin astray /\ s \notin raced /\ ~Busy(s)
    BY DEF Settled, Served, Known
  <2>2. {s, p[2]} \in steady
    <3>1. 1 \in 1..(Len(p) - 1) /\ p[1] = s /\ 1 + 1 = 2
      BY <1>1 DEF IsRoute
    <3> HIDE DEF p
    <3> QED
      BY <1>2, <3>1
  <2> QED
    BY <2>1, <2>2 DEF ReachInv, RouteInv
<1> HIDE DEF p
<1>6. p \in Seq(Node) /\ Len(p) >= 2 /\ p[1] = s /\ p[Len(p)] = d /\ s # d
  BY <1>1 DEF IsRoute
<1>7. Lookup(p[1], <<"ip", p[Len(p)]>>) = {RouteLine(p)}
  <2>1. RouteLine(p).fec = <<"ip", d>> /\ OneLineEach(kern[s])
    BY <1>1, <1>4, RouteLineFields DEF Dest, Node
  <2> QED
    BY <1>5, <1>6, <2>1 DEF Lookup, OneLineEach
<1>8. ASSUME NEW i \in 2..(Len(p) - 1)
      PROVE  /\ Lookup(p[i], <<"mpls", p[i + 1]>>) = {ForwardLine(p[i + 1])}
             /\ p[i - 1] \in input[p[i]]
  <2>1. i \in 1..(Len(p) - 1) /\ i - 1 \in 1..(Len(p) - 1) /\ (i - 1) + 1 = i
    BY <1>6
  <2>2. {p[i], p[i + 1]} \in steady /\ {p[i - 1], p[i]} \in steady /\ p[i] \in Sat
    BY <1>2, <1>3, <2>1
  <2>3. p[i + 1] \in Node /\ p[i - 1] \in Node /\ p[i] \in Node
    BY <2>2, SteadyLink DEF BaseInv
  <2>4. ForwardLine(p[i + 1]) \in kern[p[i]]
    BY <2>2, <2>3 DEF ReachInv, LabelInv, Settled
  <2>5. Lookup(p[i], <<"mpls", p[i + 1]>>) = {ForwardLine(p[i + 1])}
    <3> DEFINE l == ForwardLine(p[i + 1])
    <3>1. l.fec = <<"mpls", p[i + 1]>> /\ l \in kern[p[i]] /\ OneLineEach(kern[p[i]])
      BY <1>4, <2>3, <2>4, ForwardLineFields
    <3> HIDE DEF l
    <3>2. Lookup(p[i], l.fec) = {l}
      BY <3>1 DEF Lookup, OneLineEach
    <3> QED
      BY <3>1, <3>2 DEF l
  <2>6. {p[i], p[i - 1]} = {p[i - 1], p[i]}
    OBVIOUS
  <2> QED
    BY <2>2, <2>3, <2>5, <2>6 DEF ReachInv, InputInv
<1>9. Follows(p)
  BY <1>6, <1>7, <1>8, RulesDeliver
<1> QED
  BY <1>9 DEF p

\* The inductive invariant of the daemon.
LEMMA ReachAlways == Spec => [](BaseInv /\ ReachInv)
<1>1. Init => BaseInv /\ ReachInv
  BY InitHasBase, InitHasReach
<1>2. BaseInv /\ ReachInv /\ [Next]_vars => BaseInv' /\ ReachInv'
  BY NextKeepsBase, NextKeepsReach
<1> QED
  BY <1>1, <1>2, PTL DEF Spec

\* Between two passes, packets take exactly the path the daemon computed, along
\* links that were up since init(): the lines that were not sent again are still in
\* the kernels, and nothing that was sent later took their place.
THEOREM SteadyPathsCorrect == Spec => []SteadyPathsDeliver
<1>1. BaseInv /\ ReachInv => SteadyPathsDeliver
  BY SteadyPathFollows DEF SteadyPathsDeliver
<1> QED
  BY <1>1, ReachAlways, PTL

\* A custom path is the entry of its pair from the call that sets it until it is
\* cleared, and packets take it, unless the call met a pass that computes its entries
\* or installs those of the stations; it is promised again once a later call for its
\* source met none.
THEOREM CustomPathsCorrect == Spec => []CustomPathsDeliver
<1>1. ASSUME BaseInv, ReachInv, Settled, NEW q \in DOMAIN custom, Known(q[1]),
             q[1] \in Gnd, q[2] \in Gnd, Hops(custom[q]) \subseteq steady, OverSatellites(custom[q])
      PROVE  Follows(custom[q])
  <2>1. PICK p \in CustomPaths : custom[q] = p /\ q = <<p[1], p[Len(p)]>>
    BY <1>1 DEF BaseInv, PathInv, CustomPaired
  <2>2. 1 \in 1..(Len(p) - 1) /\ 1 + 1 = 2
    BY <2>1
  <2>3. {p[1], p[2]} \in steady /\ q[1] = p[1]
    BY <1>1, <2>1, <2>2 DEF Hops
  <2>4. lfib[q[1]][q[2]] = custom[q]
    BY <1>1, <2>1, <2>3 DEF ReachInv, CustomInv, Settled, Known
  <2>5. q[1] \in Dest /\ q[2] \in Dest /\ custom[q] # <<>>
    BY <1>1, <2>1 DEF Dest
  <2> QED
    BY <1>1, <2>4, <2>5, SteadyPathFollows
<1>2. BaseInv /\ ReachInv => CustomPathsDeliver
  BY <1>1 DEF CustomPathsDeliver
<1> QED
  BY <1>2, ReachAlways, PTL

=============================================================================

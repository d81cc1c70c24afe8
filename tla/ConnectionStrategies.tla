------------------------ MODULE ConnectionStrategies ------------------------
(***************************************************************************)
(* The two connection strategies of the project, which decide to which     *)
(* satellites a ground station is linked: the one that prefers the longest *)
(* connection and the one that weighs elevation against the load of the    *)
(* satellite.                                                              *)
(*                                                                         *)
(* Satellites follow one another on the same track, and a station sees     *)
(* them earlier or later than another one.  A pass is a cycle of samples:  *)
(* the elevation above the minimum and the coefficients of the quadratic   *)
(* the strategy derives from position and velocity.  The solution of the   *)
(* quadratic is modelled, the geometry behind the coefficients is not.     *)
(***************************************************************************)
EXTENDS Integers, FiniteSets, Sequences, SequencesExt, FiniteSetsExt

CONSTANTS
  Station,     \* ground stations
  Satellite,   \* satellites
  Pass,        \* the samples of a pass
  MaxLinks,    \* maximum_connected_satellites of the domain
  MaxTime,     \* max_time: the longest estimate
  Zenith,      \* elevation range of the domain, from its minimum to 90 degrees
  Strategies,  \* strategies a behaviour may use
  None         \* no estimate

Period == Len(Pass)

ASSUME PassAssumption ==
  /\ Pass \in Seq([elevation : 0..Zenith, a : Int, b : Int, c : Int])
  /\ Period > 0
ASSUME SatelliteAssumption == IsFiniteSet(Satellite)
ASSUME LimitAssumption == MaxLinks \in Nat \ {0} /\ MaxTime \in Nat \ {0} /\ Zenith \in Nat \ {0}
ASSUME StrategyAssumption == Strategies \subseteq {"longest", "weighted"}

VARIABLES
  strategy,  \* strategy_name of the behaviour
  phase,     \* place of every satellite on its track
  offset,    \* how many samples earlier a station sees it there
  links,     \* GroundToSpaceLinks of every station: their satellites
  todo,      \* stations the current update has not connected yet
  failed     \* an exception ended the last update

vars == <<strategy, phase, offset, links, todo, failed>>

Sky(g, s) == Pass[((phase[s] + offset[g]) % Period) + 1]
Elevation(g, s) == Sky(g, s).elevation

\* get_visible_satellites
Visible(g) == {s \in Satellite : Elevation(g, s) > 0}

-----------------------------------------------------------------------------
(* The time until a x^2 + b x + c, positive while the satellite is above   *)
(* the minimum elevation, reaches zero.                                    *)

Value(q, t) == q.a * t * t + q.b * t + q.c

NoRoot(q) == q.b * q.b - 4 * q.a * q.c < 0

\* Both roots lie in the past: the satellite rises faster and faster.
RootsPast(q) == q.a > 0 /\ q.b > 0

\* The smallest positive root, rounded up, when there is one before MaxTime: with
\* a > 0 it comes before the minimum of the parabola.
SmallestRoot(q) ==
  Min({t \in 1..MaxTime : \/ t = MaxTime \/ Value(q, t) <= 0
                          \/ q.a > 0 /\ 2 * q.a * t + q.b >= 0})

Estimate(q) ==
  IF q.c <= 0 \/ (q.a = 0 /\ q.b = 0) THEN None
  ELSE IF q.a = 0 THEN IF q.b > 0 THEN MaxTime ELSE SmallestRoot(q)
  ELSE IF NoRoot(q) THEN MaxTime
  ELSE IF RootsPast(q) THEN None
  ELSE SmallestRoot(q)

-----------------------------------------------------------------------------
(* The choice of satellites. *)

MaximumConnectedStations == 3

\* Links of the satellite; those of this station are obsolete, but still there.
Load(s) == MapThenSumSet(LAMBDA g : Len(SelectSeq(links[g], LAMBDA x : x = s)), Station)

\* Half the normalised elevation and half the free share of the satellite, times
\* 2 * MaximumConnectedStations * Zenith.
Weight(g, s) ==
  MaximumConnectedStations * Elevation(g, s) + Zenith * (MaximumConnectedStations - Load(s))

Rank(g, s) == IF strategy = "longest" THEN Estimate(Sky(g, s)) ELSE Weight(g, s)

\* None has no order: sorting two or more satellites with one among them raises.
Unsortable(g) ==
  /\ strategy = "longest" /\ Cardinality(Visible(g)) > 1
  /\ \E s \in Visible(g) : Rank(g, s) = None

\* Mutant: the list is sorted the other way round.
Ordered_Ascending(g, order) ==
  \A i, j \in DOMAIN order : i < j => Rank(g, order[i]) <= Rank(g, order[j])

\* Decreasing rank; estimates that round to the same number come in any order.
Ordered(g, order) ==
  \A i, j \in DOMAIN order : i < j => Rank(g, order[i]) >= Rank(g, order[j])

\* Mutant: satellites out of sight are kept, too.
Kept_All(g) == ToSet(links[g])

\* Satellites the station is linked to and still sees: at most MaxLinks of them.
Kept(g) == ToSet(links[g]) \cap Visible(g)

\* Mutant: one satellite more than the domain allows.
Slots_OneMore(g) == MaxLinks + 1 - Cardinality(Kept(g))

Slots(g) == MaxLinks - Cardinality(Kept(g))

\* The kept satellites, then the first ones of the sorted list, which holds all
\* visible satellites: a kept one may come a second time.
Choice(g) ==
  LET kept == SetToSeq(Kept(g))
  IN IF Slots(g) <= 0 THEN {kept}
     ELSE {kept \o SubSeq(order, 1, IF Len(order) < Slots(g) THEN Len(order) ELSE Slots(g)) :
             order \in {o \in SetToSeqs(Visible(g)) : Ordered(g, o)}}

-----------------------------------------------------------------------------
\* Time being relative, one station has no offset.
Init ==
  /\ strategy \in Strategies
  /\ phase \in [Satellite -> 0..(Period - 1)] /\ offset \in [Station -> 0..(Period - 1)]
  /\ \E g \in Station : offset[g] = 0
  /\ links = [g \in Station |-> <<>>] /\ todo = Station /\ failed = FALSE

\* A time step of the simulation manager.
Move ==
  /\ todo = {} /\ todo' = Station /\ failed' = FALSE
  /\ phase' = [s \in Satellite |-> (phase[s] + 1) % Period]
  /\ UNCHANGED <<strategy, offset, links>>

\* compute_ground_object_connection_strategy, and its result in place of the
\* links of the station.
Connect(g) ==
  /\ g \in todo /\ ~(Slots(g) > 0 /\ Unsortable(g))
  /\ \E chosen \in Choice(g) : links' = [links EXCEPT ![g] = chosen]
  /\ todo' = todo \ {g}
  /\ UNCHANGED <<strategy, phase, offset, failed>>

\* The TypeError of the sort ends the update: the other stations keep their links.
Raise(g) ==
  /\ g \in todo /\ Slots(g) > 0 /\ Unsortable(g)
  /\ todo' = {} /\ failed' = TRUE
  /\ UNCHANGED <<strategy, phase, offset, links>>

Next == Move \/ \E g \in Station : Connect(g) \/ Raise(g)

Spec == Init /\ [][Next]_vars

-----------------------------------------------------------------------------
(* Properties. *)

TypeOK ==
  /\ strategy \in Strategies /\ failed \in BOOLEAN /\ todo \subseteq Station
  /\ phase \in [Satellite -> 0..(Period - 1)] /\ offset \in [Station -> 0..(Period - 1)]
  /\ links \in [Station -> Seq(Satellite)]
  /\ \A g \in Station : Len(links[g]) <= MaxLinks

\* "It will keep that connection as long as it is still visible", and what is
\* added to it is the best of the rest: no visible satellite without a link ranks
\* above one that has just got one.
BestOfTheRest ==
  [][\A g \in Station : links'[g] # links[g] =>
       LET old == ToSet(links[g])
           new == ToSet(links'[g])
       IN /\ old \cap Visible(g) \subseteq new
          /\ \A s \in new \ old, u \in Visible(g) \ new : Rank(g, s) >= Rank(g, u)]_vars

\* An update that comes to its end leaves every station linked to satellites it
\* sees, and to one at least whenever it sees one.
LinkedToVisible ==
  todo = {} /\ ~failed => \A g \in Station :
    ToSet(links[g]) \subseteq Visible(g) /\ (Visible(g) # {} => links[g] # <<>>)

\* "If a satellite is getting closer, it is added to the list of considered
\* satellites ... If no satellites are getting closer, it connects the ground object
\* to the best visible satellite": an update never leaves a station that sees
\* satellites without a link.
NeverStranded ==
  todo = {} => \A g \in Station : Visible(g) # {} => links[g] # <<>>
=============================================================================

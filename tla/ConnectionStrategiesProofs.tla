--------------------- MODULE ConnectionStrategiesProofs ---------------------
(* Proofs about ConnectionStrategies, for any stations, finitely many       *)
(* satellites, any samples of a pass and any limit of links.                *)
EXTENDS ConnectionStrategies, FiniteSetTheorems, TLAPS

-----------------------------------------------------------------------------
(* Sequences of the elements of a finite set. *)

\* An ordering of a finite set lists its elements and nothing else.
LEMMA OrderingOfSet ==
  ASSUME NEW S, IsFiniteSet(S), NEW o \in [1..Cardinality(S) -> S], IsInjective(o)
  PROVE  o \in Seq(S) /\ Len(o) = Cardinality(S) /\ ToSet(o) = S
<1> DEFINE n == Cardinality(S)
<1>1. n \in Nat
  BY FS_CardinalityType
<1>2. IsFiniteSet(1..n) /\ Cardinality(1..n) = n
  BY <1>1, FS_Interval
<1>3. o \in Injection(1..n, S)
  BY DEF Injection
<1>4. o \in Surjection(1..n, S)
  BY <1>2, <1>3, FS_Injection
<1>5. o \in Seq(S) /\ Len(o) = n
  BY <1>1
<1>6. ToSet(o) = S
  BY <1>4 DEF ToSet, Surjection
<1> QED
  BY <1>5, <1>6

\* So does the sequence that stands for the set.
LEMMA SequenceOfSet ==
  ASSUME NEW S, IsFiniteSet(S)
  PROVE  SetToSeq(S) \in Seq(S) /\ Len(SetToSeq(S)) = Cardinality(S) /\ ToSet(SetToSeq(S)) = S
<1>1. PICK f \in Bijection(1..Cardinality(S), S) : TRUE
  BY FS_CardinalityType DEF ExistsBijection
<1>2. f \in [1..Cardinality(S) -> S] /\ IsInjective(f)
  BY DEF Bijection, Injection
<1>3. SetToSeq(S) \in [1..Cardinality(S) -> S] /\ IsInjective(SetToSeq(S))
  BY <1>2 DEF SetToSeq
<1> QED
  BY <1>3, OrderingOfSet

\* A sequence has no more different elements than its length.
LEMMA ElementsOfSequence ==
  ASSUME NEW S, NEW q \in Seq(S)
  PROVE  IsFiniteSet(ToSet(q)) /\ Cardinality(ToSet(q)) <= Len(q) /\ ToSet(q) \subseteq S
<1>1. Len(q) \in Nat /\ DOMAIN q = 1..Len(q) /\ q \in [1..Len(q) -> ToSet(q)]
  BY DEF ToSet
<1>2. IsFiniteSet(1..Len(q)) /\ Cardinality(1..Len(q)) = Len(q)
  BY <1>1, FS_Interval
<1>3. q \in Surjection(1..Len(q), ToSet(q))
  BY <1>1 DEF Surjection, ToSet
<1>4. IsFiniteSet(ToSet(q)) /\ Cardinality(ToSet(q)) <= Len(q)
  BY <1>2, <1>3, FS_Surjection
<1>5. ToSet(q) \subseteq S
  BY DEF ToSet
<1> QED
  BY <1>4, <1>5

\* The beginning of a sequence is one, and holds nothing else.
LEMMA BeginningOfSequence ==
  ASSUME NEW S, NEW q \in Seq(S), NEW n \in 0..Len(q)
  PROVE  /\ SubSeq(q, 1, n) \in Seq(S) /\ Len(SubSeq(q, 1, n)) = n
         /\ ToSet(SubSeq(q, 1, n)) = {q[i] : i \in 1..n}
<1>1. SubSeq(q, 1, n) \in Seq(S) /\ Len(SubSeq(q, 1, n)) = n
  OBVIOUS
<1>2. \A i \in 1..n : SubSeq(q, 1, n)[i] = q[i]
  OBVIOUS
<1>3. DOMAIN SubSeq(q, 1, n) = 1..n
  BY <1>1
<1> QED
  BY <1>1, <1>2, <1>3 DEF ToSet

\* Of two sequences, one after the other holds what they hold.
LEMMA OneAfterTheOther ==
  ASSUME NEW S, NEW p \in Seq(S), NEW q \in Seq(S)
  PROVE  /\ p \o q \in Seq(S) /\ Len(p \o q) = Len(p) + Len(q)
         /\ ToSet(p \o q) = ToSet(p) \cup ToSet(q)
<1>1. p \o q \in Seq(S) /\ Len(p \o q) = Len(p) + Len(q)
  OBVIOUS
<1>2. \A i \in 1..Len(p) : (p \o q)[i] = p[i]
  OBVIOUS
<1>3. \A i \in 1..Len(q) : (p \o q)[Len(p) + i] = q[i]
  OBVIOUS
<1>4. ToSet(p) \cup ToSet(q) \subseteq ToSet(p \o q)
  <2>1. \A i \in 1..Len(p) : p[i] \in ToSet(p \o q)
    BY <1>1, <1>2 DEF ToSet
  <2>2. ASSUME NEW i \in 1..Len(q) PROVE q[i] \in ToSet(p \o q)
    <3>1. Len(p) + i \in DOMAIN (p \o q)
      BY <1>1
    <3> QED
      BY <1>3, <3>1 DEF ToSet
  <2>3. ToSet(p) \subseteq ToSet(p \o q)
    BY <2>1 DEF ToSet
  <2>4. ToSet(q) \subseteq ToSet(p \o q)
    BY <2>2 DEF ToSet
  <2> QED
    BY <2>3, <2>4
<1>5. ToSet(p \o q) \subseteq ToSet(p) \cup ToSet(q)
  <2> SUFFICES ASSUME NEW i \in 1..(Len(p) + Len(q))
               PROVE  (p \o q)[i] \in ToSet(p) \cup ToSet(q)
    BY <1>1 DEF ToSet
  <2>1. CASE i <= Len(p)
    BY <2>1, <1>2 DEF ToSet
  <2>2. CASE i > Len(p)
    <3>1. i - Len(p) \in 1..Len(q) /\ i = Len(p) + (i - Len(p))
      BY <2>2
    <3> QED
      BY <1>3, <3>1 DEF ToSet
  <2> QED
    BY <2>1, <2>2
<1> QED
  BY <1>1, <1>4, <1>5

-----------------------------------------------------------------------------
(* What a strategy returns. *)

\* Kept satellites never exceed the limit: slots are what is left of it.
LEMMA KeptAndSlots ==
  ASSUME TypeOK, NEW g \in Station
  PROVE  /\ IsFiniteSet(Kept(g)) /\ Kept(g) \subseteq Visible(g)
         /\ IsFiniteSet(Visible(g)) /\ Visible(g) \subseteq Satellite
         /\ Cardinality(Kept(g)) \in 0..MaxLinks
         /\ Slots(g) = MaxLinks - Cardinality(Kept(g))
<1>1. links[g] \in Seq(Satellite) /\ Len(links[g]) \in Nat /\ Len(links[g]) <= MaxLinks
  BY DEF TypeOK
<1>2. IsFiniteSet(ToSet(links[g])) /\ Cardinality(ToSet(links[g])) <= Len(links[g])
  BY <1>1, ElementsOfSequence
<1>3. Kept(g) \subseteq ToSet(links[g]) /\ Kept(g) \subseteq Visible(g)
  BY DEF Kept
<1>4. IsFiniteSet(Kept(g)) /\ Cardinality(Kept(g)) <= Cardinality(ToSet(links[g]))
  BY <1>2, <1>3, FS_Subset
<1>5. Cardinality(Kept(g)) \in Nat /\ Cardinality(ToSet(links[g])) \in Nat
  BY <1>2, <1>4, FS_CardinalityType
<1>6. IsFiniteSet(Visible(g)) /\ Visible(g) \subseteq Satellite
  BY SatelliteAssumption, FS_Subset DEF Visible
<1>7. Cardinality(Kept(g)) \in 0..MaxLinks
  BY <1>1, <1>2, <1>4, <1>5, LimitAssumption
<1> QED
  BY <1>3, <1>4, <1>6, <1>7 DEF Slots

\* What the station sees of its links stays, nothing out of sight is added, and no
\* visible satellite that is left out ranks above one that is added.
LEMMA ChoiceFacts ==
  ASSUME TypeOK, NEW g \in Station, NEW chosen \in Choice(g)
  PROVE  /\ chosen \in Seq(Satellite) /\ Len(chosen) <= MaxLinks
         /\ Kept(g) \subseteq ToSet(chosen) /\ ToSet(chosen) \subseteq Visible(g)
         /\ Visible(g) # {} => chosen # <<>>
         /\ \A s \in ToSet(chosen) \ Kept(g), u \in Visible(g) \ ToSet(chosen) :
              Rank(g, s) >= Rank(g, u)
<1> DEFINE kept == SetToSeq(Kept(g))
<1>1. /\ IsFiniteSet(Kept(g)) /\ Kept(g) \subseteq Visible(g)
      /\ IsFiniteSet(Visible(g)) /\ Visible(g) \subseteq Satellite
      /\ Cardinality(Kept(g)) \in 0..MaxLinks
      /\ Slots(g) = MaxLinks - Cardinality(Kept(g))
  BY KeptAndSlots
<1>2. MaxLinks \in Nat \ {0}
  BY LimitAssumption
<1>3. kept \in Seq(Kept(g)) /\ Len(kept) = Cardinality(Kept(g)) /\ ToSet(kept) = Kept(g)
  BY <1>1, SequenceOfSet
<1>4. kept \in Seq(Satellite) /\ kept \in Seq(Visible(g))
  BY <1>1, <1>3
<1>5. CASE Slots(g) <= 0
  <2>1. chosen = kept
    BY <1>5 DEF Choice
  <2>2. Len(kept) = MaxLinks
    BY <1>1, <1>2, <1>3, <1>5
  <2>3. chosen # <<>>
    BY <2>1, <2>2, <1>2
  <2> QED
    BY <1>1, <1>2, <1>3, <1>4, <2>1, <2>2, <2>3
<1>6. CASE Slots(g) > 0
  <2>1. PICK order \in SetToSeqs(Visible(g)) :
          /\ Ordered(g, order)
          /\ chosen = kept \o SubSeq(order, 1, IF Len(order) < Slots(g) THEN Len(order) ELSE Slots(g))
    BY <1>1, <1>2, <1>6 DEF Choice
  <2> DEFINE n == IF Len(order) < Slots(g) THEN Len(order) ELSE Slots(g)
  <2> DEFINE best == SubSeq(order, 1, n)
  <2>2. order \in [1..Cardinality(Visible(g)) -> Visible(g)] /\ IsInjective(order)
    BY DEF SetToSeqs, IsInjective
  <2>3. /\ order \in Seq(Visible(g)) /\ Len(order) = Cardinality(Visible(g))
        /\ ToSet(order) = Visible(g)
    BY <1>1, <2>2, OrderingOfSet
  <2>4. n \in 0..Len(order) /\ n <= Slots(g)
    BY <1>1, <1>2, <1>6, <2>3
  <2>5. best \in Seq(Visible(g)) /\ Len(best) = n /\ ToSet(best) = {order[i] : i \in 1..n}
    BY <2>3, <2>4, BeginningOfSequence
  <2>6. chosen = kept \o best
    BY <2>1
  <2>7. Visible(g) # {} => n > 0
    BY <1>1, <1>2, <1>6, <2>3, FS_EmptySet, FS_CardinalityType
  <2> HIDE DEF kept, n, best
  <2>8. /\ chosen \in Seq(Visible(g)) /\ Len(chosen) = Len(kept) + n
        /\ ToSet(chosen) = Kept(g) \cup {order[i] : i \in 1..n}
    <3>1. /\ kept \o best \in Seq(Visible(g)) /\ Len(kept \o best) = Len(kept) + Len(best)
          /\ ToSet(kept \o best) = ToSet(kept) \cup ToSet(best)
      BY <1>4, <2>5, OneAfterTheOther
    <3> QED
      BY <1>3, <2>5, <2>6, <3>1
  <2>9. chosen \in Seq(Satellite) /\ ToSet(chosen) \subseteq Visible(g)
    BY <1>1, <2>8, ElementsOfSequence
  <2>10. Len(chosen) <= MaxLinks
    BY <1>1, <1>2, <1>3, <2>3, <2>4, <2>8
  <2>11. Visible(g) # {} => chosen # <<>>
    BY <1>1, <1>3, <2>3, <2>4, <2>7, <2>8
  <2>12. ASSUME NEW s \in ToSet(chosen) \ Kept(g), NEW u \in Visible(g) \ ToSet(chosen)
         PROVE  Rank(g, s) >= Rank(g, u)
    <3>1. PICK i \in 1..n : s = order[i]
      BY <2>8
    <3>2. PICK j \in DOMAIN order : u = order[j]
      BY <2>3 DEF ToSet
    <3>3. j \notin 1..n
      BY <2>8, <3>2
    <3>4. i \in DOMAIN order /\ i < j
      BY <2>3, <2>4, <3>2, <3>3
    <3> QED
      BY <2>1, <3>1, <3>2, <3>4 DEF Ordered
  <2> QED
    BY <2>8, <2>9, <2>10, <2>11, <2>12
<1> QED
  BY <1>1, <1>2, <1>5, <1>6

-----------------------------------------------------------------------------
(* The invariants. *)

LEMMA PeriodPositive == Period \in Nat /\ Period > 0
  BY PassAssumption DEF Period

\* A strategy never returns more satellites than the domain allows.
THEOREM StrategiesTypeCorrect == Spec => []TypeOK
<1>1. Init => TypeOK
  <2> SUFFICES ASSUME Init PROVE TypeOK
    OBVIOUS
  <2>1. links \in [Station -> Seq(Satellite)] /\ \A g \in Station : Len(links[g]) <= MaxLinks
    BY LimitAssumption DEF Init
  <2> QED
    BY <2>1 DEF Init, TypeOK
<1>2. ASSUME TypeOK, [Next]_vars PROVE TypeOK'
  <2>1. CASE Move
    <3>1. \A s \in Satellite : phase[s] \in 0..(Period - 1)
      BY <1>2 DEF TypeOK
    <3>2. ASSUME NEW k \in 0..(Period - 1) PROVE (k + 1) % Period \in 0..(Period - 1)
      BY PeriodPositive
    <3>3. phase' \in [Satellite -> 0..(Period - 1)]
      BY <2>1, <3>1, <3>2 DEF Move
    <3> QED
      BY <1>2, <2>1, <3>3 DEF Move, TypeOK
  <2>2. ASSUME NEW g \in Station, Connect(g) PROVE TypeOK'
    <3>1. PICK chosen \in Choice(g) : links' = [links EXCEPT ![g] = chosen]
      BY <2>2 DEF Connect
    <3>2. chosen \in Seq(Satellite) /\ Len(chosen) <= MaxLinks
      BY <1>2, ChoiceFacts
    <3>3. /\ links' \in [Station -> Seq(Satellite)]
          /\ \A h \in Station : Len(links'[h]) <= MaxLinks
      BY <1>2, <3>1, <3>2 DEF TypeOK
    <3> QED
      BY <1>2, <2>2, <3>3 DEF Connect, TypeOK
  <2>3. ASSUME NEW g \in Station, Raise(g) PROVE TypeOK'
    BY <1>2, <2>3 DEF Raise, TypeOK
  <2>4. CASE UNCHANGED vars
    BY <1>2, <2>4 DEF vars, TypeOK
  <2> QED
    BY <1>2, <2>1, <2>2, <2>3, <2>4 DEF Next
<1> QED
  BY <1>1, <1>2, PTL DEF Spec

\* LinkedToVisible speaks of the end of an update; while one runs, the stations that
\* it has served already are linked to what they see.
ServedInv ==
  ~failed => \A g \in Station \ todo :
    ToSet(links[g]) \subseteq Visible(g) /\ (Visible(g) # {} => links[g] # <<>>)

\* Satellites move between two updates only: what a station sees stays while the
\* others are served.
LEMMA NextKeepsServed ==
  ASSUME TypeOK, ServedInv, [Next]_vars
  PROVE  ServedInv'
<1>1. CASE Move
  BY <1>1 DEF Move, ServedInv
<1>2. ASSUME NEW g \in Station, Connect(g) PROVE ServedInv'
  <2>1. PICK chosen \in Choice(g) : links' = [links EXCEPT ![g] = chosen]
    BY <1>2 DEF Connect
  <2>2. ToSet(chosen) \subseteq Visible(g) /\ (Visible(g) # {} => chosen # <<>>)
    BY ChoiceFacts
  <2>3. \A h \in Station : Visible(h)' = Visible(h)
    BY <1>2 DEF Connect, Visible, Elevation, Sky
  <2>4. failed' = failed /\ todo' = todo \ {g}
    BY <1>2 DEF Connect
  <2> SUFFICES ASSUME ~failed, NEW h \in Station \ todo'
               PROVE  /\ ToSet(links'[h]) \subseteq Visible(h)
                      /\ Visible(h) # {} => links'[h] # <<>>
    BY <2>3, <2>4 DEF ServedInv
  <2>5. CASE h = g
    <3>1. links'[g] = chosen
      BY <2>1 DEF TypeOK
    <3> QED
      BY <2>2, <2>5, <3>1
  <2>6. CASE h # g
    <3>1. links'[h] = links[h] /\ h \notin todo
      BY <2>1, <2>4, <2>6
    <3> QED
      BY <3>1 DEF ServedInv
  <2> QED
    BY <2>5, <2>6
<1>3. ASSUME NEW g \in Station, Raise(g) PROVE ServedInv'
  BY <1>3 DEF Raise, ServedInv
<1>4. CASE UNCHANGED vars
  BY <1>4 DEF vars, ServedInv, Visible, Elevation, Sky
<1> QED
  BY <1>1, <1>2, <1>3, <1>4 DEF Next

\* After an update that no exception ended, stations are linked to satellites they
\* see, and to one at least whenever they see one.
THEOREM StationsLinked == Spec => []LinkedToVisible
<1>1. Init => ServedInv
  BY DEF Init, ServedInv
<1>2. TypeOK /\ ServedInv /\ [Next]_vars => ServedInv'
  BY NextKeepsServed
<1>3. ServedInv => LinkedToVisible
  BY DEF ServedInv, LinkedToVisible
<1> QED
  BY <1>1, <1>2, <1>3, StrategiesTypeCorrect, PTL DEF Spec

\* No update takes a visible satellite away from a station, and none gives it a
\* satellite while it leaves a better one out.
THEOREM BestOfTheRestCorrect == Spec => BestOfTheRest
<1>1. ASSUME TypeOK, [Next]_vars, NEW g \in Station, links'[g] # links[g]
      PROVE  LET old == ToSet(links[g])
                 new == ToSet(links'[g])
             IN /\ old \cap Visible(g) \subseteq new
                /\ \A s \in new \ old, u \in Visible(g) \ new : Rank(g, s) >= Rank(g, u)
  <2>1. PICK h \in Station : Connect(h)
    BY <1>1 DEF Next, Move, Raise, vars
  <2>2. PICK chosen \in Choice(h) : links' = [links EXCEPT ![h] = chosen]
    BY <2>1 DEF Connect
  <2>3. h = g
    BY <1>1, <2>2
  <2>4. links'[g] = chosen
    BY <1>1, <2>2, <2>3 DEF TypeOK
  <2>5. /\ Kept(g) \subseteq ToSet(chosen) /\ ToSet(chosen) \subseteq Visible(g)
        /\ \A s \in ToSet(chosen) \ Kept(g), u \in Visible(g) \ ToSet(chosen) :
             Rank(g, s) >= Rank(g, u)
    BY <1>1, <2>2, <2>3, ChoiceFacts
  <2> QED
    BY <2>4, <2>5 DEF Kept
<1>2. TypeOK /\ [Next]_vars =>
        [\A g \in Station : links'[g] # links[g] =>
           LET old == ToSet(links[g])
               new == ToSet(links'[g])
           IN /\ old \cap Visible(g) \subseteq new
              /\ \A s \in new \ old, u \in Visible(g) \ new : Rank(g, s) >= Rank(g, u)]_vars
  BY <1>1
<1> QED
  BY <1>2, StrategiesTypeCorrect, PTL DEF Spec, BestOfTheRest

-----------------------------------------------------------------------------
(* The estimate. *)

Below == {p \in Nat \X Nat : p[1] < p[2]}

\* A non-empty set of natural numbers has a least element, which Min picks.
LEMMA MinOfNaturals ==
  ASSUME NEW T \in SUBSET Nat, T # {}
  PROVE  Min(T) \in T /\ \A t \in T : Min(T) <= t
<1>1. IsWellFoundedOn(Below, Nat)
  <2>1. OpToRel(<, Nat) = Below
    BY DEF OpToRel, Below
  <2> QED
    BY <2>1, NatLessThanWellFounded
<1>2. PICK x \in T : \A y \in T : <<y, x>> \notin Below
  BY <1>1, WFMin
<1>3. ASSUME NEW y \in T PROVE x <= y
  <2>1. <<y, x>> \in Nat \X Nat /\ <<y, x>>[1] = y /\ <<y, x>>[2] = x
    OBVIOUS
  <2>2. ~(y < x)
    BY <1>2, <2>1 DEF Below
  <2> QED
    BY <2>2
<1> QED
  BY <1>3 DEF Min

\* With real roots missing and a positive start, the quadratic stays positive.
LEMMA NoRootPositive ==
  ASSUME NEW a \in Int, NEW b \in Int, NEW c \in Int, NEW t \in Nat,
         c > 0, b * b - 4 * a * c < 0
  PROVE  a * t * t + b * t + c > 0
<1>1. b * b >= 0
  OBVIOUS
<1>2. a > 0
  BY <1>1
<1>3. 4 * a * (a * t * t + b * t + c) = (2 * a * t + b) * (2 * a * t + b) - (b * b - 4 * a * c)
  OBVIOUS
<1>4. (2 * a * t + b) * (2 * a * t + b) >= 0
  OBVIOUS
<1>5. 4 * a * (a * t * t + b * t + c) > 0
  BY <1>3, <1>4
<1> QED
  BY <1>2, <1>5

\* An estimate is a time within the limits, and the quadratic says that the satellite
\* is in sight until then: a station never prefers a satellite for a time in which it
\* has set already.
THEOREM EstimateInSight ==
  ASSUME NEW q \in [elevation : 0..Zenith, a : Int, b : Int, c : Int], Estimate(q) # None
  PROVE  /\ Estimate(q) \in 1..MaxTime
         /\ \A t \in 1..(Estimate(q) - 1) : Value(q, t) > 0
<1> DEFINE ends ==
      {t \in 1..MaxTime : \/ t = MaxTime \/ Value(q, t) <= 0
                          \/ q.a > 0 /\ 2 * q.a * t + q.b >= 0}
<1>1. MaxTime \in Nat \ {0} /\ q.a \in Int /\ q.b \in Int /\ q.c \in Int
  BY LimitAssumption
<1>2. q.c > 0
  BY <1>1 DEF Estimate
<1>3. \A t \in Nat : Value(q, t) \in Int
  BY <1>1 DEF Value
<1>4. CASE Estimate(q) = MaxTime /\ (NoRoot(q) \/ (q.a = 0 /\ q.b > 0))
  <2>1. ASSUME NEW t \in Nat, NoRoot(q) PROVE Value(q, t) > 0
    BY <1>1, <1>2, <2>1, NoRootPositive DEF NoRoot, Value
  <2>2. ASSUME NEW t \in Nat, q.a = 0, q.b > 0 PROVE Value(q, t) > 0
    <3>1. q.a * t * t = 0 /\ q.b * t >= 0
      BY <1>1, <2>2
    <3> QED
      BY <1>1, <1>2, <3>1 DEF Value
  <2> QED
    BY <1>1, <1>4, <2>1, <2>2
<1>5. CASE Estimate(q) = SmallestRoot(q)
  <2>1. MaxTime \in ends /\ ends \subseteq Nat
    BY <1>1
  <2>2. SmallestRoot(q) = Min(ends)
    BY DEF SmallestRoot
  <2>3. \A t \in 1..MaxTime : t \notin ends => ~(Value(q, t) <= 0)
    OBVIOUS
  <2> HIDE DEF ends
  <2>4. Min(ends) \in ends /\ \A t \in ends : Min(ends) <= t
    BY <2>1, MinOfNaturals
  <2>5. Min(ends) \in 1..MaxTime
    BY <2>4 DEF ends
  <2>6. ASSUME NEW t \in 1..(Min(ends) - 1) PROVE Value(q, t) > 0
    <3>1. t \in 1..MaxTime /\ t \notin ends
      BY <1>1, <2>4, <2>5
    <3> QED
      BY <1>3, <2>3, <3>1
  <2> QED
    BY <1>5, <2>2, <2>5, <2>6
<1> HIDE DEF ends
<1>6. \/ Estimate(q) = MaxTime /\ (NoRoot(q) \/ (q.a = 0 /\ q.b > 0))
      \/ Estimate(q) = SmallestRoot(q)
  <2>1. CASE q.a = 0
    BY <1>1, <2>1 DEF Estimate
  <2>2. CASE q.a # 0
    BY <1>1, <2>2 DEF Estimate
  <2> QED
    BY <2>1, <2>2
<1> QED
  BY <1>4, <1>5, <1>6
=============================================================================

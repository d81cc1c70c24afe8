----------------------------- MODULE LinkProofs -----------------------------
(* Proofs about LinkSync and about HilHandover, which extends it: for every *)
(* set of links and delays, every set of initial link states and every      *)
(* bound; for any stations, finitely many links, and any hardware that      *)
(* disappears.                                                              *)
EXTENDS HilHandover, FiniteSetTheorems, SequenceTheorems, TLAPS

USE UnwiredAssumption, OfflineAssumption, InitStatesAssumption, MaxFaultsAssumption,
    MaxPairsAssumption DEF PoolDone, SyncedDelay, ToAddAfterRaise

-----------------------------------------------------------------------------
(* The lists of interface pairs. *)

\* Removing the first interface towards a peer leaves a list of interfaces.
LEMMA DropPairType ==
  ASSUME NEW s \in Seq(PairKinds)
  PROVE  DropPair(s) \in Seq(PairKinds)
  BY HeadTailProperties DEF DropPair

\* Creating an interface pair leaves a list of interfaces.
LEMMA AddPairType ==
  ASSUME NEW s \in Seq(PairKinds), NEW k \in PairKinds
  PROVE  AddPair(s, k) \in Seq(PairKinds)
  BY AppendProperties DEF AddPair

\* Every variable of the pass keeps its type, whatever RPCs fail.
THEOREM TypeCorrect == Spec => []TypeOK
<1>1. Init => TypeOK
  <2> SUFFICES ASSUME Init PROVE TypeOK
    OBVIOUS
  <2>1. <<"ipv4">> \in Seq(PairKinds) /\ <<>> \in Seq(PairKinds)
    BY DEF PairKinds
  <2>2. pairs \in [Link -> Seq(PairKinds)]
    BY <2>1 DEF Init
  <2>3. sim \in [Link -> SimStates]
    BY DEF Init, SimStates
  <2>4. known \subseteq Link /\ active \subseteq Link
    BY DEF Init, Present, Enabled
  <2>5. /\ wire \in [Link -> Delay \cup {Unwired}]
        /\ addr \in [Link -> EndCounts]
    BY DEF Init, EndCounts
  <2>6. faults \in 0..MaxFaults /\ pc \in Stages
    BY DEF Init, Stages
  <2> QED
    BY <2>2, <2>3, <2>4, <2>5, <2>6 DEF Init, TypeOK
<1>2. TypeOK /\ [Next]_vars => TypeOK'
  <2> SUFFICES ASSUME TypeOK, [Next]_vars PROVE TypeOK'
    OBVIOUS
  <2> USE DEF TypeOK, EndCounts
  <2>1. ASSUME NEW l \in Link, NEW s \in SimStates, SetLink(l, s) PROVE TypeOK'
    BY <2>1 DEF SetLink, flagVars, emuVars, passVars
  <2>2. ASSUME NEW l \in Link, NEW d \in Delay, Move(l, d) PROVE TypeOK'
    BY <2>2 DEF Move, flagVars, emuVars, passVars
  <2>3. CASE Sync
    BY <2>3 DEF Sync, simVars, emuVars, Present, Enabled, Created, Vanished, WentUp,
       WentDown, Moved, SyncedAdd, SyncedRemove, SyncedUpdate, Stages
  <2>4. ASSUME NEW l \in Link, DeleteRpc(l) PROVE TypeOK'
    <3>1. wire' \in [Link -> Delay \cup {Unwired}] /\ addr' \in [Link -> EndCounts]
      BY <2>4 DEF DeleteRpc, emuVars
    <3>2. faults' \in 0..MaxFaults
      BY <2>4 DEF DeleteRpc, Lost
    <3> QED
      BY <2>4, <3>1, <3>2 DEF DeleteRpc, simVars, flagVars
  <2>5. ASSUME NEW l \in Link, AddRpc(l) PROVE TypeOK'
    <3>1. wire' \in [Link -> Delay \cup {Unwired}]
      BY <2>5 DEF AddRpc
    <3>2. faults' \in 0..MaxFaults
      BY <2>5 DEF AddRpc, Lost
    <3> QED
      BY <2>5, <3>1, <3>2 DEF AddRpc, simVars, flagVars
  <2>6. ASSUME NEW l \in Link, UpdateRpc(l) PROVE TypeOK'
    <3>1. wire' \in [Link -> Delay \cup {Unwired}]
      BY <2>6 DEF UpdateRpc
    <3>2. faults' \in 0..MaxFaults
      BY <2>6 DEF UpdateRpc, Lost
    <3> QED
      BY <2>6, <3>1, <3>2 DEF UpdateRpc, simVars, flagVars
  <2>7. ASSUME NEW l \in Link, AddInterfaces(l) PROVE TypeOK'
    <3>1. pairs' \in [Link -> Seq(PairKinds)]
      BY <2>7, AddPairType DEF AddInterfaces, PairKinds
    <3>2. addr' \in [Link -> EndCounts]
      BY <2>7 DEF AddInterfaces
    <3>4. faults' \in 0..MaxFaults
      BY <2>7 DEF AddInterfaces, Lost
    <3>3. toAdd' \subseteq Link
      BY <2>7 DEF AddInterfaces
    <3> QED
      BY <2>7, <3>1, <3>2, <3>3, <3>4 DEF AddInterfaces, simVars
  <2>8. CASE LocalDelete
    <3>1. pairs' \in [Link -> Seq(PairKinds)]
      BY <2>8, DropPairType DEF LocalDelete
    <3> QED
      BY <2>8, <3>1 DEF LocalDelete, simVars, emuVars, Stages
  <2>9. CASE UpdateFlags
    BY <2>9 DEF UpdateFlags, simVars, emuVars, Stages
  <2>10. CASE LocalDone
    BY <2>10 DEF LocalDone, simVars, flagVars, emuVars, Stages
  <2>11. CASE StartGonetem
    BY <2>11 DEF StartGonetem, simVars, flagVars, passVars
  <2>12. CASE StopGonetem
    BY <2>12 DEF StopGonetem, simVars, flagVars, passVars
  <2>13. CASE SetIpAddresses
    BY <2>13 DEF SetIpAddresses, simVars, flagVars, passVars
  <2>14. CASE UNCHANGED vars
    BY <2>14 DEF vars, simVars, flagVars, emuVars, passVars
  <2> QED
    BY <2>1, <2>2, <2>3, <2>4, <2>5, <2>6, <2>7, <2>8, <2>9, <2>10, <2>11, <2>12, <2>13,
       <2>14 DEF Next, Environment, PassStep, Lifecycle
<1> QED
  BY <1>1, <1>2, PTL DEF Spec

-----------------------------------------------------------------------------
(* The stages of a pass. *)

\* A step that leaves faults at 0 found them at 0: the RPCs of a clean history
\* never failed.
LEMMA NoFaultBefore ==
  ASSUME TypeOK, [Next]_vars, faults' = 0
  PROVE  faults = 0
  BY DEF TypeOK, Next, Environment, PassStep, Lifecycle, SetLink, Move, Sync, DeleteRpc,
     AddRpc, UpdateRpc, AddInterfaces, LocalDelete, UpdateFlags, LocalDone, StartGonetem,
     StopGonetem, SetIpAddresses, Lost, vars

\* The stage invariant of the pass is inductive: every list of the pass is
\* served completely before the next stage reads the state it leaves.
LEMMA StageStep ==
  ASSUME TypeOK, TypeOK', IInv, [Next]_vars
  PROVE  IInv'
<1> SUFFICES ASSUME faults' = 0 PROVE IInv'
  BY DEF IInv
<1>0. faults = 0
  BY NoFaultBefore
<1>a. /\ active \subseteq known /\ (~status => Wires = {})
      /\ IdleInv /\ DeleteInv /\ AddInv /\ LocalInv /\ FreshInv /\ DelayInv
  BY <1>0 DEF IInv
<1> DEFINE Goal == /\ active \subseteq known /\ (~status => Wires = {})
                   /\ IdleInv /\ DeleteInv /\ AddInv /\ LocalInv /\ FreshInv /\ DelayInv
<1> SUFFICES Goal'
  BY DEF IInv
<1> USE DEF TypeOK
<1>1. ASSUME NEW l \in Link, NEW s \in SimStates, SetLink(l, s) PROVE Goal'
  BY <1>1, <1>a DEF SetLink, flagVars, emuVars, passVars, Wires, IdleInv, DeleteInv, AddInv,
     LocalInv, FreshInv, DelayInv
<1>2. ASSUME NEW l \in Link, NEW d \in Delay, Move(l, d) PROVE Goal'
  BY <1>2, <1>a DEF Move, flagVars, emuVars, passVars, Wires, IdleInv, DeleteInv, AddInv,
     LocalInv, FreshInv, DelayInv
<1>3. CASE Sync
  <2> USE <1>3 DEF Sync, simVars, emuVars
  <2>1. /\ toAdd = {} /\ toRemove = {} /\ (status => Wires = active)
    BY <1>a DEF IdleInv
  <2>2. Wires' = Wires
    BY DEF Wires
  <2>3. (active \subseteq known)' /\ (~status => Wires = {})'
    BY <1>a, <2>2 DEF Created, Vanished, WentUp, WentDown, Present, Enabled
  <2>4. DeleteInv'
    BY <1>a, <2>1, <2>2 DEF DeleteInv, SyncedAdd, SyncedRemove, SyncedUpdate, Created,
       Vanished, WentUp, WentDown, Present, Enabled
  <2>5. IdleInv' /\ AddInv' /\ LocalInv' /\ FreshInv'
    BY <1>a DEF IdleInv, AddInv, LocalInv, FreshInv
  <2>6. DelayInv'
    <3> SUFFICES ASSUME NEW l \in Wires'
                 PROVE  (wire[l] = delay[l] \/ l \in toUpdate \/ l \in toRemove)'
      BY DEF DelayInv
    <3>1. l \in Wires /\ l \in active /\ l \in known /\ l \in Link
      BY <2>1, <2>2, <1>a DEF Wires
    <3>2. wire[l] = delay[l] \/ l \in toUpdate
      BY <3>1, <2>1, <1>a DEF DelayInv
    <3>3. CASE l \in Present
      <4>1. delay'[l] = dist[l] /\ wire'[l] = wire[l]
        BY <3>1, <3>3
      <4>2. CASE delay[l] = dist[l]
        BY <4>1, <4>2, <3>2 DEF SyncedUpdate
      <4>3. CASE delay[l] # dist[l]
        BY <4>3, <3>1, <3>3 DEF SyncedUpdate, Moved
      <4> QED
        BY <4>2, <4>3
    <3>4. CASE l \notin Present
      BY <3>4, <3>1, <2>1 DEF SyncedRemove, Vanished, WentUp, Enabled, Present
    <3> QED
      BY <3>3, <3>4
  <2> QED
    BY ONLY <2>3, <2>4, <2>5, <2>6
<1>4. ASSUME NEW l \in Link, DeleteRpc(l) PROVE Goal'
  <2> USE <1>4 DEF DeleteRpc, simVars, flagVars, emuVars
  <2>1. /\ pc = "bulkDel" /\ pc' = "bulkDel" /\ l \in pend /\ pend' = pend \ {l}
        /\ faults' = faults /\ status
        /\ wire' = [wire EXCEPT ![l] = Unwired] /\ addr' = [addr EXCEPT ![l] = 0]
    BY <1>0, <1>a DEF DeleteInv, Lost
  <2>2. Wires' = Wires \ {l}
    BY <2>1 DEF Wires
  <2>3. (active \subseteq known /\ (~status => Wires = {}))'
    BY <1>a, <2>1
  <2>4. DeleteInv'
    BY <1>a, <2>1, <2>2 DEF DeleteInv
  <2>5. IdleInv' /\ AddInv' /\ LocalInv' /\ FreshInv'
    BY <1>a, <2>1 DEF IdleInv, AddInv, LocalInv, FreshInv
  <2>6. DelayInv'
    BY <1>a, <2>1, <2>2 DEF DelayInv
  <2> QED
    BY ONLY <2>3, <2>4, <2>5, <2>6
<1>5. CASE LocalDelete
  <2> USE <1>5 DEF LocalDelete, simVars, emuVars
  <2>1. Wires' = Wires /\ Wires \cap dels = {} /\ toRemove = dels
    BY <1>a DEF DeleteInv, Wires
  <2>2. (active \subseteq known /\ (~status => Wires = {}))'
    BY <1>a, <2>1
  <2>3. AddInv'
    BY <1>a, <2>1 DEF DeleteInv, AddInv
  <2>4. IdleInv' /\ DeleteInv' /\ LocalInv'
    BY DEF IdleInv, DeleteInv, LocalInv
  <2>5. FreshInv'
    <3> SUFFICES ASSUME NEW l \in adds PROVE addr[l] = 0
      BY <1>a DEF FreshInv
    <3>1. l \notin Wires /\ l \in Link
      BY <1>a DEF DeleteInv
    <3> QED
      BY <3>1, <1>a DEF FreshInv, Wires
  <2>6. DelayInv'
    BY <1>a, <2>1 DEF DelayInv
  <2> QED
    BY ONLY <2>2, <2>3, <2>4, <2>5, <2>6
<1>6. ASSUME NEW l \in Link, AddRpc(l) PROVE Goal'
  <2> USE <1>6 DEF AddRpc, simVars, flagVars
  <2>1. /\ pc = "bulkAdd" /\ pc' = "bulkAdd" /\ l \in pend /\ l \in adds /\ pend' = pend \ {l}
        /\ faults' = faults /\ status /\ status'
    BY <1>0, <1>a DEF AddInv, Lost
  <2>2. wire[l] = Unwired /\ wire' = [wire EXCEPT ![l] = delay[l]]
    BY <1>0, <1>a, <2>1 DEF AddInv, Wires, Lost
  <2>3. Wires' = Wires \cup {l}
    BY <2>2 DEF Wires
  <2>4. (active \subseteq known /\ (~status => Wires = {}))'
    BY <1>a, <2>1
  <2>5. AddInv'
    BY <1>a, <2>1, <2>2, <2>3 DEF AddInv
  <2>6. IdleInv' /\ DeleteInv' /\ LocalInv'
    BY <2>1 DEF IdleInv, DeleteInv, LocalInv
  <2>7. FreshInv'
    BY <1>a, <2>1, <2>2 DEF FreshInv
  <2>8. DelayInv'
    BY <1>a, <2>2, <2>3 DEF DelayInv
  <2> QED
    BY ONLY <2>4, <2>5, <2>6, <2>7, <2>8
<1>7. ASSUME NEW l \in Link, UpdateRpc(l) PROVE Goal'
  <2> USE <1>7 DEF UpdateRpc, simVars, flagVars
  <2>1. /\ pc = "bulkAdd" /\ pc' = "bulkAdd" /\ l \in pend /\ l \in upds /\ pend' = pend \ {l}
        /\ faults' = faults
        /\ wire' = [wire EXCEPT ![l] = IF wire[l] = Unwired THEN Unwired ELSE delay[l]]
    BY <1>0 DEF Lost
  <2>2. Wires' = Wires
    BY <2>1 DEF Wires
  <2>3. (active \subseteq known /\ (~status => Wires = {}))'
    BY <1>a, <2>2
  <2>4. AddInv'
    BY <1>a, <2>1, <2>2 DEF AddInv, Wires
  <2>5. IdleInv' /\ DeleteInv' /\ LocalInv'
    BY <2>1 DEF IdleInv, DeleteInv, LocalInv
  <2>6. FreshInv'
    BY <1>a, <2>1 DEF FreshInv
  <2>7. DelayInv'
    BY <1>a, <2>1, <2>2 DEF DelayInv, Wires
  <2> QED
    BY ONLY <2>3, <2>4, <2>5, <2>6, <2>7
<1>8. CASE UpdateFlags
  <2> USE <1>8 DEF UpdateFlags, simVars, emuVars
  <2>1. Wires' = Wires
    BY DEF Wires
  <2>2. (active \subseteq known /\ (~status => Wires = {}))'
    BY <1>a, <2>1
  <2>3. LocalInv' /\ IdleInv' /\ DeleteInv' /\ AddInv'
    BY <1>a, <2>1 DEF LocalInv, IdleInv, DeleteInv, AddInv
  <2>4. FreshInv'
    BY <1>a DEF FreshInv
  <2>5. DelayInv'
    BY <1>a, <2>1 DEF DelayInv, AddInv
  <2> QED
    BY ONLY <2>2, <2>3, <2>4, <2>5
<1>9. ASSUME NEW l \in Link, AddInterfaces(l) PROVE Goal'
  <2> USE <1>9 DEF AddInterfaces, simVars
  <2>1. /\ pc = "localAdd" /\ pc' = "localAdd" /\ l \in pend /\ pend' = pend \ {l}
        /\ wire' = wire /\ faults' = faults
    BY <1>0 DEF Lost
  <2>2. Wires' = Wires
    BY <2>1 DEF Wires
  <2>3. l \in toAdd /\ addr[l] = 0 /\ (status => l \in Wires)
    BY <1>a, <2>1 DEF LocalInv, FreshInv
  <2>4. toAdd' = toAdd \ {l} /\ \A k \in Link : k # l => addr'[k] = addr[k]
    BY <1>0, <2>3 DEF Lost, Wires
  <2>5. (active \subseteq known /\ (~status => Wires = {}))'
    BY <1>a, <2>2
  <2>6. LocalInv' /\ IdleInv' /\ DeleteInv' /\ AddInv'
    BY <1>a, <2>1, <2>2, <2>4 DEF LocalInv, IdleInv, DeleteInv, AddInv
  <2>7. FreshInv'
    <3>1. ASSUME NEW k \in Link, wire'[k] = Unwired PROVE addr'[k] = 0
      BY <1>a, <2>1, <2>3, <2>4, <3>1 DEF FreshInv, Wires
    <3> QED
      BY <1>a, <2>1, <2>4, <3>1 DEF FreshInv
  <2>8. DelayInv'
    BY <1>a, <2>1, <2>2 DEF DelayInv
  <2> QED
    BY ONLY <2>5, <2>6, <2>7, <2>8
<1>10. CASE LocalDone
  BY <1>10, <1>a DEF LocalDone, simVars, flagVars, emuVars, Wires, IdleInv, DeleteInv, AddInv,
     LocalInv, FreshInv, DelayInv
<1>11. CASE StartGonetem
  <2> USE <1>11 DEF StartGonetem, simVars, flagVars, passVars
  <2>1. Wires' = active /\ Wires = {}
    BY <1>a DEF Wires
  <2>2. (active \subseteq known /\ (~status => Wires = {}))'
    BY <1>a
  <2>3. LocalInv' /\ IdleInv' /\ DeleteInv' /\ AddInv'
    BY <1>a, <2>1 DEF LocalInv, IdleInv, DeleteInv, AddInv
  <2>4. FreshInv'
    BY <1>a, <2>1 DEF FreshInv, Wires
  <2>5. DelayInv'
    BY <1>a, <2>1 DEF DelayInv
  <2> QED
    BY ONLY <2>2, <2>3, <2>4, <2>5
<1>12. CASE StopGonetem
  <2> USE <1>12 DEF StopGonetem, simVars, flagVars, passVars
  <2>1. Wires' = {}
    BY DEF Wires
  <2>2. (active \subseteq known /\ (~status => Wires = {}))'
    BY <1>a, <2>1
  <2>3. LocalInv' /\ IdleInv' /\ DeleteInv' /\ AddInv' /\ FreshInv' /\ DelayInv'
    BY <1>a, <2>1 DEF LocalInv, IdleInv, DeleteInv, AddInv, FreshInv, DelayInv
  <2> QED
    BY ONLY <2>2, <2>3
<1>13. CASE SetIpAddresses
  <2> USE <1>13 DEF SetIpAddresses, simVars, flagVars, passVars
  <2>1. Wires' = Wires
    BY DEF Wires
  <2>2. (active \subseteq known /\ (~status => Wires = {}))'
    BY <1>a, <2>1
  <2>3. LocalInv' /\ IdleInv' /\ DeleteInv' /\ AddInv' /\ FreshInv' /\ DelayInv'
    BY <1>a, <2>1 DEF LocalInv, IdleInv, DeleteInv, AddInv, FreshInv, DelayInv
  <2> QED
    BY ONLY <2>2, <2>3
<1>14. CASE UNCHANGED vars
  BY <1>14, <1>a DEF vars, simVars, flagVars, emuVars, passVars, Wires, IdleInv, DeleteInv,
     AddInv, LocalInv, FreshInv, DelayInv
<1> QED
  BY <1>1, <1>2, <1>3, <1>4, <1>5, <1>6, <1>7, <1>8, <1>9, <1>10, <1>11, <1>12, <1>13, <1>14
     DEF Next, Environment, PassStep, Lifecycle

\* The stage invariant holds in every state of every behaviour.
THEOREM StageInvariant == Spec => []IInv
<1>1. Init => IInv
  BY DEF Init, IInv, Wires, IdleInv, DeleteInv, AddInv, LocalInv, FreshInv, DelayInv, Present,
     Enabled
<1>2. TypeOK /\ TypeOK' /\ IInv /\ [Next]_vars => IInv'
  BY StageStep
<1> QED
  BY <1>1, <1>2, TypeCorrect, PTL DEF Spec

-----------------------------------------------------------------------------
(* The properties. *)

\* Between two clean passes the emulator has exactly the wires of the active wrappers.
THEOREM WiresCorrect == Spec => []WiresMatchLinks
<1>1. IInv => WiresMatchLinks
  BY DEF IInv, IdleInv, WiresMatchLinks, Quiet
<1> QED
  BY <1>1, StageInvariant, PTL

\* Between two clean passes a wire has the delay of its wrapper or an update is due.
THEOREM DelaysCorrect == Spec => []DelaysCurrent
<1>1. IInv => DelaysCurrent
  BY DEF IInv, IdleInv, DelayInv, DelaysCurrent, Quiet
<1> QED
  BY <1>1, StageInvariant, PTL

\* No pass creates a wire while one it has to delete is still there.
THEOREM DeletesPrecedeAdds == Spec => DeleteBeforeAdd
<1>1. TypeOK /\ IInv /\ [Next]_vars =>
        [pc # "idle" /\ faults = 0 /\ ~(Wires' \subseteq Wires)
           => Wires \subseteq active \ toRemove]_vars
  <2> SUFFICES ASSUME TypeOK, IInv, [Next]_vars, pc # "idle", faults = 0,
                      ~(Wires' \subseteq Wires)
               PROVE  Wires \subseteq active \ toRemove
    OBVIOUS
  <2> USE DEF TypeOK
  <2>1. ASSUME NEW l \in Link, AddRpc(l) PROVE pc = "bulkAdd" /\ status
    BY <2>1 DEF AddRpc, IInv, AddInv
  <2>2. PICK l \in Link : AddRpc(l)
    BY DEF Next, Environment, PassStep, Lifecycle, SetLink, Move, Sync, DeleteRpc, UpdateRpc,
       AddInterfaces, LocalDelete, UpdateFlags, LocalDone, StartGonetem, StopGonetem,
       SetIpAddresses, vars, emuVars, Wires
  <2> QED
    BY <2>1, <2>2 DEF IInv, AddInv
<1> QED
  BY <1>1, TypeCorrect, StageInvariant, PTL DEF Spec, DeleteBeforeAdd

-----------------------------------------------------------------------------
(* Interface pairs and addresses.  PairInv says, for each stage, which links  *)
(* have their interface pair and which wires still wait for addresses.        *)

Pair(yes) == IF yes THEN <<"ipv4">> ELSE <<>>

PairInv ==
  faults = 0 =>
    /\ (pc # "idle" \/ configured) => status
    /\ pc = "idle" => \A l \in Link : pairs[l] = Pair(l \in active)
    /\ pc = "bulkDel" => \A l \in Link :
         IF l \in dels THEN pairs[l] \in {Pair(TRUE), Pair(FALSE)}
                       ELSE pairs[l] = Pair(l \in active \ adds)
    /\ pc = "bulkAdd" => \A l \in Link : pairs[l] = Pair(l \in active \ adds)
    /\ pc = "localAdd" => \A l \in Link : pairs[l] = Pair(l \in active \ pend)

Unaddressed == IF pc = "bulkAdd" THEN adds ELSE IF pc = "localAdd" THEN pend ELSE {}

AddressInv ==
  faults = 0 /\ configured => \A l \in Wires \ Unaddressed : addr[l] = 2

\* A single pair is dropped and added as a whole.
LEMMA SinglePair ==
  /\ DropPair(Pair(TRUE)) = Pair(FALSE) /\ DropPair(Pair(FALSE)) = Pair(FALSE)
  /\ AddPair(Pair(FALSE), "ipv4") = Pair(TRUE)
  /\ Len(Pair(TRUE)) = 1 /\ Len(Pair(FALSE)) = 0
<1>1. Tail(<<"ipv4">>) = <<>> /\ <<"ipv4">> # <<>> /\ Append(<<>>, "ipv4") = <<"ipv4">>
  OBVIOUS
<1>2. Len(<<"ipv4">>) = 1 /\ Len(<<>>) = 0
  OBVIOUS
<1> QED
  BY <1>1, <1>2 DEF Pair, DropPair, AddPair

\* PairInv is inductive when every pass runs with the emulator and no link is
\* disabled at the start: each list of a pass is served once per interface pair.
LEMMA PairStep ==
  ASSUME ~Offline, TypeOK, TypeOK', IInv, PairInv, [Next]_vars
  PROVE  PairInv'
<1> SUFFICES ASSUME faults' = 0 PROVE PairInv'
  BY DEF PairInv
<1>0. faults = 0
  BY NoFaultBefore
<1>a. /\ active \subseteq known /\ (~status => Wires = {})
      /\ IdleInv /\ DeleteInv /\ AddInv /\ LocalInv /\ FreshInv
  BY <1>0 DEF IInv
<1> DEFINE Stage == /\ (pc # "idle" \/ configured) => status
                    /\ pc = "idle" => \A l \in Link : pairs[l] = Pair(l \in active)
                    /\ pc = "bulkDel" => \A l \in Link :
                         IF l \in dels THEN pairs[l] \in {Pair(TRUE), Pair(FALSE)}
                                       ELSE pairs[l] = Pair(l \in active \ adds)
                    /\ pc = "bulkAdd" => \A l \in Link : pairs[l] = Pair(l \in active \ adds)
                    /\ pc = "localAdd" => \A l \in Link : pairs[l] = Pair(l \in active \ pend)
<1>b. Stage
  BY <1>0 DEF PairInv
<1> SUFFICES Stage'
  BY DEF PairInv
<1> USE DEF TypeOK
<1>1. ASSUME NEW l \in Link, NEW s \in SimStates, SetLink(l, s) PROVE Stage'
  BY <1>1, <1>b DEF SetLink, flagVars, emuVars, passVars
<1>2. ASSUME NEW l \in Link, NEW d \in Delay, Move(l, d) PROVE Stage'
  BY <1>2, <1>b DEF Move, flagVars, emuVars, passVars
<1>3. CASE Sync
  <2>1. /\ pc = "idle" /\ pc' = "bulkDel" /\ pairs' = pairs /\ status /\ status'
        /\ toAdd = {} /\ toRemove = {}
    BY <1>3, <1>a DEF Sync, IdleInv
  <2>2. /\ adds' = SyncedAdd \ SyncedRemove /\ dels' = SyncedRemove
        /\ active' = (active \ WentDown) \cup WentUp \cup (Created \cap Enabled)
    BY <1>3 DEF Sync
  <2>3. ASSUME NEW l \in Link, l \notin dels' PROVE l \in active' \ adds' <=> l \in active
    BY <2>1, <2>2, <2>3, <1>a DEF SyncedAdd, SyncedRemove, Created, Vanished, WentUp,
       WentDown, Present, Enabled
  <2>4. ASSUME NEW l \in Link PROVE pairs[l] = Pair(l \in active)
    BY <1>b, <2>1
  <2>5. ASSUME NEW l \in Link, l \notin dels' PROVE pairs'[l] = Pair(l \in active' \ adds')
    BY <2>1, <2>3, <2>4, <2>5 DEF Pair
  <2>6. ASSUME NEW l \in Link PROVE pairs'[l] \in {Pair(TRUE), Pair(FALSE)}
    BY <2>1, <2>4 DEF Pair
  <2> QED
    BY <2>1, <2>5, <2>6
<1>4. ASSUME NEW l \in Link, DeleteRpc(l) PROVE Stage'
  BY <1>4, <1>b DEF DeleteRpc, simVars, flagVars
<1>5. CASE LocalDelete
  <2>1. /\ pc = "bulkDel" /\ pc' = "bulkAdd" /\ status /\ status' /\ adds' = adds
        /\ active' = active \ dels /\ adds \cap dels = {}
        /\ pairs' = [l \in Link |-> IF l \in dels THEN DropPair(pairs[l]) ELSE pairs[l]]
    BY <1>5, <1>a, <1>b DEF LocalDelete, DeleteInv
  <2>2. ASSUME NEW l \in Link, l \in dels PROVE pairs'[l] = Pair(l \in active' \ adds')
    <3>1. pairs'[l] = DropPair(pairs[l]) /\ pairs[l] \in {Pair(TRUE), Pair(FALSE)}
      BY <2>1, <2>2, <1>b
    <3>2. pairs'[l] = Pair(FALSE)
      BY <3>1, SinglePair
    <3> QED
      BY <3>2, <2>1, <2>2 DEF Pair
  <2>3. ASSUME NEW l \in Link, l \notin dels PROVE pairs'[l] = Pair(l \in active' \ adds')
    BY <2>1, <2>3, <1>b DEF Pair
  <2> QED
    BY <2>1, <2>2, <2>3
<1>6. ASSUME NEW l \in Link, AddRpc(l) PROVE Stage'
  BY <1>6, <1>b DEF AddRpc, simVars, flagVars
<1>7. ASSUME NEW l \in Link, UpdateRpc(l) PROVE Stage'
  BY <1>7, <1>b DEF UpdateRpc, simVars, flagVars
<1>8. CASE UpdateFlags
  BY <1>8, <1>b DEF UpdateFlags, simVars, emuVars
<1>9. ASSUME NEW l \in Link, AddInterfaces(l) PROVE Stage'
  <2>1. /\ pc = "localAdd" /\ pc' = pc /\ status /\ status' /\ l \in pend
        /\ pend' = pend \ {l} /\ active' = active
        /\ pairs' = [pairs EXCEPT ![l] = AddPair(pairs[l], "ipv4")]
    BY <1>9, <1>b DEF AddInterfaces
  <2>2. l \in active /\ pairs[l] = Pair(FALSE)
    BY <2>1, <1>a, <1>b DEF LocalInv, Pair
  <2>3. pairs'[l] = Pair(TRUE)
    BY <2>1, <2>2, SinglePair
  <2>4. ASSUME NEW k \in Link PROVE pairs'[k] = Pair(k \in active' \ pend')
    <3>1. (pairs'[k] = Pair(TRUE) /\ k \in active' \ pend') \/ k # l
      BY <2>1, <2>2, <2>3
    <3>2. CASE k # l
      <4>1. pairs'[k] = pairs[k] /\ pairs[k] = Pair(k \in active \ pend)
        BY <2>1, <3>2, <1>b
      <4>2. k \in active' \ pend' <=> k \in active \ pend
        BY <2>1, <3>2
      <4> QED
        BY ONLY <4>1, <4>2 DEF Pair
    <3> QED
      BY <3>1, <3>2 DEF Pair
  <2> QED
    BY <2>1, <2>4
<1>10. CASE LocalDone
  BY <1>10, <1>b DEF LocalDone, simVars, flagVars, emuVars, Pair
<1>11. CASE StartGonetem
  BY <1>11, <1>b DEF StartGonetem, simVars, flagVars, passVars
<1>12. CASE StopGonetem
  BY <1>12, <1>b DEF StopGonetem, simVars, flagVars, passVars
<1>13. CASE SetIpAddresses
  BY <1>13, <1>b DEF SetIpAddresses, simVars, flagVars, passVars
<1>14. CASE UNCHANGED vars
  BY <1>14, <1>b DEF vars, simVars, flagVars, emuVars, passVars
<1> QED
  BY <1>1, <1>2, <1>3, <1>4, <1>5, <1>6, <1>7, <1>8, <1>9, <1>10, <1>11, <1>12, <1>13, <1>14
     DEF Next, Environment, PassStep, Lifecycle

\* AddressInv is inductive beside PairInv: a new wire waits for its addresses on
\* the lists of the pass, and no other wire loses them.
LEMMA AddressStep ==
  ASSUME TypeOK, TypeOK', IInv, PairInv, AddressInv, [Next]_vars
  PROVE  AddressInv'
<1> SUFFICES ASSUME faults' = 0, configured', NEW l \in Wires' \ Unaddressed'
             PROVE  addr'[l] = 2
  BY DEF AddressInv
<1>0. faults = 0
  BY NoFaultBefore
<1>a. /\ ~status => Wires = {}
      /\ IdleInv /\ DeleteInv /\ AddInv /\ LocalInv /\ FreshInv
  BY <1>0 DEF IInv
<1>b. configured /\ l \in Wires \ Unaddressed => addr[l] = 2
  BY <1>0 DEF AddressInv
<1>c. l \in Link /\ wire'[l] # Unwired
  BY DEF Wires
<1> USE DEF TypeOK, Wires, Unaddressed
<1>1. ASSUME NEW k \in Link, NEW s \in SimStates, SetLink(k, s) PROVE addr'[l] = 2
  BY <1>1, <1>b, <1>c DEF SetLink, emuVars, passVars
<1>2. ASSUME NEW k \in Link, NEW d \in Delay, Move(k, d) PROVE addr'[l] = 2
  BY <1>2, <1>b, <1>c DEF Move, emuVars, passVars
<1>3. CASE Sync
  BY <1>3, <1>b, <1>c DEF Sync, emuVars
<1>4. ASSUME NEW k \in Link, DeleteRpc(k) PROVE addr'[l] = 2
  BY <1>4, <1>0, <1>b, <1>c DEF DeleteRpc, Lost
<1>5. CASE LocalDelete
  <2>1. l \notin adds /\ pc' = "bulkAdd" /\ adds' = adds
    BY <1>5 DEF LocalDelete
  <2> QED
    BY <1>5, <2>1, <1>b, <1>c DEF LocalDelete, emuVars
<1>6. ASSUME NEW k \in Link, AddRpc(k) PROVE addr'[l] = 2
  BY <1>6, <1>0, <1>b, <1>c DEF AddRpc, Lost
<1>7. ASSUME NEW k \in Link, UpdateRpc(k) PROVE addr'[l] = 2
  BY <1>7, <1>0, <1>b, <1>c DEF UpdateRpc, Lost
<1>8. CASE UpdateFlags
  BY <1>8, <1>b, <1>c DEF UpdateFlags, emuVars
<1>9. ASSUME NEW k \in Link, AddInterfaces(k) PROVE addr'[l] = 2
  <2>1. /\ pc = "localAdd" /\ pc' = pc /\ k \in pend /\ pend' = pend \ {k} /\ wire' = wire
        /\ configured' = configured /\ faults' = faults /\ status
    BY <1>9, <1>0, <1>c, <1>a DEF AddInterfaces, Lost
  <2>2. addr[k] = 0 /\ wire[k] # Unwired
    BY <2>1, <1>a DEF LocalInv, FreshInv
  <2>3. addr' = [addr EXCEPT ![k] = 2]
    BY <1>9, <2>1, <2>2, <1>0 DEF AddInterfaces, Lost
  <2> QED
    BY <2>1, <2>3, <1>b, <1>c
<1>10. CASE LocalDone
  BY <1>10, <1>b, <1>c DEF LocalDone, emuVars
<1>11. CASE StartGonetem
  BY <1>11, <1>0, <1>c DEF StartGonetem, PairInv
<1>12. CASE StopGonetem
  BY <1>12, <1>c DEF StopGonetem
<1>13. CASE SetIpAddresses
  <2>1. pc = "idle" /\ wire' = wire /\ status' = status /\ l \in active
    BY <1>13, <1>a, <1>c DEF SetIpAddresses, IdleInv
  <2>2. pairs[l] = <<"ipv4">>
    BY <2>1, <1>0, <1>c DEF PairInv, Pair
  <2>3. HasAddress(l)
    BY <2>2 DEF HasAddress
  <2> QED
    BY <1>13, <2>1, <2>3, <1>c DEF SetIpAddresses
<1>14. CASE UNCHANGED vars
  BY <1>14, <1>b, <1>c DEF vars, emuVars, passVars
<1> QED
  BY <1>1, <1>2, <1>3, <1>4, <1>5, <1>6, <1>7, <1>8, <1>9, <1>10, <1>11, <1>12, <1>13, <1>14
     DEF Next, Environment, PassStep, Lifecycle

\* Between two clean passes each active link has one interface pair, the others
\* have none, and every wire has its addresses once they were asked for: as long as
\* passes run with the emulator only and no link is disabled at the start.
THEOREM InterfacesCorrect ==
  ASSUME ~Offline, "disabled" \notin InitStates
  PROVE  Spec => []InterfacesComplete
<1>1. Init => PairInv /\ AddressInv
  <2> SUFFICES ASSUME Init PROVE PairInv /\ AddressInv
    OBVIOUS
  <2>1. Present = Enabled
    BY DEF Init, Present, Enabled
  <2>2. /\ pc = "idle" /\ ~configured
        /\ \A l \in Link : pairs[l] = Pair(l \in active)
    BY <2>1 DEF Init, Pair
  <2> QED
    BY <2>2 DEF PairInv, AddressInv
<1>2. TypeOK /\ TypeOK' /\ IInv /\ PairInv /\ AddressInv /\ [Next]_vars
        => PairInv' /\ AddressInv'
  BY PairStep, AddressStep
<1>3. IInv /\ PairInv /\ AddressInv => InterfacesComplete
  BY SinglePair DEF IInv, PairInv, AddressInv, Unaddressed, InterfacesComplete, Quiet, Pair
<1> QED
  BY <1>1, <1>2, <1>3, TypeCorrect, StageInvariant, PTL DEF Spec

-----------------------------------------------------------------------------
(* The refinement. *)

\* The initial states of the pass are initial states of Emulation.
LEMMA EmuInit == Init => Emu!Init
  BY DEF Init, Emu!Init, Wires, Present, Enabled

\* Every step of the pass is a step of Emulation or leaves its variables alone:
\* the RPCs of the deletions remove wires outside the view, those of the additions
\* add missing ones, and the pass ends with the wires of the view.
LEMMA EmuStep ==
  ASSUME TypeOK, TypeOK', IInv, IInv', [Next]_vars
  PROVE  [Emu!Next]_(Emu!vars)
<1>1. CASE faults' # 0
  BY <1>1 DEF Emu!Next
<1>2. CASE faults' = 0
  <2>0. faults = 0
    BY <1>2, NoFaultBefore
  <2>a. /\ active \subseteq known /\ (~status => Wires = {})
        /\ IdleInv /\ DeleteInv /\ AddInv /\ LocalInv
    BY <2>0 DEF IInv
  <2>b. IdleInv' /\ DeleteInv' /\ AddInv' /\ LocalInv'
    BY <1>2 DEF IInv
  <2> SUFFICES Emu!Kept \/ UNCHANGED Emu!vars
    BY <1>2, <2>0 DEF Emu!Next
  <2> USE DEF TypeOK
  <2>1. ASSUME NEW l \in Link, NEW s \in SimStates, SetLink(l, s) PROVE UNCHANGED Emu!vars
    BY <2>1 DEF SetLink, flagVars, emuVars, passVars, Emu!vars, Wires
  <2>2. ASSUME NEW l \in Link, NEW d \in Delay, Move(l, d) PROVE UNCHANGED Emu!vars
    BY <2>2 DEF Move, flagVars, emuVars, passVars, Emu!vars, Wires
  <2>3. CASE Sync
    BY <2>3 DEF Sync, emuVars, Wires, Emu!Kept, Emu!Observe
  <2>4. ASSUME NEW l \in Link, DeleteRpc(l) PROVE Emu!Kept \/ UNCHANGED Emu!vars
    <3>0. /\ pc = "bulkDel" /\ pc' = pc /\ l \in pend
          /\ wire' = [wire EXCEPT ![l] = Unwired]
          /\ UNCHANGED <<active, toRemove, status, faults>>
      BY <1>2, <2>0, <2>4 DEF DeleteRpc, Lost, flagVars
    <3>1. /\ pc = "bulkDel" /\ pc' = pc /\ l \in toRemove /\ Wires' = Wires \ {l}
          /\ UNCHANGED <<active, toRemove, status, faults>>
      <4>1. Wires' = Wires \ {l}
        BY <3>0 DEF Wires
      <4> QED
        BY <3>0, <4>1, <2>a DEF DeleteInv
    <3>2. CASE l \in Wires
      BY <3>1, <3>2 DEF Emu!Kept, Emu!Remove
    <3>3. CASE l \notin Wires
      BY <3>1, <3>3 DEF Emu!vars
    <3> QED
      BY <3>2, <3>3
  <2>5. ASSUME NEW l \in Link, AddRpc(l) PROVE Emu!Kept
    <3>1. /\ pc = "bulkAdd" /\ pc' = pc /\ l \in adds /\ l \in pend
          /\ UNCHANGED <<active, toRemove, status, faults>>
      BY <1>2, <2>0, <2>5 DEF AddRpc, Lost, flagVars
    <3>2. status /\ l \in active /\ toRemove = {} /\ l \notin Wires
      BY <3>1, <2>a DEF AddInv
    <3>3. Wires' = Wires \cup {l}
      BY <1>2, <2>0, <2>5, <3>2 DEF AddRpc, Lost, Wires
    <3> QED
      BY <3>1, <3>2, <3>3 DEF Emu!Kept, Emu!Add
  <2>6. ASSUME NEW l \in Link, UpdateRpc(l) PROVE UNCHANGED Emu!vars
    <3>1. Wires' = Wires
      BY <1>2, <2>0, <2>6 DEF UpdateRpc, Lost, Wires
    <3> QED
      BY <2>6, <3>1, <2>0, <1>2 DEF UpdateRpc, flagVars, Emu!vars
  <2>7. ASSUME NEW l \in Link, AddInterfaces(l) PROVE UNCHANGED Emu!vars
    BY <2>7, <2>0, <1>2 DEF AddInterfaces, Emu!vars, Wires
  <2>8. CASE LocalDelete
    <3>1. Wires' = Wires /\ pc = "bulkDel" /\ pc' = "bulkAdd" /\ status' = status
          /\ toRemove = dels /\ active' = active \ dels /\ toRemove' = {}
      BY <2>8, <2>a DEF LocalDelete, emuVars, Wires, DeleteInv
    <3>2. Wires \subseteq active \ dels
      BY <2>8, <2>a DEF LocalDelete, DeleteInv
    <3> QED
      BY <3>1, <3>2 DEF Emu!Kept, Emu!Removed
  <2>9. CASE UpdateFlags
    BY <2>9 DEF UpdateFlags, emuVars, Emu!vars, Wires
  <2>10. CASE LocalDone
    <3>1. /\ pc = "localAdd" /\ pc' = "idle" /\ Wires' = Wires
          /\ UNCHANGED <<active, toRemove, status>>
      BY <2>10 DEF LocalDone, flagVars, emuVars, Wires
    <3>2. toRemove = {} /\ Wires = IF status THEN active ELSE {}
      BY <3>1, <2>a DEF LocalInv
    <3> QED
      BY <3>1, <3>2 DEF Emu!Kept, Emu!Finish
  <2>11. CASE StartGonetem
    <3>1. /\ pc = "idle" /\ pc' = pc /\ ~status /\ status' = TRUE
          /\ UNCHANGED <<active, toRemove>>
      BY <2>11 DEF StartGonetem, flagVars, passVars
    <3>2. toRemove = {} /\ Wires' = active
      BY <2>11, <3>1, <2>a DEF StartGonetem, IdleInv, Wires
    <3> QED
      BY <3>1, <3>2 DEF Emu!Kept, Emu!TurnOn
  <2>12. CASE StopGonetem
    BY <2>12 DEF StopGonetem, flagVars, passVars, Wires, Emu!Kept, Emu!TurnOff
  <2>13. CASE SetIpAddresses
    BY <2>13 DEF SetIpAddresses, flagVars, passVars, Emu!vars, Wires
  <2>14. CASE UNCHANGED vars
    BY <2>14 DEF vars, flagVars, emuVars, passVars, Emu!vars, Wires
  <2> QED
    BY <2>1, <2>2, <2>3, <2>4, <2>5, <2>6, <2>7, <2>8, <2>9, <2>10, <2>11, <2>12, <2>13,
       <2>14 DEF Next, Environment, PassStep, Lifecycle
<1> QED
  BY <1>1, <1>2

\* The update pass implements Emulation.
THEOREM PassImplementsEmulation == Spec => ImplementsEmulation
<1>1. TypeOK /\ TypeOK' /\ IInv /\ IInv' /\ [Next]_vars => [Emu!Next]_(Emu!vars)
  BY EmuStep
<1> QED
  BY <1>1, EmuInit, TypeCorrect, StageInvariant, PTL DEF Spec, ImplementsEmulation, Emu!Spec
-----------------------------------------------------------------------------
(* The HIL manager in the pass. *)

USE FiniteAssumption, StationOfAssumption, LinkStatesAssumption, MaxLinksAssumption,
    ValuesAssumption, UnwiredAssumption
    DEF PoolDone, SyncedDelay, ToAddAfterRaise, WireAfter, BridgesWithout, BookWithout

-----------------------------------------------------------------------------
(* Types.  TypeOK of LinkSync does not hold here: a wire may be Unshaped, and *)
(* the interfaces and addresses do not matter.                               *)

PassTypes ==
  /\ sim \in [Link -> SimStates] /\ dist \in [Link -> Delay] /\ delay \in [Link -> Delay]
  /\ known \subseteq Link /\ active \subseteq Link
  /\ toAdd \subseteq Link /\ toUpdate \subseteq Link /\ toRemove \subseteq Link
  /\ status \in BOOLEAN /\ pc \in Stages
  /\ adds \subseteq Link /\ upds \subseteq Link /\ dels \subseteq Link /\ pend \subseteq Link

HostTypes ==
  /\ wire \in [Link -> Delay \cup {Unwired, Unshaped}]
  /\ bridges \subseteq Station /\ book \subseteq bridges /\ nics \subseteq Station
  /\ ports \in [Station -> SUBSET (Link \cup {Nic})]
  /\ \A g \in Station : ports[g] \subseteq LinksOf(g) \cup {Nic}
  /\ unplugs \in 0..MaxUnplugs

\* The flags and lists of the pass keep their types.
LEMMA PassTypesStep ==
  ASSUME PassTypes, [HilNext]_hvars
  PROVE  PassTypes'
<1> USE DEF PassTypes
<1>1. CASE HilEnvironment
  <2>1. CASE Reconnect
    BY <2>1 DEF Reconnect, flagVars, passVars
  <2>2. CASE \E l \in Link, d \in Delay : Drift(l, d)
    BY <2>2 DEF Drift, Move, flagVars, passVars
  <2>3. CASE \E g \in Station : Unplug(g) \/ Plug(g)
    BY <2>3 DEF Unplug, Plug, vars, simVars, flagVars, passVars
  <2> QED
    BY <1>1, <2>1, <2>2, <2>3 DEF HilEnvironment
<1>2. CASE HilSync
  BY <1>2 DEF HilSync, Sync, simVars, Present, Enabled, Created, Vanished, WentUp, WentDown,
     Moved, SyncedAdd, SyncedRemove, SyncedUpdate, Stages
<1>3. CASE HilPassStep
  BY <1>3 DEF HilPassStep, HilDelete, HilAdd, HilUpdate, HilAddInterfaces, LocalDelete,
     UpdateFlags, LocalDone, simVars, flagVars, Stages
<1>4. CASE HilLifecycle
  BY <1>4 DEF HilLifecycle, HilStart, HilStop, HilSetIpAddresses, simVars, flagVars, passVars
<1>5. CASE UNCHANGED hvars
  BY <1>5 DEF hvars, vars, simVars, flagVars, passVars
<1> QED
  BY <1>1, <1>2, <1>3, <1>4, <1>5 DEF HilNext

\* So do the wires, the bridges and the book.
LEMMA HostTypesStep ==
  ASSUME PassTypes, HostTypes, [HilNext]_hvars
  PROVE  HostTypes'
<1> USE DEF PassTypes, HostTypes, LinksOf
<1>1. CASE Reconnect \/ (\E l \in Link, d \in Delay : Drift(l, d)) \/ HilSync
  BY <1>1 DEF Reconnect, Drift, Move, HilSync, Sync, emuVars, hilVars
<1>2. ASSUME NEW g \in Station, Unplug(g) \/ Plug(g) PROVE HostTypes'
  BY <1>2 DEF Unplug, Plug, vars, emuVars
<1>3. ASSUME NEW l \in Link, HilDelete(l) PROVE HostTypes'
  BY <1>3 DEF HilDelete, TeardownBridges
<1>4. ASSUME NEW l \in Link, HilAdd(l) PROVE HostTypes'
  <2>1. StationOf[l] \in Station /\ delay[l] \in Delay
    OBVIOUS
  <2> QED
    BY <1>4, <2>1 DEF HilAdd, SetupLink, NewPorts, hilVars
<1>5. ASSUME NEW l \in Link, HilUpdate(l) PROVE HostTypes'
  BY <1>5 DEF HilUpdate, hilVars
<1>6. CASE \/ \E l \in Link : HilAddInterfaces(l)
           \/ (LocalDelete \/ UpdateFlags \/ LocalDone) /\ UNCHANGED hilVars
  BY <1>6 DEF HilAddInterfaces, LocalDelete, UpdateFlags, LocalDone, emuVars, hilVars
<1>7. CASE HilStart
  <2>1. PICK first \in [Station -> SUBSET active] :
          /\ \A g \in Station : first[g] \subseteq LinksOf(g)
          /\ wire' = [l \in Link |->
               IF l \notin first[StationOf[l]] THEN Unwired
               ELSE IF StationOf[l] \in nics \ bridges THEN delay[l] ELSE Unshaped]
          /\ LET new == {g \in Station \ bridges : first[g] # {}}
             IN /\ bridges' = bridges \cup new
                /\ book' = book \cup (new \cap nics)
                /\ ports' = [g \in Station |-> IF g \in new THEN UNION {NewPorts(l) : l \in first[g]}
                                               ELSE ports[g]]
    BY <1>7 DEF HilStart
  <2>2. wire' \in [Link -> Delay \cup {Unwired, Unshaped}]
    BY <2>1
  <2>3. ASSUME NEW g \in Station
        PROVE  UNION {NewPorts(l) : l \in first[g]} \subseteq LinksOf(g) \cup {Nic}
    BY <2>1 DEF NewPorts
  <2>4. \A g \in Station : ports'[g] \subseteq LinksOf(g) \cup {Nic}
    BY <2>1, <2>3
  <2>5. ports' \in [Station -> SUBSET (Link \cup {Nic})]
    BY <2>1, <2>4
  <2> QED
    BY <1>7, <2>1, <2>2, <2>4, <2>5 DEF HilStart
<1>8. CASE HilStop
  BY <1>8 DEF HilStop, TeardownBridges
<1>9. CASE HilSetIpAddresses
  BY <1>9 DEF HilSetIpAddresses, hilVars
<1>10. CASE UNCHANGED hvars
  BY <1>10 DEF hvars, vars, emuVars, hilVars
<1> QED
  BY <1>1, <1>2, <1>3, <1>4, <1>5, <1>6, <1>7, <1>8, <1>9, <1>10
     DEF HilNext, HilEnvironment, HilPassStep, HilLifecycle

\* The types hold at the start.
LEMMA TypesInit == HilInit => PassTypes /\ HostTypes
<1> SUFFICES ASSUME HilInit PROVE PassTypes /\ HostTypes
  OBVIOUS
<1> USE DEF HilInit, Init
<1>1. sim \in [Link -> SimStates]
  OBVIOUS
<1>2. PassTypes
  BY <1>1 DEF PassTypes, Stages, Present, Enabled
<1>3. wire \in [Link -> Delay \cup {Unwired, Unshaped}]
  OBVIOUS
<1>4. HostTypes
  BY <1>3 DEF HostTypes
<1> QED
  BY <1>2, <1>4

\* Wires, bridges, ports and the book keep their types, whatever is unplugged.
THEOREM HilTypesCorrect == HilSpec => []HilTypeOK
<1>1. PassTypes /\ HostTypes /\ [HilNext]_hvars => (PassTypes /\ HostTypes)'
  BY PassTypesStep, HostTypesStep
<1>2. HostTypes => HilTypeOK
  BY DEF HostTypes, HilTypeOK
<1> QED
  BY <1>1, <1>2, TypesInit, PTL DEF HilSpec

-----------------------------------------------------------------------------
(* Wires and lists.  Every deletion of a hardware link succeeds, so outside  *)
(* of bulkDel a wire belongs to an active link; a pass without emulator has  *)
(* nothing to serve.                                                         *)

ListInv ==
  /\ ~status => Wires = {} /\ (pc \in {"bulkDel", "bulkAdd"} => pend = {})
  /\ toAdd \subseteq active /\ adds \subseteq active
  /\ pc = "bulkDel" => /\ toRemove = dels /\ adds \cap dels = {} /\ pend \subseteq dels
                       /\ Wires \ pend \subseteq active \ dels
  /\ pc # "bulkDel" => toRemove = {} /\ Wires \subseteq active

\* The lists of a pass agree with the wires.
LEMMA ListStep ==
  ASSUME PassTypes, HostTypes, ListInv, [HilNext]_hvars
  PROVE  ListInv'
<1> USE DEF PassTypes, HostTypes, ListInv
<1>1. CASE HilEnvironment
  BY <1>1 DEF HilEnvironment, Reconnect, Drift, Move, Unplug, Plug, flagVars, passVars, vars,
     simVars, emuVars, Wires
<1>2. CASE HilSync
  <2> USE <1>2 DEF HilSync, Sync, emuVars
  <2>1. Wires' = Wires /\ status' = status /\ pc' = "bulkDel" /\ pc = "idle"
    BY DEF Wires
  <2>2. /\ toAdd' \subseteq active' /\ adds' \subseteq active'
        /\ toRemove' = dels' /\ adds' \cap dels' = {} /\ pend' \subseteq dels'
    BY DEF SyncedAdd, WentUp, WentDown, Created
  <2>3. ASSUME NEW l \in Wires' \ pend' PROVE l \in active' \ dels'
    <3>1. l \in active /\ status /\ l \notin dels'
      BY <2>1, <2>3
    <3>2. l \notin WentDown
      BY <3>1 DEF SyncedRemove
    <3> QED
      BY <3>1, <3>2
  <2> QED
    BY ONLY <2>1, <2>2, <2>3, <1>2, ListInv DEF ListInv, HilSync, Sync
<1>3. ASSUME NEW l \in Link, HilDelete(l) PROVE ListInv'
  <2>1. Wires' = Wires \ {l} /\ pend' = pend \ {l}
    BY <1>3 DEF HilDelete, Wires
  <2> QED
    BY <1>3, <2>1 DEF HilDelete, simVars, flagVars
<1>4. CASE LocalDelete /\ UNCHANGED hilVars
  <2>1. Wires' = Wires
    BY <1>4 DEF LocalDelete, Wires, emuVars
  <2> QED
    BY <1>4, <2>1 DEF LocalDelete
<1>5. ASSUME NEW l \in Link, HilAdd(l) PROVE ListInv'
  <2>1. Wires' \subseteq Wires \cup {l} /\ pend' = pend \ {l} /\ l \in active /\ status
    BY <1>5 DEF HilAdd, SetupLink, Wires
  <2> QED
    BY <1>5, <2>1 DEF HilAdd, simVars, flagVars
<1>6. ASSUME NEW l \in Link, HilUpdate(l) PROVE ListInv'
  <2>1. Wires' = Wires
    BY <1>6 DEF HilUpdate, Wires
  <2> QED
    BY <1>6, <2>1 DEF HilUpdate, simVars, flagVars
<1>7. ASSUME NEW l \in Link, HilAddInterfaces(l) PROVE ListInv'
  <2>1. Wires' = Wires
    BY <1>7 DEF HilAddInterfaces, Wires
  <2> QED
    BY <1>7, <2>1 DEF HilAddInterfaces, simVars
<1>8. CASE (UpdateFlags \/ LocalDone) /\ UNCHANGED hilVars
  <2>1. Wires' = Wires
    BY <1>8 DEF UpdateFlags, LocalDone, emuVars, Wires
  <2> QED
    BY <1>8, <2>1 DEF UpdateFlags, LocalDone, flagVars
<1>9. CASE HilStart
  <2>1. Wires' \subseteq active
    BY <1>9 DEF HilStart, Wires
  <2> QED
    BY <1>9, <2>1 DEF HilStart, flagVars, passVars
<1>10. CASE HilStop
  <2>1. Wires' = {}
    BY <1>10 DEF HilStop, Wires
  <2> QED
    BY <1>10, <2>1 DEF HilStop, flagVars, passVars
<1>11. CASE HilSetIpAddresses \/ UNCHANGED hvars
  <2>1. Wires' = Wires
    BY <1>11 DEF HilSetIpAddresses, hvars, vars, emuVars, Wires
  <2> QED
    BY <1>11, <2>1 DEF HilSetIpAddresses, hvars, vars, flagVars, passVars
<1> QED
  BY <1>1, <1>2, <1>3, <1>4, <1>5, <1>6, <1>7, <1>8, <1>9, <1>10, <1>11
     DEF HilNext, HilPassStep, HilLifecycle

-----------------------------------------------------------------------------
(* Ports and names of a station. *)

\* A bridge has the veth of links that are wired, and a station has one wire.
PortInv ==
  /\ \A g \in Station : ports[g] \cap Link \subseteq Wires
  /\ \A l, m \in Wires : StationOf[l] = StationOf[m] => l = m

\* The first link of a station is one link.
LEMMA FirstLink ==
  ASSUME NEW S \in SUBSET Link, Cardinality(S) = 0 \/ Cardinality(S) = 1
  PROVE  \A l, m \in S : l = m
<1>1. IsFiniteSet(S)
  BY FS_Subset
<1>2. CASE Cardinality(S) = 0
  BY <1>1, <1>2, FS_EmptySet
<1>3. CASE Cardinality(S) = 1
  BY <1>1, <1>3, FS_Singleton
<1> QED
  BY <1>2, <1>3

\* Setting up and taking down keep one veth pair per station.
LEMMA PortStep ==
  ASSUME PassTypes, HostTypes, ListInv, PortInv, [HilNext]_hvars
  PROVE  PortInv'
<1> USE DEF PassTypes, HostTypes, PortInv
<1>1. CASE \/ Reconnect \/ (\E l \in Link, d \in Delay : Drift(l, d)) \/ HilSync
           \/ (\E g \in Station : Plug(g)) \/ (\E l \in Link : HilUpdate(l) \/ HilAddInterfaces(l))
           \/ (LocalDelete \/ UpdateFlags \/ LocalDone) /\ UNCHANGED hilVars
           \/ HilSetIpAddresses \/ UNCHANGED hvars
  <2>1. Wires' = Wires /\ ports' = ports
    BY <1>1 DEF Reconnect, Drift, Move, HilSync, Sync, Plug, HilUpdate, HilAddInterfaces,
       LocalDelete, UpdateFlags, LocalDone, HilSetIpAddresses, hvars, vars, emuVars, hilVars, Wires
  <2> QED
    BY <2>1
<1>2. ASSUME NEW g \in Station, Unplug(g) PROVE PortInv'
  <2>1. Wires' = Wires
    BY <1>2 DEF Unplug, vars, emuVars, Wires
  <2> QED
    BY <1>2, <2>1 DEF Unplug
<1>3. ASSUME NEW l \in Link, HilDelete(l) PROVE PortInv'
  <2>1. Wires' = Wires \ {l}
    BY <1>3 DEF HilDelete, Wires
  <2>2. ASSUME NEW g \in Station PROVE ports'[g] \cap Link \subseteq Wires \ {l}
    <3>1. CASE g = StationOf[l]
      BY <1>3, <3>1 DEF HilDelete
    <3>2. CASE g # StationOf[l]
      BY <1>3, <3>2 DEF HilDelete, LinksOf
    <3> QED
      BY <3>1, <3>2
  <2> QED
    BY <2>1, <2>2
<1>4. ASSUME NEW l \in Link, HilAdd(l) PROVE PortInv'
  <2>1. CASE ~VethFree(l)
    <3>1. wire' = wire /\ ports' = ports
      BY <1>4, <2>1 DEF HilAdd, SetupLink, hilVars
    <3> QED
      BY <3>1 DEF Wires
  <2>2. CASE VethFree(l)
    <3>1. Wires' = Wires \cup {l}
      BY <1>4, <2>2 DEF HilAdd, SetupLink, Wires
    <3>2. \A m \in Wires : StationOf[m] # StationOf[l]
      BY <2>2 DEF VethFree, LinksOf, Wires
    <3>3. \A g \in Station : ports'[g] \cap Link \subseteq Wires \cup {l}
      BY <1>4, <2>2 DEF HilAdd, SetupLink, NewPorts, hilVars
    <3> QED
      BY <3>1, <3>2, <3>3
  <2> QED
    BY <2>1, <2>2
<1>5. CASE HilStart
  <2>1. PICK first \in [Station -> SUBSET active] :
          /\ \A g \in Station :
               /\ first[g] \subseteq LinksOf(g)
               /\ Cardinality(first[g]) = IF LinksOf(g) \cap active = {} THEN 0 ELSE 1
          /\ wire' = [l \in Link |->
               IF l \notin first[StationOf[l]] THEN Unwired
               ELSE IF StationOf[l] \in nics \ bridges THEN delay[l] ELSE Unshaped]
          /\ LET new == {g \in Station \ bridges : first[g] # {}}
             IN ports' = [g \in Station |-> IF g \in new THEN UNION {NewPorts(l) : l \in first[g]}
                                            ELSE ports[g]]
    BY <1>5 DEF HilStart
  <2>2. Wires' = {l \in Link : l \in first[StationOf[l]]}
    BY <2>1 DEF Wires
  <2>3. ASSUME NEW g \in Station PROVE \A l, m \in first[g] : l = m
    <3>1. first[g] \in SUBSET Link /\ (Cardinality(first[g]) = 0 \/ Cardinality(first[g]) = 1)
      BY <2>1
    <3> QED
      BY <3>1, FirstLink
  <2>4. ASSUME NEW g \in Station PROVE ports'[g] \cap Link \subseteq Wires'
    <3>1. ports[g] \cap Link = {}
      BY <1>5 DEF HilStart, ListInv
    <3>2. (UNION {NewPorts(l) : l \in first[g]}) \cap Link \subseteq first[g]
      BY DEF NewPorts
    <3>3. first[g] \subseteq Wires'
      BY <2>1, <2>2 DEF LinksOf
    <3> QED
      BY <2>1, <3>1, <3>2, <3>3
  <2> QED
    BY <2>2, <2>3, <2>4
<1>6. CASE HilStop
  <2>1. Wires' = {} /\ \A g \in Station : ports'[g] \cap Link = {}
    BY <1>6 DEF HilStop, Wires
  <2> QED
    BY <2>1
<1> QED
  BY <1>1, <1>2, <1>3, <1>4, <1>5, <1>6 DEF HilNext, HilEnvironment, HilPassStep, HilLifecycle

\* Whatever is unplugged and however many satellites serve a station, between two
\* passes no bridge holds the veth of a link that is down, and no station has two.
THEOREM NoForeignVethCorrect == HilSpec => []NoForeignVeth
<1> DEFINE IInvH == PassTypes /\ HostTypes /\ ListInv /\ PortInv
<1>1. HilInit => IInvH
  <2>1. HilInit => ListInv /\ PortInv
    BY DEF HilInit, Init, ListInv, PortInv, Wires
  <2> QED
    BY <2>1, TypesInit
<1>2. IInvH /\ [HilNext]_hvars => IInvH'
  BY PassTypesStep, HostTypesStep, ListStep, PortStep
<1>3. IInvH => NoForeignVeth
  BY DEF ListInv, PortInv, NoForeignVeth
<1> QED
  BY <1>1, <1>2, <1>3, PTL DEF HilSpec

-----------------------------------------------------------------------------
(* The book of bridges. *)

\* While all hardware is there the book has every bridge, and a stopped emulator none.
RecordInv ==
  unplugs = 0 => nics = Station /\ bridges = book /\ (~status => bridges = {})

\* Setting up puts the bridges it creates on record, taking down goes by the book.
LEMMA RecordStep ==
  ASSUME PassTypes, HostTypes, ListInv, RecordInv, [HilNext]_hvars
  PROVE  RecordInv'
<1> USE DEF PassTypes, HostTypes, RecordInv
<1>1. CASE \/ Reconnect \/ (\E l \in Link, d \in Delay : Drift(l, d)) \/ HilSync
           \/ (\E l \in Link : HilUpdate(l) \/ HilAddInterfaces(l))
           \/ (LocalDelete \/ UpdateFlags \/ LocalDone) /\ UNCHANGED hilVars
           \/ HilSetIpAddresses \/ UNCHANGED hvars
  BY <1>1 DEF Reconnect, Drift, Move, HilSync, Sync, HilUpdate, HilAddInterfaces, LocalDelete,
     UpdateFlags, LocalDone, HilSetIpAddresses, hvars, vars, hilVars
<1>2. ASSUME NEW g \in Station, Unplug(g) \/ Plug(g) PROVE RecordInv'
  BY <1>2 DEF Unplug, Plug, vars
<1>3. ASSUME NEW l \in Link, HilDelete(l) PROVE RecordInv'
  <2>1. status /\ status' = status
    BY <1>3 DEF HilDelete, ListInv
  <2> QED
    BY <1>3, <2>1 DEF HilDelete, TeardownBridges
<1>4. ASSUME NEW l \in Link, HilAdd(l) PROVE RecordInv'
  <2>1. status /\ status' = status
    BY <1>4 DEF HilAdd, ListInv
  <2>2. CASE bridges' = bridges /\ book' = book /\ nics' = nics /\ unplugs' = unplugs
    BY <2>1, <2>2
  <2>3. CASE /\ bridges' = bridges \cup {StationOf[l]} /\ nics' = nics /\ unplugs' = unplugs
             /\ book' = IF StationOf[l] \in nics THEN book \cup {StationOf[l]} ELSE book
    BY <2>1, <2>3
  <2> QED
    BY <1>4, <2>2, <2>3 DEF HilAdd, SetupLink, hilVars
<1>5. CASE HilStart
  BY <1>5 DEF HilStart
<1>6. CASE HilStop
  BY <1>6 DEF HilStop, TeardownBridges
<1> QED
  BY <1>1, <1>2, <1>3, <1>4, <1>5, <1>6 DEF HilNext, HilEnvironment, HilPassStep, HilLifecycle

\* As long as no hardware disappears, a stopped emulator leaves no bridge on the host.
THEOREM TeardownCorrect == HilSpec => []TeardownComplete
<1> DEFINE IInvH == PassTypes /\ HostTypes /\ ListInv /\ RecordInv
<1>1. HilInit => IInvH
  <2>1. HilInit => ListInv /\ RecordInv
    BY DEF HilInit, Init, ListInv, RecordInv, Wires
  <2> QED
    BY <2>1, TypesInit
<1>2. IInvH /\ [HilNext]_hvars => IInvH'
  BY PassTypesStep, HostTypesStep, ListStep, RecordStep
<1>3. IInvH => TeardownComplete
  BY DEF RecordInv, TeardownComplete
<1> QED
  BY <1>1, <1>2, <1>3, PTL DEF HilSpec

-----------------------------------------------------------------------------
(* Hand-overs, of stations that one satellite serves at a time and links     *)
(* that are never disabled.                                                  *)

\* One link per station.
OnePerStation(ls) == \A l, m \in ls : StationOf[l] = StationOf[m] => l = m

\* The simulation has one link per station, and so have the wrappers without
\* the links of the pass that vanished; what is active and not wired will be.
ServeInv ==
  /\ OnePerStation(Present) /\ Present = Enabled
  /\ known = active /\ OnePerStation(active \ dels) /\ adds \cap upds = {}
  /\ pc \in {"idle", "localAdd", "bulkAdd"} => dels = {}
  /\ status /\ pc = "bulkDel" => pend \subseteq Wires /\ active \ (Wires \cup dels) \subseteq adds
  /\ status /\ pc = "bulkAdd" => active \ Wires \subseteq adds \cap pend
  /\ status /\ pc \in {"idle", "localAdd"} => active \subseteq Wires

\* A station has a bridge when it has a wire, and the wire and the hardware are
\* its ports.
BridgeInv ==
  status /\ unplugs = 0 => \A g \in Station :
    IF g \in bridges THEN \E l \in LinksOf(g) \cap Wires : ports[g] = {l, Nic}
                     ELSE LinksOf(g) \cap Wires = {}

\* MaxLinks = 1 gives a station one link.
LEMMA OneLinkEach ==
  ASSUME MaxLinks = 1, "disabled" \notin LinkStates, NEW f \in [Link -> LinkStates], Limited(f)
  PROVE  /\ {l \in Link : f[l] # "absent"} = {l \in Link : f[l] = "enabled"}
         /\ OnePerStation({l \in Link : f[l] # "absent"})
<1>1. {l \in Link : f[l] # "absent"} = {l \in Link : f[l] = "enabled"}
  BY DEF SimStates
<1>2. ASSUME NEW l \in Link, NEW m \in Link, f[l] = "enabled", f[m] = "enabled",
             StationOf[l] = StationOf[m], l # m
      PROVE  FALSE
  <2> DEFINE S == {k \in LinksOf(StationOf[l]) : f[k] = "enabled"}
  <2>1. IsFiniteSet(S)
    BY FS_Subset DEF LinksOf
  <2>2. {l, m} \subseteq S
    BY <1>2 DEF LinksOf
  <2>3. Cardinality(S) <= 1
    BY DEF Limited
  <2>4. Cardinality(S) \in Nat
    BY <2>1, FS_CardinalityType
  <2>5. Cardinality(S) = 0 \/ Cardinality(S) = 1
    BY <2>3, <2>4
  <2>6. S \in SUBSET Link
    BY DEF LinksOf
  <2>7. \A x, y \in S : x = y
    BY <2>5, <2>6, FirstLink
  <2> QED
    BY <2>2, <2>7, <1>2
<1>3. OnePerStation({l \in Link : f[l] = "enabled"})
  BY <1>2 DEF OnePerStation
<1> QED
  BY <1>1, <1>3

\* The links of a pass are served one by one, and the last step of a stage finds
\* all of them served.
LEMMA ServeStep ==
  ASSUME MaxLinks = 1, "disabled" \notin LinkStates,
         PassTypes, HostTypes, ListInv, PortInv, ServeInv, [HilNext]_hvars
  PROVE  ServeInv'
<1> USE DEF PassTypes, HostTypes, ListInv, ServeInv
<1>1. CASE Reconnect
  <2>1. PICK f \in [Link -> LinkStates] : Limited(f) /\ sim' = f
    BY <1>1 DEF Reconnect
  <2>2. /\ Present' = {l \in Link : f[l] # "absent"}
        /\ Enabled' = {l \in Link : f[l] = "enabled"}
    BY <2>1 DEF Present, Enabled
  <2>3. OnePerStation(Present') /\ Present' = Enabled'
    BY <2>1, <2>2, OneLinkEach
  <2>4. UNCHANGED <<flagVars, passVars, status>> /\ Wires' = Wires
    BY <1>1 DEF Reconnect, emuVars, Wires
  <2> QED
    BY <2>3, <2>4 DEF flagVars, passVars
<1>2. CASE HilSync
  <2> USE <1>2 DEF HilSync, Sync, simVars, emuVars
  <2>1. Wires' = Wires /\ Present' = Present /\ Enabled' = Enabled
    BY DEF Wires, Present, Enabled
  <2>2. WentUp = {} /\ WentDown = {} /\ Created \cap Enabled = Present \ known
    BY DEF WentUp, WentDown, Created
  <2>3. /\ known' = active' /\ active' = active \cup Present
        /\ dels' = active \ Present /\ active' \ dels' = Present
    BY <2>2 DEF SyncedRemove, Vanished
  <2>4. status => pend' = dels' /\ pend' \subseteq Wires'
    BY <2>1, <2>3
  <2>5. status => active' \ (Wires' \cup dels') \subseteq adds'
    BY <2>1, <2>2, <2>3 DEF SyncedAdd
  <2>6. adds' \cap upds' = {}
    OBVIOUS
  <2> QED
    BY <2>1, <2>3, <2>4, <2>5, <2>6
<1>3. ASSUME NEW l \in Link, HilDelete(l) PROVE ServeInv'
  <2>1. Wires' = Wires \ {l} /\ Present' = Present /\ Enabled' = Enabled
    BY <1>3 DEF HilDelete, Wires, Present, Enabled, simVars
  <2>2. /\ l \in pend /\ pend' = pend \ {l} /\ pc = "bulkDel"
        /\ UNCHANGED <<known, active, toAdd, toRemove, pc, status, adds, upds, dels>>
    BY <1>3 DEF HilDelete, flagVars
  <2>3. ASSUME status PROVE pend' \subseteq Wires' /\ active' \ (Wires' \cup dels') \subseteq adds'
    <3>1. pend \subseteq Wires /\ active \ (Wires \cup dels) \subseteq adds /\ l \in dels
      BY <2>2, <2>3
    <3> QED
      BY <2>1, <2>2, <3>1
  <2> QED
    BY <2>1, <2>2, <2>3
<1>4. CASE LocalDelete /\ UNCHANGED hilVars
  <2>1. Wires' = Wires /\ Present' = Present /\ Enabled' = Enabled
    BY <1>4 DEF LocalDelete, Wires, Present, Enabled, simVars, emuVars
  <2> QED
    BY <1>4, <2>1 DEF LocalDelete
<1>5. ASSUME NEW l \in Link, HilAdd(l) PROVE ServeInv'
  <2>1. Present' = Present /\ Enabled' = Enabled /\ l \in active
    BY <1>5 DEF HilAdd, Present, Enabled, simVars
  <2>2. Wires' = Wires \cup {l}
    <3>1. CASE ~VethFree(l)
      <4>1. PICK m \in Wires : StationOf[m] = StationOf[l]
        BY <3>1 DEF VethFree, LinksOf, Wires
      <4>2. m = l
        BY <1>5, <4>1, <2>1 DEF HilAdd, OnePerStation
      <4> QED
        BY <1>5, <3>1, <4>1, <4>2 DEF HilAdd, SetupLink, Wires
    <3>2. CASE VethFree(l)
      BY <1>5, <3>2 DEF HilAdd, SetupLink, Wires
    <3> QED
      BY <3>1, <3>2
  <2> QED
    BY <1>5, <2>1, <2>2 DEF HilAdd, flagVars
<1>6. ASSUME NEW l \in Link, HilUpdate(l) PROVE ServeInv'
  <2>1. Wires' = Wires /\ Present' = Present /\ Enabled' = Enabled
    BY <1>6 DEF HilUpdate, Wires, Present, Enabled, simVars
  <2>2. l \in upds /\ pend' = pend \ {l}
    BY <1>6 DEF HilUpdate
  <2>3. adds \cap pend' = adds \cap pend
    BY <2>2
  <2> QED
    BY <1>6, <2>1, <2>2, <2>3 DEF HilUpdate, flagVars
<1>7. ASSUME NEW l \in Link, HilAddInterfaces(l) PROVE ServeInv'
  <2>1. Wires' = Wires /\ Present' = Present /\ Enabled' = Enabled
    BY <1>7 DEF HilAddInterfaces, Wires, Present, Enabled, simVars
  <2> QED
    BY <1>7, <2>1 DEF HilAddInterfaces
<1>8. CASE (UpdateFlags \/ LocalDone) /\ UNCHANGED hilVars
  <2>1. Wires' = Wires /\ Present' = Present /\ Enabled' = Enabled
    BY <1>8 DEF UpdateFlags, LocalDone, emuVars, simVars, Wires, Present, Enabled
  <2>2. CASE UpdateFlags
    <3>1. status => active \subseteq Wires
      BY <2>2 DEF UpdateFlags
    <3> QED
      BY <2>1, <2>2, <3>1 DEF UpdateFlags
  <2>3. CASE LocalDone
    BY <2>1, <2>3 DEF LocalDone, flagVars
  <2> QED
    BY <1>8, <2>2, <2>3
<1>9. CASE HilStart
  <2>1. Present' = Present /\ Enabled' = Enabled
    BY <1>9 DEF HilStart, simVars, Present, Enabled
  <2>2. PICK first \in [Station -> SUBSET active] :
          /\ \A g \in Station :
               /\ first[g] \subseteq LinksOf(g)
               /\ Cardinality(first[g]) = IF LinksOf(g) \cap active = {} THEN 0 ELSE 1
          /\ wire' = [l \in Link |->
               IF l \notin first[StationOf[l]] THEN Unwired
               ELSE IF StationOf[l] \in nics \ bridges THEN delay[l] ELSE Unshaped]
    BY <1>9 DEF HilStart
  <2>3. ASSUME NEW l \in active PROVE l \in Wires'
    <3>1. Cardinality(first[StationOf[l]]) = 1
      BY <2>2, <2>3 DEF LinksOf
    <3>2. PICK m \in first[StationOf[l]] : TRUE
      <4>1. first[StationOf[l]] # {}
        <5>1. Cardinality({}) = 0
          BY FS_EmptySet
        <5> QED
          BY ONLY <3>1, <5>1
      <4> QED
        BY <4>1
    <3>3. m = l
      BY <1>9, <2>2, <3>2 DEF HilStart, LinksOf, OnePerStation
    <3> QED
      BY <2>2, <3>2, <3>3 DEF Wires
  <2> QED
    BY <1>9, <2>1, <2>3 DEF HilStart, flagVars, passVars
<1>10. CASE HilStop
  BY <1>10 DEF HilStop, simVars, flagVars, passVars, Present, Enabled
<1>11. CASE \/ (\E l \in Link, d \in Delay : Drift(l, d))
            \/ (\E g \in Station : Unplug(g) \/ Plug(g))
            \/ HilSetIpAddresses \/ UNCHANGED hvars
  <2>1. /\ Wires' = Wires /\ Present' = Present /\ Enabled' = Enabled
        /\ UNCHANGED <<flagVars, passVars, status>>
    BY <1>11 DEF Drift, Move, Unplug, Plug, HilSetIpAddresses, hvars, vars, simVars, emuVars,
       Present, Enabled, Wires
  <2> QED
    BY <2>1 DEF flagVars, passVars
<1> QED
  BY <1>1, <1>2, <1>3, <1>4, <1>5, <1>6, <1>7, <1>8, <1>9, <1>10, <1>11
     DEF HilNext, HilEnvironment, HilPassStep, HilLifecycle

\* As long as all hardware is there, a bridge is built with a wire and torn down
\* with it.
LEMMA BridgeStep ==
  ASSUME MaxLinks = 1, PassTypes, HostTypes, ListInv, PortInv, RecordInv, ServeInv, BridgeInv,
         [HilNext]_hvars
  PROVE  BridgeInv'
<1> SUFFICES ASSUME status', unplugs' = 0, NEW g \in Station
             PROVE  IF g \in bridges' THEN \E l \in LinksOf(g) \cap Wires' : ports'[g] = {l, Nic}
                                      ELSE LinksOf(g) \cap Wires' = {}
  BY DEF BridgeInv, LinksOf
<1> USE DEF PassTypes, HostTypes
<1>a. ASSUME status, unplugs = 0
      PROVE  IF g \in bridges THEN \E l \in LinksOf(g) \cap Wires : ports[g] = {l, Nic}
                              ELSE LinksOf(g) \cap Wires = {}
  BY <1>a DEF BridgeInv
<1>1. CASE \/ Reconnect \/ (\E l \in Link, d \in Delay : Drift(l, d)) \/ HilSync
           \/ (\E h \in Station : Plug(h)) \/ (\E l \in Link : HilUpdate(l) \/ HilAddInterfaces(l))
           \/ (LocalDelete \/ UpdateFlags \/ LocalDone) /\ UNCHANGED hilVars
           \/ HilSetIpAddresses \/ UNCHANGED hvars
  <2>1. UNCHANGED <<ports, bridges, status, unplugs>>
    BY <1>1 DEF Reconnect, Drift, Move, HilSync, Sync, Plug, HilUpdate, HilAddInterfaces,
       LocalDelete, UpdateFlags, LocalDone, HilSetIpAddresses, hvars, vars, emuVars, hilVars
  <2>2. CASE \E l \in Link : HilUpdate(l)
    <3>1. PICK l \in Link : wire' = [wire EXCEPT ![l] = IF @ \in Delay THEN delay[l] ELSE @]
      BY <2>2 DEF HilUpdate
    <3>2. delay[l] \in Delay /\ Unwired \notin Delay
      OBVIOUS
    <3> QED
      BY <1>a, <2>1, <3>1, <3>2 DEF Wires
  <2>3. CASE wire' = wire
    BY <1>a, <2>1, <2>3 DEF Wires
  <2>4. wire' = wire \/ \E l \in Link : HilUpdate(l)
    BY <1>1 DEF Reconnect, Drift, Move, HilSync, Sync, Plug, HilAddInterfaces,
       LocalDelete, UpdateFlags, LocalDone, HilSetIpAddresses, hvars, vars, emuVars
  <2> QED
    BY <2>2, <2>3, <2>4
<1>2. ASSUME NEW h \in Station, Unplug(h) PROVE FALSE
  BY <1>2 DEF Unplug
<1>3. CASE \E l \in Link : HilDelete(l)
  <2>1. PICK l \in Link : HilDelete(l)
    BY <1>3
  <2>2. /\ status /\ unplugs = 0 /\ l \in Wires /\ Wires' = Wires \ {l} /\ bridges = book
    BY <2>1 DEF HilDelete, TeardownBridges, ListInv, ServeInv, RecordInv, Wires
  <2>3. CASE g = StationOf[l]
    <3>1. g \notin bridges'
      BY <2>1, <2>2, <2>3 DEF HilDelete, TeardownBridges
    <3>2. LinksOf(g) \cap Wires' = {}
      BY <2>2, <2>3 DEF PortInv, LinksOf
    <3> QED
      BY <3>1, <3>2
  <2>4. CASE g # StationOf[l]
    <3>1. ports'[g] = ports[g] /\ (g \in bridges' <=> g \in bridges)
      BY <2>1, <2>2, <2>4 DEF HilDelete, TeardownBridges
    <3>2. LinksOf(g) \cap Wires' = LinksOf(g) \cap Wires
      BY <2>2, <2>4 DEF LinksOf
    <3> QED
      BY <1>a, <2>2, <3>1, <3>2
  <2> QED
    BY <2>3, <2>4
<1>4. CASE \E l \in Link : HilAdd(l)
  <2>1. PICK l \in Link : HilAdd(l)
    BY <1>4
  <2>2. status /\ unplugs = 0 /\ nics = Station
    BY <2>1 DEF HilAdd, SetupLink, hilVars, RecordInv
  <2>3. CASE ~VethFree(l)
    <3>1. Wires' = Wires /\ ports' = ports /\ bridges' = bridges
      BY <2>1, <2>3 DEF HilAdd, SetupLink, hilVars, Wires
    <3> QED
      BY <1>a, <2>2, <3>1
  <2>4. CASE VethFree(l)
    <3>1. StationOf[l] \notin bridges
      <4>1. LinksOf(StationOf[l]) \cap Wires = {}
        BY <2>4 DEF VethFree, Wires, LinksOf
      <4> QED
        BY <2>2, <4>1 DEF BridgeInv
    <3>2. /\ Wires' = Wires \cup {l} /\ bridges' = bridges \cup {StationOf[l]}
          /\ ports' = [ports EXCEPT ![StationOf[l]] = {l, Nic}]
      BY <2>1, <2>2, <2>4, <3>1 DEF HilAdd, SetupLink, NewPorts, Wires
    <3>3. CASE g = StationOf[l]
      BY <3>2, <3>3 DEF LinksOf
    <3>4. CASE g # StationOf[l]
      BY <1>a, <2>2, <3>2, <3>4 DEF LinksOf
    <3> QED
      BY <3>3, <3>4
  <2> QED
    BY <2>3, <2>4
<1>5. CASE HilStart
  <2>1. bridges = {} /\ nics = Station
    BY <1>5 DEF HilStart, RecordInv
  <2>2. PICK first \in [Station -> SUBSET active] :
          /\ \A h \in Station :
               /\ first[h] \subseteq LinksOf(h)
               /\ Cardinality(first[h]) = IF LinksOf(h) \cap active = {} THEN 0 ELSE 1
          /\ wire' = [l \in Link |->
               IF l \notin first[StationOf[l]] THEN Unwired
               ELSE IF StationOf[l] \in nics \ bridges THEN delay[l] ELSE Unshaped]
          /\ LET new == {h \in Station \ bridges : first[h] # {}}
             IN /\ bridges' = bridges \cup new
                /\ ports' = [h \in Station |-> IF h \in new THEN UNION {NewPorts(l) : l \in first[h]}
                                               ELSE ports[h]]
    BY <1>5 DEF HilStart
  <2>3. LinksOf(g) \cap Wires' = first[g]
    BY <2>2 DEF LinksOf, Wires
  <2>4. CASE first[g] = {}
    BY <2>1, <2>2, <2>3, <2>4
  <2>5. CASE first[g] # {}
    <3>1. g \in bridges' /\ ports'[g] = UNION {NewPorts(l) : l \in first[g]}
      BY <2>1, <2>2, <2>5
    <3>2. PICK l \in first[g] : \A m \in first[g] : m = l
      <4>1. first[g] \in SUBSET Link /\ (Cardinality(first[g]) = 0 \/ Cardinality(first[g]) = 1)
        BY <2>2
      <4> QED
        BY <2>5, <4>1, FirstLink
    <3>3. NewPorts(l) = {l, Nic}
      BY <2>1, <2>2 DEF NewPorts, LinksOf
    <3>4. ports'[g] = {l, Nic}
      <4>1. first[g] = {l}
        BY <3>2
      <4> QED
        BY <3>1, <3>3, <4>1
    <3> QED
      BY <2>3, <3>1, <3>4
  <2> QED
    BY <2>4, <2>5
<1>6. CASE HilStop
  BY <1>6 DEF HilStop
<1> QED
  BY <1>1, <1>2, <1>3, <1>4, <1>5, <1>6 DEF HilNext, HilEnvironment, HilPassStep, HilLifecycle

\* However a station is handed over, between two passes its hardware is bridged to
\* the veth of the satellite that serves it, and to nothing else.
THEOREM BridgedCorrect ==
  ASSUME MaxLinks = 1, "disabled" \notin LinkStates
  PROVE  HilSpec => []BridgedToActive
<1> DEFINE IInvH == /\ PassTypes /\ HostTypes /\ ListInv /\ PortInv /\ RecordInv
                    /\ ServeInv /\ BridgeInv
<1>1. HilInit => IInvH
  <2> SUFFICES ASSUME HilInit PROVE IInvH
    OBVIOUS
  <2>1. Limited(sim) /\ sim \in [Link -> LinkStates]
    BY DEF HilInit, Init
  <2>2. OnePerStation(Present) /\ Present = Enabled
    BY <2>1, OneLinkEach DEF Present, Enabled
  <2>3. ServeInv
    BY <2>2 DEF HilInit, Init, ServeInv, OnePerStation
  <2>4. ListInv /\ PortInv /\ RecordInv /\ BridgeInv
    BY DEF HilInit, Init, ListInv, PortInv, RecordInv, BridgeInv, Wires
  <2> QED
    BY <2>3, <2>4, TypesInit
<1>2. IInvH /\ [HilNext]_hvars => IInvH'
  BY PassTypesStep, HostTypesStep, ListStep, PortStep, RecordStep, ServeStep, BridgeStep
<1>3. IInvH => BridgedToActive
  <2> SUFFICES ASSUME IInvH, pc = "idle", status, unplugs = 0, NEW g \in Station,
                      NEW l \in Link, LinksOf(g) \cap active = {l}
               PROVE  ports[g] = {l, Nic}
    BY DEF BridgedToActive
  <2>1. LinksOf(g) \cap Wires = {l}
    BY DEF ListInv, ServeInv
  <2> QED
    BY <2>1 DEF BridgeInv
<1> QED
  BY <1>1, <1>2, <1>3, PTL DEF HilSpec
=============================================================================

---------------------------- MODULE SessionProofs ----------------------------
(* Proofs about Session, for any number of loop threads, links, projects and  *)
(* failing steps.                                                             *)
EXTENDS Session, FiniteSetTheorems, TLAPS

USE BoundAssumption, NoneAssumption DEF Joined, Stopping, Alive, NewLauncher, Closed

-----------------------------------------------------------------------------
(* Types. *)

\* TypeOK in three parts, with what makes it inductive: a stop() returns to the
\* user or to the teardown, and there is room for the project that is being opened.
Flags ==
  /\ force \in BOOLEAN /\ running \in BOOLEAN /\ stopEvt \in BOOLEAN
  /\ status \in BOOLEAN /\ isOn \in BOOLEAN /\ client \in BOOLEAN

Data ==
  /\ pc \in UserSteps /\ back \in {"idle", "teardown"} /\ current \in Thread \cup {None}
  /\ loop \in [Thread -> {"check", "update", "wait", "finally", "ended"}]
  /\ links \subseteq Link /\ active \subseteq Link /\ drift \subseteq Link
  /\ fresh \in Project \cup {None} /\ launcher \in Project \cup {None}
  /\ opened \in 0..MaxStarts /\ faults \in 0..MaxFaults
  /\ open \subseteq Project /\ cont \subseteq Project /\ orphans \subseteq Project
  /\ wires \in [Project -> SUBSET Link]
  /\ pc = "open" => opened < MaxStarts

Attached ==
  /\ isOn \/ client => launcher # None
  /\ pc \in {"topology", "attach"} => fresh # None

TypeInv == Flags /\ Data /\ Attached

\* The three parts give TypeOK.
LEMMA TypeParts == TypeInv => TypeOK
  BY Zenon DEF TypeInv, Flags, Data, Attached, TypeOK, UserSteps

\* A step keeps the types of the flags.
LEMMA FlagsStep ==
  ASSUME Flags, [Next]_vars
  PROVE  Flags'
  BY DEF Flags, Next, User, Loop, LoopCheck, LoopUpdate, LoopWait, LoopFinally, Start,
     StartClear, StartRun, StartSpawn, Stop, BeginStop, StopUnset, StopJoin, NextStep,
     StartGonetem, OpenProject, TopologyRun, Attach, CleanupFailedStart, StopGonetem,
     ForceStopGonetem, Teardown, CloseProject, UserStep, vars, loopVars, emuVars

\* The number of the next project is a project.
LEMMA NextProject ==
  ASSUME Data, pc = "open"
  PROVE  opened + 1 \in Project
  BY DEF Data, Project

\* A launcher that is on has a project, and a start has the one it opened.
LEMMA AttachedStep ==
  ASSUME TypeInv, [Next]_vars
  PROVE  Attached'
<1>1. CASE OpenProject
  BY <1>1, NextProject DEF TypeInv, Data, Attached, OpenProject, UserStep, emuVars
<1>2. CASE ~OpenProject
  BY <1>2 DEF TypeInv, Data, Attached, Next, User, Loop, LoopCheck, LoopUpdate, LoopWait,
     LoopFinally, Start, StartClear, StartRun, StartSpawn, Stop, BeginStop, StopUnset,
     StopJoin, NextStep, StartGonetem, TopologyRun, Attach, CleanupFailedStart, StopGonetem,
     ForceStopGonetem, Teardown, CloseProject, UserStep, vars, startVars, loopVars, emuVars
<1> QED
  BY <1>1, <1>2

\* A pass moves links and wires within their types.
LEMMA PassType ==
  ASSUME TypeInv, UpdateSimulation
  PROVE  /\ links' \subseteq Link /\ drift' \subseteq Link
         /\ wires' \in [Project -> SUBSET Link]
<1> USE DEF TypeInv, Data
<1>1. links' \subseteq Link /\ drift' \subseteq Link
  BY DEF UpdateSimulation, Changed
<1>2. CASE status /\ client
  <2>1. launcher \in Project /\ wires[launcher] \subseteq Link
    BY <1>2 DEF Attached
  <2>2. wires' = [wires EXCEPT ![launcher] = Rewired(wires[launcher], links')]
    BY <1>2 DEF UpdateSimulation
  <2> QED
    BY <1>1, <2>1, <2>2 DEF Rewired
<1>3. CASE ~(status /\ client)
  BY <1>1, <1>3 DEF UpdateSimulation
<1> QED
  BY <1>1, <1>2, <1>3

\* Threads, links, projects and wires keep their types.
LEMMA DataStep ==
  ASSUME TypeInv, [Next]_vars
  PROVE  Data'
<1>a. Data /\ Attached
  BY DEF TypeInv
<1> USE <1>a DEF Data, UserSteps
<1>1. ASSUME NEW t \in Thread, LoopCheck(t) \/ LoopWait(t) \/ LoopFinally(t) PROVE Data'
  BY <1>1 DEF LoopCheck, LoopWait, LoopFinally, LoopStep, startVars, emuVars, serverVars, histVars
<1>2. ASSUME NEW t \in Thread, LoopUpdate(t) PROVE Data'
  BY <1>2, PassType DEF LoopUpdate, LoopStep, Fault, startVars, emuVars
<1>3. CASE Start \/ StartClear \/ StartRun
  BY <1>3 DEF Start, StartClear, StartRun, UserStep, loopVars, startVars, emuVars, serverVars,
     histVars
<1>4. CASE Stop \/ StopUnset \/ StopJoin
  BY <1>4 DEF Stop, BeginStop, StopUnset, StopJoin, UserStep, loopVars, startVars, emuVars,
     serverVars, histVars
<1>5. CASE StartSpawn
  BY <1>5 DEF StartSpawn, LoopStep, UserStep, startVars, emuVars, serverVars, histVars
<1>6. CASE NextStep
  BY <1>6, PassType DEF NextStep, loopVars, startVars, emuVars
<1>7. CASE StartGonetem
  BY <1>7 DEF StartGonetem, UserStep, loopVars, emuVars, serverVars
<1>8. CASE OpenProject
  <2>1. opened + 1 \in Project
    BY <1>8, NextProject DEF OpenProject, UserStep
  <2>2. /\ open' \subseteq Project /\ orphans' \subseteq Project
        /\ fresh' \in Project \cup {None} /\ pc' \in {"topology", "cleanup"}
    BY <1>8, <2>1 DEF OpenProject, UserStep
  <2>3. opened' \in 0..MaxStarts
    BY <1>8, <2>1 DEF OpenProject, Project, UserStep
  <2>4. faults' \in 0..MaxFaults
    BY <1>8 DEF OpenProject, Fault
  <2> QED
    BY <1>8, <2>2, <2>3, <2>4 DEF OpenProject, loopVars, emuVars
<1>9. CASE TopologyRun
  <2>1. fresh \in Project /\ pc' \in {"attach", "cleanup"}
    BY <1>9 DEF TopologyRun, UserStep, Attached
  <2>2. wires' \in [Project -> SUBSET Link] /\ cont' \subseteq Project /\ faults' \in 0..MaxFaults
    BY <1>9, <2>1 DEF TopologyRun, Fault
  <2> QED
    BY <1>9, <2>1, <2>2 DEF TopologyRun, loopVars, startVars, emuVars
<1>10. CASE Attach
  BY <1>10 DEF Attach, UserStep, loopVars, serverVars, histVars
<1>11. CASE CleanupFailedStart
  <2>1. wires' \in [Project -> SUBSET Link] /\ open' \subseteq Project
    BY <1>11 DEF CleanupFailedStart
  <2>2. faults' \in 0..MaxFaults /\ orphans' \subseteq Project
    BY <1>11 DEF CleanupFailedStart, Fault
  <2> QED
    BY <1>11, <2>1, <2>2 DEF CleanupFailedStart, UserStep, loopVars, emuVars
<1>12. CASE StopGonetem \/ ForceStopGonetem \/ Teardown
  BY <1>12 DEF StopGonetem, BeginStop, ForceStopGonetem, Teardown, UserStep, loopVars,
     startVars, emuVars, serverVars, histVars
<1>13. CASE CloseProject
  <2>1. wires' \in [Project -> SUBSET Link] /\ open' \subseteq Project /\ cont' \subseteq Project
    BY <1>13 DEF CloseProject, serverVars
  <2>2. faults' \in 0..MaxFaults
    BY <1>13 DEF CloseProject, Fault
  <2>3. orphans' \subseteq Project
    BY <1>13 DEF CloseProject, Attached
  <2> QED
    BY <1>13, <2>1, <2>2, <2>3 DEF CloseProject, UserStep, loopVars, startVars
<1>14. CASE UNCHANGED vars
  BY <1>14 DEF vars, loopVars, startVars, emuVars, serverVars, histVars
<1> QED
  BY <1>1, <1>2, <1>3, <1>4, <1>5, <1>6, <1>7, <1>8, <1>9, <1>10, <1>11, <1>12, <1>13, <1>14
     DEF Next, User, Loop

\* The types are an inductive invariant.
LEMMA TypeInvariant == Spec => []TypeInv
<1>1. Init => TypeInv
  <2> SUFFICES ASSUME Init PROVE TypeInv
    OBVIOUS
  <2>1. Flags /\ Attached
    BY DEF Init, Flags, Attached
  <2>2. Data
    BY DEF Init, Data, UserSteps
  <2> QED
    BY <2>1, <2>2 DEF TypeInv
<1>2. TypeInv /\ [Next]_vars => TypeInv'
  BY FlagsStep, DataStep, AttachedStep DEF TypeInv
<1> QED
  BY <1>1, <1>2, PTL DEF Spec

\* Every variable of the session keeps its type, whatever step fails.
THEOREM SessionTypeCorrect == Spec => []TypeOK
  BY TypeInvariant, TypeParts, PTL

-----------------------------------------------------------------------------
(* The loop. *)

\* A loop that runs is the current one, its flag or its event tells so, and nobody
\* starts a loop while one runs.
LoopInv ==
  /\ \A t \in Thread : loop[t] # "ended" => t = current /\ (running \/ stopEvt)
  /\ pc # "join" => (Alive(current) => running)
  /\ pc \in {"clear", "run", "spawn"} => \A t \in Thread : loop[t] = "ended"
  /\ pc = "spawn" => running
  /\ pc \in {"unset", "join"} => stopEvt
  /\ running /\ pc \notin {"spawn", "unset"} => Alive(current)
  /\ pc \in {"teardown", "close"} /\ ~force => \A t \in Thread : loop[t] = "ended"

\* A step of the user or of a loop keeps at most one loop, the current one.
LEMMA LoopInvStep ==
  ASSUME TypeInv, LoopInv, [Next]_vars
  PROVE  LoopInv'
<1> USE DEF TypeInv, Flags, Data, LoopInv
<1>1. ASSUME NEW t \in Thread, LoopCheck(t) \/ LoopWait(t) \/ LoopUpdate(t) PROVE LoopInv'
  <2>1. /\ UNCHANGED <<pc, force, running, stopEvt, current>>
        /\ loop[t] # "ended" /\ loop'[t] # "ended"
        /\ \A u \in Thread : u # t => loop'[u] = loop[u]
    BY <1>1 DEF LoopCheck, LoopWait, LoopUpdate, LoopStep
  <2> QED
    BY <2>1
<1>2. ASSUME NEW t \in Thread, LoopFinally(t) PROVE LoopInv'
  <2>1. t = current /\ \A u \in Thread : loop'[u] = "ended"
    BY <1>2 DEF LoopFinally, LoopStep
  <2>2. UNCHANGED <<pc, force, stopEvt, current>> /\ ~running'
    BY <1>2 DEF LoopFinally
  <2>3. pc # "spawn"
    BY <1>2 DEF LoopFinally, LoopStep
  <2> QED
    BY <2>1, <2>2, <2>3
<1>3. CASE Start
  BY <1>3 DEF Start, UserStep, loopVars
<1>4. CASE StartClear
  BY <1>4 DEF StartClear, UserStep
<1>5. CASE StartRun
  BY <1>5 DEF StartRun, UserStep
<1>6. CASE StartSpawn
  <2>1. PICK t \in Thread : LoopStep(t, "ended", "check") /\ current' = t
    BY <1>6 DEF StartSpawn
  <2>2. /\ loop'[t] = "check" /\ \A u \in Thread : u # t => loop'[u] = "ended"
        /\ pc' = "idle" /\ running /\ running' = running /\ t # None
    BY <1>6, <2>1 DEF StartSpawn, LoopStep, UserStep
  <2> QED
    BY <2>1, <2>2
<1>7. CASE Stop
  BY <1>7 DEF Stop, BeginStop
<1>8. CASE StopUnset
  BY <1>8 DEF StopUnset, UserStep
<1>9. CASE StopJoin
  BY <1>9 DEF StopJoin, UserStep, loopVars
<1>10. CASE NextStep
  BY <1>10 DEF NextStep, loopVars
<1>11. CASE StartGonetem \/ OpenProject \/ TopologyRun \/ Attach \/ CleanupFailedStart
  BY <1>11 DEF StartGonetem, OpenProject, TopologyRun, Attach, CleanupFailedStart, UserStep,
     loopVars
<1>12. CASE StopGonetem
  BY <1>12 DEF StopGonetem, BeginStop, loopVars
<1>13. CASE ForceStopGonetem
  BY <1>13 DEF ForceStopGonetem, UserStep, loopVars
<1>14. CASE Teardown
  BY <1>14 DEF Teardown, UserStep, loopVars
<1>15. CASE CloseProject
  BY <1>15 DEF CloseProject, UserStep, loopVars
<1>16. CASE UNCHANGED vars
  BY <1>16 DEF vars, loopVars
<1> QED
  BY <1>1, <1>2, <1>3, <1>4, <1>5, <1>6, <1>7, <1>8, <1>9, <1>10, <1>11, <1>12, <1>13, <1>14,
     <1>15, <1>16 DEF Next, User, Loop

\* The state of the loop is an inductive invariant, given the types.
LEMMA LoopInvariant == Spec => []LoopInv
<1>1. Init => LoopInv
  BY DEF Init, LoopInv
<1>2. TypeInv /\ LoopInv /\ [Next]_vars => LoopInv'
  BY LoopInvStep
<1> QED
  BY <1>1, <1>2, TypeInvariant, PTL DEF Spec

\* No two loops run, whatever starts and stops and exceptions follow each other.
THEOREM OneLoopCorrect == Spec => []OneLoop
<1>1. LoopInv => OneLoop
  <2> SUFFICES ASSUME LoopInv PROVE OneLoop
    OBVIOUS
  <2> DEFINE Running == {t \in Thread : loop[t] # "ended"}
  <2>1. Running \subseteq {current}
    BY DEF LoopInv
  <2>2. IsFiniteSet({current}) /\ Cardinality({current}) = 1
    BY FS_Singleton
  <2>3. Cardinality(Running) <= Cardinality({current})
    BY ONLY <2>1, <2>2, FS_Subset
  <2> QED
    BY <2>2, <2>3 DEF LoopInv, OneLoop
<1> QED
  BY <1>1, LoopInvariant, PTL

\* The emulator is taken down with no loop running, unless by force.
THEOREM QuietTeardownCorrect == Spec => []QuietTeardown
<1>1. LoopInv => QuietTeardown
  BY DEF LoopInv, QuietTeardown
<1> QED
  BY <1>1, LoopInvariant, PTL

-----------------------------------------------------------------------------
(* Projects and wires. *)

\* Which project the start works on and which one the launcher has.
ProjectInv ==
  /\ status => isOn /\ client
  /\ client => isOn
  /\ isOn /\ ~client => launcher \in orphans
  /\ pc \in Starting => ~isOn
  /\ pc \notin {"topology", "attach", "cleanup"} => fresh = None
  /\ pc \in {"topology", "attach"} => fresh \in open
  /\ pc = "attach" => fresh \in cont
  /\ pc = "close" => ~status
  /\ open \ orphans \subseteq {fresh, launcher}
  /\ ~isOn => open \ orphans \subseteq {fresh}
  /\ cont \ orphans \subseteq open
  /\ status => launcher \in open \cap cont

\* Between the two reads of the links and the attachment, drift is what changed.
WireInv ==
  /\ pc \in {"open", "topology"} => \A l \in Link \ drift : l \in links <=> l \in active
  /\ pc = "attach" => \A l \in Link \ drift : l \in links <=> l \in wires[fresh]
  /\ status => \A l \in Link \ drift : l \in links <=> l \in wires[launcher]

\* A step loses no project: what is open is fresh, attached or given up.
LEMMA ProjectStep ==
  ASSUME TypeInv, ProjectInv, [Next]_vars
  PROVE  ProjectInv'
<1> USE DEF TypeInv, Flags, Data, Attached, ProjectInv, Starting
<1>1. ASSUME NEW t \in Thread, Loop(t) PROVE ProjectInv'
  BY <1>1 DEF Loop, LoopCheck, LoopUpdate, LoopWait, LoopFinally, startVars, emuVars,
     serverVars, histVars
<1>2. CASE Start \/ StartClear \/ StartRun \/ StartSpawn \/ StopUnset \/ StopJoin
  BY <1>2 DEF Start, StartClear, StartRun, StartSpawn, StopUnset, StopJoin, UserStep,
     startVars, emuVars, serverVars, histVars
<1>3. CASE Stop \/ StopGonetem \/ ForceStopGonetem
  BY <1>3 DEF Stop, StopGonetem, ForceStopGonetem, BeginStop, UserStep, startVars, emuVars,
     serverVars, histVars
<1>4. CASE NextStep
  BY <1>4 DEF NextStep, startVars, emuVars
<1>5. CASE StartGonetem
  BY <1>5 DEF StartGonetem, UserStep, emuVars, serverVars
<1>6. CASE OpenProject
  BY <1>6 DEF OpenProject, UserStep, emuVars
<1>7. CASE TopologyRun
  BY <1>7 DEF TopologyRun, UserStep, startVars, emuVars
<1>8. CASE Attach
  BY <1>8 DEF Attach, UserStep, serverVars, histVars
<1>9. CASE CleanupFailedStart
  BY <1>9 DEF CleanupFailedStart, UserStep, emuVars
<1>10. CASE Teardown
  BY <1>10 DEF Teardown, UserStep, startVars, serverVars, histVars
<1>11. CASE CloseProject
  BY <1>11 DEF CloseProject, UserStep, startVars, serverVars
<1>12. CASE UNCHANGED vars
  BY <1>12 DEF vars, startVars, emuVars, serverVars, histVars
<1> QED
  BY <1>1, <1>2, <1>3, <1>4, <1>5, <1>6, <1>7, <1>8, <1>9, <1>10, <1>11, <1>12
     DEF Next, User

\* A pass with the emulator off records what it changed during a start; one with
\* the emulator on repairs the wires of what it changes.
LEMMA PassWires ==
  ASSUME TypeInv, ProjectInv, WireInv, UpdateSimulation,
         UNCHANGED <<pc, fresh, active, status, launcher, client>>
  PROVE  WireInv'
<1> USE DEF TypeInv, Flags, Data, Attached, ProjectInv, Starting
<1>1. CASE status
  <2>1. /\ launcher \in Project /\ pc \notin Starting
        /\ drift' = drift \ Changed(links')
        /\ wires' = [wires EXCEPT ![launcher] = Rewired(wires[launcher], links')]
    BY <1>1 DEF UpdateSimulation
  <2>2. wires'[launcher] = Rewired(wires[launcher], links')
    BY <2>1
  <2>3. ASSUME NEW l \in Link \ drift' PROVE l \in links' <=> l \in wires'[launcher]
    BY <1>1, <2>1, <2>2, <2>3 DEF WireInv, Changed, Rewired
  <2> QED
    BY <1>1, <2>1, <2>3 DEF WireInv
<1>2. CASE ~status
  <2>1. wires' = wires /\ drift' = IF pc \in Starting THEN drift \cup Changed(links') ELSE drift
    BY <1>2 DEF UpdateSimulation
  <2> QED
    BY <1>2, <2>1 DEF WireInv, Changed
<1> QED
  BY <1>1, <1>2

\* A step keeps wires and links apart by no more than drift.
LEMMA WireStep ==
  ASSUME TypeInv, ProjectInv, WireInv, [Next]_vars
  PROVE  WireInv'
<1> USE DEF TypeInv, Flags, Data, Attached, ProjectInv, Starting
<1>1. ASSUME NEW t \in Thread, LoopUpdate(t) PROVE WireInv'
  <2>1. CASE UpdateSimulation
    BY <1>1, <2>1, PassWires DEF LoopUpdate, startVars, emuVars
  <2>2. CASE UNCHANGED <<links, wires, drift>>
    BY <1>1, <2>2 DEF LoopUpdate, startVars, emuVars, WireInv
  <2> QED
    BY <1>1, <2>1, <2>2 DEF LoopUpdate
<1>2. ASSUME NEW t \in Thread, LoopCheck(t) \/ LoopWait(t) \/ LoopFinally(t) PROVE WireInv'
  BY <1>2 DEF LoopCheck, LoopWait, LoopFinally, startVars, emuVars, serverVars, histVars, WireInv
<1>3. CASE Start \/ StartClear \/ StartRun \/ StartSpawn \/ StopUnset \/ StopJoin
  BY <1>3 DEF Start, StartClear, StartRun, StartSpawn, StopUnset, StopJoin, UserStep,
     startVars, emuVars, serverVars, histVars, WireInv
<1>4. CASE Stop \/ StopGonetem \/ ForceStopGonetem
  BY <1>4 DEF Stop, StopGonetem, ForceStopGonetem, BeginStop, UserStep, startVars, emuVars,
     serverVars, histVars, WireInv
<1>5. CASE NextStep
  BY <1>5, PassWires DEF NextStep, startVars, emuVars
<1>6. CASE StartGonetem
  BY <1>6 DEF StartGonetem, UserStep, emuVars, serverVars, WireInv
<1>7. CASE OpenProject
  BY <1>7 DEF OpenProject, UserStep, emuVars, WireInv
<1>8. CASE TopologyRun
  <2>1. fresh \in Project /\ ~status' /\ drift' = drift /\ links' = links /\ fresh' = fresh
    BY <1>8 DEF TopologyRun, UserStep, startVars, emuVars
  <2>2. CASE UserStep("topology", "attach")
    <3>1. wires' = [wires EXCEPT ![fresh] = active] /\ pc' = "attach"
      BY <1>8, <2>2 DEF TopologyRun, UserStep
    <3>2. wires'[fresh'] = active
      BY <2>1, <3>1
    <3> QED
      BY <2>1, <2>2, <3>1, <3>2 DEF WireInv, UserStep
  <2>3. CASE UserStep("topology", "cleanup")
    BY <2>1, <2>3 DEF WireInv, UserStep
  <2> QED
    BY <1>8, <2>2, <2>3 DEF TopologyRun
<1>9. CASE Attach
  BY <1>9 DEF Attach, UserStep, serverVars, histVars, WireInv
<1>10. CASE CleanupFailedStart
  BY <1>10 DEF CleanupFailedStart, UserStep, emuVars, WireInv
<1>11. CASE Teardown \/ CloseProject
  BY <1>11 DEF Teardown, CloseProject, UserStep, startVars, serverVars, WireInv
<1>12. CASE UNCHANGED vars
  BY <1>12 DEF vars, startVars, emuVars, serverVars, histVars, WireInv
<1> QED
  BY <1>1, <1>2, <1>3, <1>4, <1>5, <1>6, <1>7, <1>8, <1>9, <1>10, <1>11, <1>12
     DEF Next, User, Loop

\* Projects and wires are an inductive invariant, given the types.
LEMMA ProjectInvariant == Spec => [](ProjectInv /\ WireInv)
<1>1. Init => ProjectInv /\ WireInv
  BY DEF Init, ProjectInv, WireInv, Starting
<1>2. TypeInv /\ ProjectInv /\ WireInv /\ [Next]_vars => ProjectInv' /\ WireInv'
  BY ProjectStep, WireStep
<1> QED
  BY <1>1, <1>2, TypeInvariant, PTL DEF Spec

\* Projects and containers left on the server had their opening or closing fail.
THEOREM ProjectsAccounted == Spec => []NoProjectLost
<1>1. ProjectInv => NoProjectLost
  BY DEF ProjectInv, NoProjectLost
<1> QED
  BY <1>1, ProjectInvariant, PTL

\* The wires follow the links, those that a pass changed during a start excepted.
THEOREM WiresFollow == Spec => []WiresFollowLinks
<1>1. WireInv => WiresFollowLinks
  BY DEF WireInv, WiresFollowLinks
<1> QED
  BY <1>1, ProjectInvariant, PTL
=============================================================================

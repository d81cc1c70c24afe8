----------------------------- MODULE FlowProofs -----------------------------
(* Proofs about FlowScheduler, for any flows, any schedule without repetition *)
(* and any number of workers, and about Iperf3, for any flows, nodes, ports   *)
(* and configurations.                                                        *)
EXTENDS FlowScheduler, Iperf3, SequenceTheorems, FiniteSetTheorems, TLAPS

USE ScheduleAssumption, WorkersAssumption, Iperf3Assumption DEF FlowStatus

-----------------------------------------------------------------------------
(* The schedule. *)

\* The schedule numbers its flows.
LEMMA Numbered ==
  /\ Len(Schedule) \in Nat /\ Schedule \in [1..Len(Schedule) -> Flow]
  /\ Schedule \in Surjection(1..Len(Schedule), Scheduled)
  /\ IsFiniteSet(1..Len(Schedule)) /\ Cardinality(1..Len(Schedule)) = Len(Schedule)
<1>1. Len(Schedule) \in Nat /\ Schedule \in [1..Len(Schedule) -> Flow]
  BY LenProperties
<1>2. \A i \in 1..Len(Schedule) : Schedule[i] \in Scheduled
  BY DEF Scheduled
<1>3. Schedule \in [1..Len(Schedule) -> Scheduled]
  BY <1>1, <1>2
<1>4. Schedule \in Surjection(1..Len(Schedule), Scheduled)
  BY <1>3 DEF Surjection, Scheduled
<1>5. IsFiniteSet(1..Len(Schedule)) /\ Cardinality(1..Len(Schedule)) = Len(Schedule)
  <2> DEFINE n == Len(Schedule)
  <2>1. 1 \in Int /\ n \in Int /\ n \in Nat
    BY <1>1
  <2>2. /\ IsFiniteSet(1..n)
        /\ Cardinality(1..n) = IF 1 > n THEN 0 ELSE n - 1 + 1
    BY ONLY <2>1, FS_Interval
  <2>3. (IF 1 > n THEN 0 ELSE n - 1 + 1) = n
    BY <2>1
  <2> QED
    BY <2>2, <2>3
<1> QED
  BY <1>1, <1>4, <1>5

\* A flow has one place in the schedule.
LEMMA OnePlace ==
  ASSUME NEW i \in 1..Len(Schedule), NEW j \in 1..Len(Schedule), Schedule[i] = Schedule[j]
  PROVE  i = j
<1>1. Schedule \in Injection(1..Len(Schedule), Scheduled)
  BY Numbered, FS_SurjSameCardinalityImpliesInj
<1> QED
  BY <1>1, Numbered DEF Injection, IsInjective

\* The schedule is a finite set of flows.
LEMMA ScheduleFinite == IsFiniteSet(Scheduled) /\ Scheduled \subseteq Flow
<1>1. IsFiniteSet(Scheduled)
  BY Numbered, FS_Surjection
<1>2. Scheduled \subseteq Flow
  BY Numbered DEF Scheduled
<1> QED
  BY <1>1, <1>2

-----------------------------------------------------------------------------
(* Types. *)

\* The types of the flows, of the scheduler and of the user's call.
FlowTypes ==
  /\ st \in [Flow -> FlowStatus]
  /\ thread \in [Flow -> {"none", "delay", "command", "ended"}]
  /\ killed \subseteq Flow

PoolTypes ==
  /\ sched \in {"IDLE", "RUNNING", "DONE"} /\ submitted \in 0..Len(Schedule)
  /\ queue \in Seq(Scheduled)
  /\ joining \subseteq started /\ started \subseteq Scheduled
  /\ Cardinality(joining) <= MaxWorkers
  /\ outcome \in [Scheduled -> Outcomes \cup {"none"}]
  /\ results \subseteq Scheduled /\ errors \subseteq Scheduled

UserTypes ==
  /\ up \in BOOLEAN /\ active \subseteq Flow
  /\ call \in {"none", "stop", "stop_gonetem"}
  /\ toStop \subseteq Flow /\ victim \subseteq Flow

\* The three parts are TypeOK.
LEMMA TypeParts == TypeOK <=> FlowTypes /\ PoolTypes /\ UserTypes
  BY Zenon DEF TypeOK, FlowTypes, PoolTypes, UserTypes

\* A step keeps the types of the flows.
LEMMA FlowTypesStep ==
  ASSUME TypeOK, [Next]_vars
  PROVE  FlowTypes'
<1> USE DEF FlowTypes, PoolTypes, Start
<1>a. FlowTypes /\ PoolTypes
  BY TypeParts
<1>1. ASSUME NEW f \in Flow, Execute(f) \/ CommandEnds(f) PROVE FlowTypes'
  <2>1. CASE Execute(f)
    <3>1. StatusAfterError(f) \in FlowStatus
      BY <1>a DEF StatusAfterError, FlowStatus
    <3>2. CASE UNCHANGED st /\ thread' = [thread EXCEPT ![f] = "command"]
      BY <1>a, <2>1, <3>2 DEF Execute
    <3>3. CASE Ends(f, StatusAfterError(f))
      BY <1>a, <2>1, <3>1, <3>3 DEF Execute, Ends
    <3> QED
      BY <2>1, <3>2, <3>3 DEF Execute
  <2>2. CASE CommandEnds(f)
    BY <1>a, <2>2 DEF CommandEnds, Ends, StatusAfterError
  <2> QED
    BY <1>1, <2>1, <2>2
<1>2. CASE PickUp
  <2>1. Head(queue) \in Flow
    BY <1>2, <1>a, ScheduleFinite, HeadTailProperties DEF PickUp
  <2> QED
    BY <1>2, <1>a, <2>1 DEF PickUp
<1>3. ASSUME NEW f \in Flow, StartFlow(f) \/ Ping(f) \/ StopNext(f) PROVE FlowTypes'
  <2>1. CASE StartFlow(f) \/ Ping(f)
    BY <1>a, <2>1 DEF StartFlow, Ping
  <2>2. CASE StopNext(f)
    BY <1>a, <2>2 DEF StopNext, Hit
  <2> QED
    BY <1>3, <2>1, <2>2
<1>4. CASE StopReturns
  BY <1>4, <1>a DEF StopReturns
<1>5. CASE UNCHANGED flowVars
  BY <1>5, <1>a DEF flowVars
<1> QED
  BY <1>1, <1>2, <1>3, <1>4, <1>5 DEF Next, FlowStep, PoolStep, SchedulerStep, UserCall,
     StopStep, Joined, TimeOut, FutureDone, Submit, Finish, Collect, Run, StartGonetem,
     StopGonetem, StopFlow, StopJoined, vars

\* A step keeps the types of the user's calls.
LEMMA UserTypesStep ==
  ASSUME TypeOK, [Next]_vars
  PROVE  UserTypes'
<1>a. UserTypes
  BY TypeParts
<1>b. up' \in BOOLEAN
  BY <1>a DEF UserTypes, Next, FlowStep, PoolStep, SchedulerStep, UserCall, StopStep, Execute,
     CommandEnds, PickUp, Joined, TimeOut, FutureDone, Submit, Finish, Collect, Run,
     StartGonetem, StopGonetem, StartFlow, Ping, StopFlow, StopNext, StopJoined, StopReturns,
     vars
<1>c. /\ active' \subseteq Flow /\ call' \in {"none", "stop", "stop_gonetem"}
      /\ toStop' \subseteq Flow /\ victim' \subseteq Flow
  BY <1>a DEF UserTypes, Next, FlowStep, PoolStep, SchedulerStep, UserCall, StopStep, Execute,
     CommandEnds, PickUp, Joined, TimeOut, FutureDone, Submit, Finish, Collect, Run,
     StartGonetem, StopGonetem, StartFlow, Ping, StopFlow, StopNext, StopJoined, StopReturns,
     vars, userVars
<1> QED
  BY <1>b, <1>c DEF UserTypes

\* The pool joins no more flows than it has workers.
LEMMA PoolTypesStep ==
  ASSUME TypeOK, [Next]_vars
  PROVE  PoolTypes'
<1> USE DEF PoolTypes
<1>a. PoolTypes /\ IsFiniteSet(joining)
  BY TypeParts, ScheduleFinite, FS_Subset
<1>1. CASE Submit
  <2>0. submitted + 1 \in 1..Len(Schedule) /\ submitted' = submitted + 1
    BY <1>1, <1>a, Numbered DEF Submit
  <2>3. submitted' \in 0..Len(Schedule)
    BY <2>0, Numbered
  <2>1. Schedule[submitted + 1] \in Scheduled
    BY ONLY <2>0 DEF Scheduled
  <2>2. queue' \in Seq(Scheduled)
    BY <1>1, <1>a, <2>1, AppendProperties DEF Submit
  <2> QED
    BY <1>1, <1>a, <2>2, <2>3 DEF Submit
<1>2. CASE PickUp
  <2>1. Head(queue) \in Scheduled /\ queue' \in Seq(Scheduled)
    BY <1>2, <1>a, HeadTailProperties DEF PickUp
  <2>2. Cardinality(joining \cup {Head(queue)}) <= MaxWorkers
    <3> DEFINE f == Head(queue)
    <3>1. Cardinality(joining) \in Nat /\ Cardinality(joining) < MaxWorkers
      BY <1>2, <1>a, FS_CardinalityType DEF PickUp, WorkerFree
    <3>2. Cardinality(joining \cup {f}) =
            IF f \in joining THEN Cardinality(joining) ELSE Cardinality(joining) + 1
      BY ONLY <1>a, FS_AddElement
    <3> HIDE DEF f
    <3>3. Cardinality(joining \cup {f}) <= MaxWorkers
      BY <3>1, <3>2
    <3> QED
      BY <3>3 DEF f
  <2>3. outcome' \in [Scheduled -> Outcomes \cup {"none"}]
    BY <1>2, <1>a, <2>1 DEF PickUp, Outcomes
  <2> QED
    BY <1>2, <1>a, <2>1, <2>2, <2>3 DEF PickUp
<1>3. ASSUME NEW f \in Scheduled, NEW o \in Outcomes, f \in joining, FutureDone(f, o)
      PROVE  PoolTypes'
  <2>1. /\ Cardinality(joining \ {f}) <= Cardinality(joining)
        /\ Cardinality(joining) \in Nat /\ Cardinality(joining \ {f}) \in Nat
    <3>1. joining \ {f} \subseteq joining /\ IsFiniteSet(joining \ {f})
      BY <1>a, FS_Subset
    <3> QED
      BY ONLY <1>a, <3>1, FS_Subset, FS_CardinalityType
  <2>2. Cardinality(joining \ {f}) <= MaxWorkers
    BY <1>a, <2>1
  <2>3. outcome' \in [Scheduled -> Outcomes \cup {"none"}]
    BY <1>3, <1>a DEF FutureDone
  <2> QED
    BY <1>3, <1>a, <2>2, <2>3 DEF FutureDone
<1>4. ASSUME NEW f \in Scheduled, Joined(f) \/ TimeOut(f) PROVE PoolTypes'
  BY <1>3, <1>4 DEF Joined, TimeOut, Outcomes
<1>5. CASE Run \/ Finish
  BY <1>5, <1>a DEF Run, Finish
<1>6. ASSUME NEW f \in Scheduled, Collect(f) PROVE PoolTypes'
  BY <1>6, <1>a DEF Collect, Uncollected
<1>7. CASE UNCHANGED schedVars
  BY <1>7, <1>a DEF schedVars
<1> QED
  BY <1>1, <1>2, <1>4, <1>5, <1>6, <1>7 DEF Next, FlowStep, PoolStep, SchedulerStep, UserCall,
     StopStep, Execute, CommandEnds, StartGonetem, StopGonetem, StartFlow, Ping, StopFlow,
     StopNext, StopJoined, StopReturns, vars

\* Every variable keeps its type, and no more flows are joined than there are workers.
THEOREM FlowTypesCorrect == Spec => []TypeOK
<1>1. Init => TypeOK
  <2> SUFFICES ASSUME Init PROVE TypeOK
    OBVIOUS
  <2>1. FlowTypes /\ UserTypes
    BY DEF Init, FlowTypes, UserTypes
  <2>2. PoolTypes
    BY Numbered, FS_EmptySet, EmptySeq DEF Init, PoolTypes
  <2> QED
    BY <2>1, <2>2, TypeParts
<1>2. TypeOK /\ [Next]_vars => TypeOK'
  <2> SUFFICES ASSUME TypeOK, [Next]_vars PROVE TypeOK'
    OBVIOUS
  <2>1. FlowTypes' /\ PoolTypes' /\ UserTypes'
    BY FlowTypesStep, PoolTypesStep, UserTypesStep
  <2> QED
    BY <2>1, TypeParts DEF TypeOK, FlowTypes, PoolTypes, UserTypes
<1> QED
  BY <1>1, <1>2, PTL DEF Spec

-----------------------------------------------------------------------------
(* Each flow once. *)

\* A flow with a thread is not idle.
ThreadInv == \A f \in Flow : thread[f] # "none" => st[f] # "IDLE"

\* No thread goes back to its delay, and one that has ended stays as it is.
LEMMA ThreadInvStep ==
  ASSUME TypeOK, ThreadInv, [Next]_vars
  PROVE  /\ ThreadInv'
         /\ \A f \in Flow : thread[f] # "none" => thread'[f] # "delay" \/ thread[f] = "delay"
         /\ \A f \in Flow : thread[f] = "ended" => thread'[f] = "ended" /\ st'[f] = st[f]
<1> DEFINE Goal ==
      /\ ThreadInv'
      /\ \A f \in Flow : thread[f] # "none" => thread'[f] # "delay" \/ thread[f] = "delay"
      /\ \A f \in Flow : thread[f] = "ended" => thread'[f] = "ended" /\ st'[f] = st[f]
<1> SUFFICES Goal
  OBVIOUS
<1> USE DEF ThreadInv, FlowTypes
<1>a. FlowTypes /\ PoolTypes
  BY TypeParts
<1>1. ASSUME NEW f \in Flow, Execute(f) \/ CommandEnds(f) PROVE Goal
  BY <1>1, <1>a DEF Execute, CommandEnds, Ends, StatusAfterError
<1>2. ASSUME NEW f \in Flow, Start(f), MayStart(f) PROVE Goal
  BY <1>2, <1>a DEF Start, MayStart
<1>3. CASE PickUp
  <2>1. Head(queue) \in Flow
    BY <1>3, <1>a, ScheduleFinite, HeadTailProperties DEF PickUp, PoolTypes
  <2>2. CASE MayStart(Head(queue)) /\ Start(Head(queue))
    BY <1>2, <2>1, <2>2
  <2>3. CASE UNCHANGED <<st, thread>>
    BY <2>3
  <2> QED
    BY <1>3, <2>2, <2>3 DEF PickUp
<1>4. ASSUME NEW f \in Flow, StartFlow(f) \/ Ping(f) PROVE Goal
  BY <1>2, <1>4 DEF StartFlow, Ping, MayStart
<1>5. CASE UNCHANGED <<st, thread>>
  BY <1>5
<1> QED
  BY <1>1, <1>3, <1>4, <1>5 DEF Next, FlowStep, PoolStep, SchedulerStep, UserCall,
     StopStep, Joined, TimeOut, FutureDone, Submit, Finish, Collect, Run, StartGonetem,
     StopGonetem, StopFlow, StopNext, StopJoined, StopReturns, vars, flowVars

\* A flow with a thread has left IDLE, from where alone it can be started.
LEMMA ThreadInvariant == Spec => []ThreadInv
<1>1. Init => ThreadInv
  BY DEF Init, ThreadInv
<1>2. TypeOK /\ ThreadInv /\ [Next]_vars => ThreadInv'
  BY ThreadInvStep
<1> QED
  BY <1>1, <1>2, FlowTypesCorrect, PTL DEF Spec

\* Whoever starts a flow first, the user or a worker, its thread runs once.
THEOREM FlowsRunOnce == Spec => RunsOnce
<1>1. TypeOK /\ ThreadInv /\ [Next]_vars =>
        [\A f \in Flow :
           thread[f] # "none" => thread'[f] # "delay" \/ thread[f] = "delay"]_vars
  BY ThreadInvStep
<1> QED
  BY <1>1, FlowTypesCorrect, ThreadInvariant, PTL DEF Spec, RunsOnce

-----------------------------------------------------------------------------
(* Accounting. *)

\* The queue is the part of the schedule that was submitted last, and the flows
\* from its head on have neither been started by a worker nor got an outcome.
QueueInv ==
  /\ Len(queue) <= submitted
  /\ \A i \in 1..Len(queue) : queue[i] = Schedule[submitted - Len(queue) + i]
  /\ \A i \in 1..Len(Schedule) : i > submitted - Len(queue) =>
       Schedule[i] \notin started /\ outcome[Schedule[i]] = "none"

\* What the scheduler collected, and what the futures say of the flows.
AccountInv ==
  /\ \A f \in joining : outcome[f] = "none"
  /\ results \cap errors = {}
  /\ \A f \in results : outcome[f] = "result"
  /\ \A f \in errors : outcome[f] \in {"failed", "timeout"}
  /\ \A f \in Scheduled : outcome[f] = "result" => thread[f] = "ended" /\ st[f] = "DONE"
  /\ \A f \in Scheduled : outcome[f] = "failed" =>
       f \notin started \/ (thread[f] = "ended" /\ st[f] # "DONE")
  /\ sched = "DONE" => results \cup errors = Scheduled

\* Submitting and picking up keep the queue in the order of the schedule.
LEMMA QueueStep ==
  ASSUME TypeOK, QueueInv, [Next]_vars
  PROVE  QueueInv'
<1>a. PoolTypes
  BY TypeParts
<1>b. /\ Len(queue) \in Nat /\ submitted \in Nat /\ Len(Schedule) \in Nat
      /\ submitted <= Len(Schedule)
  BY <1>a, Numbered, LenProperties DEF PoolTypes
<1>1. CASE Submit
  <2>1. /\ Len(queue') = Len(queue) + 1 /\ submitted' = submitted + 1
        /\ \A i \in 1..Len(queue) : queue'[i] = queue[i]
        /\ queue'[Len(queue) + 1] = Schedule[submitted + 1]
        /\ UNCHANGED <<started, outcome>>
    <3>0. submitted + 1 \in 1..Len(Schedule)
      BY <1>1, <1>b DEF Submit
    <3>1. Schedule[submitted + 1] \in Scheduled
      BY ONLY <3>0 DEF Scheduled
    <3> QED
      BY <1>1, <1>a, <3>1, AppendProperties DEF Submit, PoolTypes
  <2>2. ASSUME NEW i \in 1..Len(queue')
        PROVE  queue'[i] = Schedule[submitted' - Len(queue') + i]
    <3>1. CASE i = Len(queue) + 1
      <4>1. submitted' - Len(queue') + i = submitted + 1
        BY <1>b, <2>1, <3>1
      <4> QED
        BY <2>1, <3>1, <4>1
    <3>2. CASE i # Len(queue) + 1
      <4>1. i \in 1..Len(queue) /\ submitted' - Len(queue') + i = submitted - Len(queue) + i
        BY <1>b, <2>1, <3>2
      <4> QED
        BY <2>1, <4>1 DEF QueueInv
    <3> QED
      BY <3>1, <3>2
  <2>3. submitted' - Len(queue') = submitted - Len(queue) /\ Len(queue') <= submitted'
    BY <1>b, <2>1 DEF QueueInv
  <2> QED
    BY <2>1, <2>2, <2>3 DEF QueueInv
<1>2. CASE PickUp
  <2> DEFINE h == submitted - Len(queue) + 1
  <2>1. /\ queue # <<>> /\ Head(queue) = queue[1] /\ Len(queue) >= 1
        /\ queue' = Tail(queue) /\ Len(queue') = Len(queue) - 1
        /\ \A i \in 1..Len(queue') : queue'[i] = queue[i + 1]
        /\ submitted' = submitted
    BY <1>2, <1>a, <1>b, HeadTailProperties, EmptySeq DEF PickUp, PoolTypes
  <2>2. h \in 1..Len(Schedule) /\ Head(queue) = Schedule[h]
    BY <1>b, <2>1 DEF QueueInv
  <2>3. /\ \A g : g # Head(queue) => (g \in started' <=> g \in started)
        /\ \A g \in Scheduled : g # Head(queue) => outcome'[g] = outcome[g]
    BY <1>2, <1>a DEF PickUp, PoolTypes
  <2>4. ASSUME NEW i \in 1..Len(Schedule), i > submitted' - Len(queue')
        PROVE  Schedule[i] \notin started' /\ outcome'[Schedule[i]] = "none"
    <3>1. i > submitted - Len(queue) /\ i # h
      BY <1>b, <2>1, <2>4
    <3>2. Schedule[i] # Head(queue) /\ Schedule[i] \in Scheduled
      BY <2>2, <3>1, OnePlace DEF Scheduled
    <3> QED
      BY <2>3, <3>1, <3>2 DEF QueueInv
  <2>5. ASSUME NEW i \in 1..Len(queue')
        PROVE  queue'[i] = Schedule[submitted' - Len(queue') + i]
    <3>1. i + 1 \in 1..Len(queue) /\ submitted' - Len(queue') + i = submitted - Len(queue) + (i + 1)
      BY <1>b, <2>1
    <3> QED
      BY <2>1, <3>1 DEF QueueInv
  <2>6. Len(queue') <= submitted'
    BY <1>b, <2>1 DEF QueueInv
  <2> QED
    BY <2>4, <2>5, <2>6 DEF QueueInv
<1>3. ASSUME NEW f \in Scheduled, Joined(f) \/ TimeOut(f) PROVE QueueInv'
  <2>1. /\ f \in started /\ UNCHANGED <<queue, submitted, started>>
        /\ \A g \in Scheduled : g # f => outcome'[g] = outcome[g]
    BY <1>3, <1>a DEF Joined, TimeOut, FutureDone, PoolTypes
  <2> QED
    BY <2>1 DEF QueueInv, Scheduled
<1>4. CASE UNCHANGED <<queue, submitted, started, outcome>>
  BY <1>4 DEF QueueInv
<1> QED
  BY <1>1, <1>2, <1>3, <1>4 DEF Next, FlowStep, PoolStep, SchedulerStep, UserCall, StopStep,
     Execute, CommandEnds, Run, Collect, Finish, StartGonetem, StopGonetem, StartFlow, Ping,
     StopFlow, StopNext, StopJoined, StopReturns, vars, schedVars

\* A step keeps the books of the scheduler in line with the futures and the flows.
LEMMA AccountStep ==
  ASSUME TypeOK, TypeOK', ThreadInv, QueueInv, AccountInv, [Next]_vars
  PROVE  AccountInv'
<1>a. FlowTypes /\ PoolTypes /\ FlowTypes' /\ PoolTypes'
  BY TypeParts DEF TypeOK, FlowTypes, PoolTypes
<1>b. \A f \in Flow : thread[f] = "ended" => thread'[f] = "ended" /\ st'[f] = st[f]
  BY ThreadInvStep
<1>c. Scheduled \subseteq Flow
  BY ScheduleFinite
<1> USE DEF AccountInv
<1>1. CASE UNCHANGED schedVars
  BY <1>1, <1>b, <1>c DEF schedVars
<1>2. CASE Submit \/ Run
  BY <1>2, <1>b, <1>c DEF Submit, Run
<1>3. CASE PickUp
  <2> DEFINE f == Head(queue)
  <2>1. /\ f \in Scheduled /\ f \notin started /\ outcome[f] = "none"
    <3>1. /\ queue # <<>> /\ f = queue[1] /\ Len(queue) \in Nat /\ Len(queue) >= 1
      BY <1>3, <1>a, HeadTailProperties, EmptySeq, LenProperties DEF PickUp, PoolTypes
    <3>2. submitted - Len(queue) + 1 \in 1..Len(Schedule)
      BY <3>1, <1>a, Numbered DEF QueueInv, PoolTypes
    <3>3. f = Schedule[submitted - Len(queue) + 1]
      BY <3>1 DEF QueueInv
    <3>4. submitted - Len(queue) + 1 > submitted - Len(queue)
      BY <3>2, <3>1, <1>a DEF PoolTypes
    <3>5. f \in Scheduled
      BY <3>2, <3>3 DEF Scheduled
    <3> QED
      BY <3>2, <3>3, <3>4, <3>5 DEF QueueInv
  <2> HIDE DEF f
  <2>2. UNCHANGED <<results, errors, sched>>
    BY <1>3 DEF PickUp
  <2>3. CASE MayStart(f) /\ started' = started \cup {f} /\ joining' = joining \cup {f}
              /\ UNCHANGED outcome
    BY <1>a, <1>b, <1>c, <2>1, <2>2, <2>3 DEF PoolTypes
  <2>4. CASE outcome' = [outcome EXCEPT ![f] = "failed"] /\ UNCHANGED <<st, thread, joining, started>>
    BY <1>a, <1>b, <1>c, <2>1, <2>2, <2>4 DEF PoolTypes
  <2> QED
    BY <1>3, <2>3, <2>4 DEF PickUp, f
<1>4. ASSUME NEW f \in Scheduled, Joined(f) PROVE AccountInv'
  <2>1. /\ f \in joining /\ thread[f] = "ended" /\ joining' = joining \ {f}
        /\ outcome' = [outcome EXCEPT ![f] = IF st[f] = "DONE" THEN "result" ELSE "failed"]
        /\ UNCHANGED <<st, thread, started, results, errors, sched>>
    BY <1>4 DEF Joined, FutureDone, flowVars
  <2> QED
    BY <1>a, <2>1 DEF PoolTypes
<1>5. ASSUME NEW f \in Scheduled, TimeOut(f) PROVE AccountInv'
  <2>1. /\ f \in joining /\ joining' = joining \ {f}
        /\ outcome' = [outcome EXCEPT ![f] = "timeout"]
        /\ UNCHANGED <<st, thread, started, results, errors, sched>>
    BY <1>5 DEF TimeOut, FutureDone, flowVars
  <2> QED
    BY <1>a, <2>1 DEF PoolTypes
<1>6. ASSUME NEW f \in Scheduled, Collect(f) PROVE AccountInv'
  <2>1. /\ sched = "RUNNING" /\ f \notin results \cup errors /\ outcome[f] # "none"
        /\ UNCHANGED <<st, thread, sched, joining, started, outcome>>
    BY <1>6 DEF Collect, Uncollected, flowVars
  <2>2. outcome[f] \in Outcomes
    BY <1>a, <2>1 DEF PoolTypes
  <2>3. CASE IsError(f) /\ errors' = errors \cup {f} /\ UNCHANGED results
    BY <2>1, <2>2, <2>3 DEF IsError, Outcomes
  <2>4. CASE ~IsError(f) /\ results' = results \cup {f} /\ UNCHANGED errors
    BY <2>1, <2>4 DEF IsError
  <2> QED
    BY <1>6, <2>3, <2>4 DEF Collect
<1>7. CASE Finish
  BY <1>7 DEF Finish, AllCollected, flowVars
<1> QED
  BY <1>1, <1>2, <1>3, <1>4, <1>5, <1>6, <1>7 DEF Next, FlowStep, PoolStep, SchedulerStep,
     UserCall, StopStep, Execute, CommandEnds, StartGonetem, StopGonetem, StartFlow, Ping,
     StopFlow, StopNext, StopJoined, StopReturns, vars

\* When the scheduler is done, each flow is in the results or in the errors, with
\* an outcome that says why.
THEOREM FlowsAccounted == Spec => []EachFlowAccounted
<1>1. Init => QueueInv /\ AccountInv
  <2> SUFFICES ASSUME Init PROVE QueueInv /\ AccountInv
    OBVIOUS
  <2>1. Len(queue) = 0 /\ submitted = 0 /\ started = {}
    BY EmptySeq DEF Init
  <2>2. \A f \in Scheduled : outcome[f] = "none"
    BY DEF Init
  <2>3. QueueInv
    <3>1. \A i \in 1..Len(Schedule) : Schedule[i] \in Scheduled
      BY DEF Scheduled
    <3>2. 1..Len(queue) = {} /\ Len(queue) <= submitted
      BY <2>1
    <3> QED
      BY <2>1, <2>2, <3>1, <3>2 DEF QueueInv
  <2>4. AccountInv
    BY <2>2 DEF Init, AccountInv
  <2> QED
    BY <2>3, <2>4
<1>2. TypeOK /\ TypeOK' /\ ThreadInv /\ QueueInv /\ AccountInv /\ [Next]_vars
        => QueueInv' /\ AccountInv'
  BY QueueStep, AccountStep
<1>3. AccountInv => EachFlowAccounted
  BY DEF AccountInv, EachFlowAccounted
<1> QED
  BY <1>1, <1>2, <1>3, FlowTypesCorrect, ThreadInvariant, PTL DEF Spec

-----------------------------------------------------------------------------
(* Iperf3: types, sessions and the two ends of a session.                    *)

IperfTypes ==
  /\ config \in [Flow -> Config]
  /\ stage \in [Flow -> {"idle", "delay", "server", "client", "done", "error"}]
  /\ server \in [Flow -> {"none", "starting", "waiting", "busy", "closing", "gone"}]
  /\ client \in [Flow -> {"none", "connecting", "session", "failed", "ended"}]
  /\ serves \in [Flow -> Flow \cup {Nothing}]
  /\ file \in [Sides -> [Flow -> Flow \cup {Nothing, "error"}]]
  /\ result \in [Flow -> {Nothing} \cup ((Flow \cup {"error"}) \X Sides)]
  /\ stopping \subseteq Flow /\ disturbed \subseteq Flow

\* A flow has a result when it is done.
ResultInv == \A f \in Flow : (result[f] = Nothing) = (stage[f] # "done")

\* A busy server and the client it serves have one session.
SessionInv ==
  /\ \A g \in Flow : server[g] = "busy" => serves[g] \in Flow /\ client[serves[g]] = "session"
  /\ \A g, h \in Flow : server[g] = "busy" /\ server[h] = "busy" /\ serves[g] = serves[h] => g = h
  /\ \A f \in Flow : client[f] = "session" => \E g \in Flow : server[g] = "busy" /\ serves[g] = f

\* Processes and files of a flow appear in the order of its stages.
OrderInv ==
  \A f \in Flow :
    /\ stage[f] \in {"idle", "delay"} => server[f] = "none"
    /\ stage[f] \in {"idle", "delay", "server"} => client[f] = "none"
    /\ client[f] \in {"connecting", "session"} => stage[f] = "client"
    /\ server[f] # "gone" => file["server"][f] = Nothing
    /\ client[f] = "ended" => file["client"][f] = f

Live(f) == server[f] \in {"starting", "waiting", "busy", "closing"}
AtPort(f) == Live(f) \/ stage[f] \in {"server", "client"}

\* Two flows on one port know of each other as soon as one could meet the other's
\* server.
MetInv ==
  \A f, g \in Flow :
    f # g /\ Socket(f) = Socket(g) /\ AtPort(f) /\ Live(g) => f \in disturbed /\ g \in disturbed

\* A flow that met no other has its session with its own server, and the file of
\* that server is not yet there or holds that session.
OwnInv ==
  \A f \in Flow \ disturbed :
    /\ server[f] \in {"busy", "closing"} => serves[f] = f
    /\ client[f] = "session" => server[f] = "busy"
    /\ client[f] = "ended" =>
         server[f] \in {"closing", "gone"} /\ file["server"][f] \in {Nothing, f}

\* A file that is written keeps the type of the files.
LEMMA FileTypes ==
  ASSUME IperfTypes, NEW e \in Sides, NEW f \in Flow, NEW x \in Flow \cup {Nothing, "error"}
  PROVE  [file EXCEPT ![e][f] = x] \in [Sides -> [Flow -> Flow \cup {Nothing, "error"}]]
  BY DEF IperfTypes

\* A pkill ends processes, and sessions at both ends; a server it kills is gone, and was
\* disturbed if its session was over.
LEMMA PkillFacts ==
  ASSUME IperfTypes, SessionInv, NEW n, Pkill(n), stopping' \subseteq Flow
  PROVE  /\ IperfTypes'
         /\ UNCHANGED <<config, stage, serves, result>> /\ disturbed \subseteq disturbed'
         /\ \A c \in Flow : \/ client'[c] = client[c] /\ file'["client"][c] = file["client"][c]
                            \/ client[c] \in {"connecting", "session"} /\ client'[c] = "failed"
         /\ \A g \in Flow :
              \/ server'[g] = server[g] /\ file'["server"][g] = file["server"][g]
              \/ /\ Live(g) /\ server'[g] = "gone"
                 /\ server[g] = "closing" => g \in disturbed'
              \/ /\ server[g] = "busy" /\ server'[g] = "closing"
                 /\ file'["server"][g] = file["server"][g]
         /\ \A g \in Flow : server[g] = "busy" =>
              (server'[g] = "busy") = (client'[serves[g]] = "session")
<1> DEFINE killedClients ==
      {c \in Flow : Src[c] = n /\ client[c] \in {"connecting", "session"}}
<1> DEFINE killedServers ==
      {g \in Flow : /\ Dst[g] = n
                    /\ server[g] \in {"starting", "waiting", "busy", "closing"}}
<1> DEFINE lost == {serves[g] : g \in {g \in killedServers : server[g] = "busy"}}
<1> DEFINE left == {g \in Flow \ killedServers : server[g] = "busy" /\ serves[g] \in killedClients}
<1>1. /\ client' = [c \in Flow |-> IF c \in killedClients \cup lost THEN "failed" ELSE client[c]]
      /\ server' = [g \in Flow |-> IF g \in killedServers THEN "gone"
                                   ELSE IF g \in left THEN "closing" ELSE server[g]]
      /\ file' = [e \in Sides |-> [g \in Flow |->
                    IF g \in (IF e = "client" THEN killedClients \cup lost ELSE killedServers)
                      THEN "error" ELSE file[e][g]]]
      /\ disturbed' = disturbed \cup {g \in killedServers : server[g] = "closing"}
      /\ UNCHANGED <<config, stage, serves, result>>
  BY DEF Pkill
<1>2. \A c \in lost : c \in Flow /\ client[c] = "session"
  BY DEF SessionInv
<1>3. \A c \in killedClients : c \in Flow /\ client[c] \in {"connecting", "session"}
  OBVIOUS
<1>4. \A g \in killedServers : g \in Flow /\ Live(g)
  BY DEF Live
<1>5. \A g \in left : g \in Flow /\ server[g] = "busy" /\ g \notin killedServers
  OBVIOUS
<1>6. \A g \in Flow : server[g] = "busy" =>
        (g \in killedServers \/ g \in left) = (serves[g] \in killedClients \cup lost)
  BY DEF SessionInv
<1> HIDE DEF killedClients, killedServers, lost, left
<1>7. \A c \in Flow : \/ client'[c] = client[c] /\ file'["client"][c] = file["client"][c]
                      \/ client[c] \in {"connecting", "session"} /\ client'[c] = "failed"
  BY <1>1, <1>2, <1>3 DEF Sides
<1>8. \A g \in Flow :
        \/ server'[g] = server[g] /\ file'["server"][g] = file["server"][g]
        \/ /\ Live(g) /\ server'[g] = "gone"
           /\ server[g] = "closing" => g \in disturbed'
        \/ /\ server[g] = "busy" /\ server'[g] = "closing"
           /\ file'["server"][g] = file["server"][g]
  BY <1>1, <1>4, <1>5 DEF Sides
<1>9. \A g \in Flow : server[g] = "busy" =>
        (server'[g] = "busy") = (client'[serves[g]] = "session")
  BY <1>1, <1>5, <1>6 DEF SessionInv
<1>10. disturbed \subseteq disturbed' /\ disturbed' \subseteq Flow
  BY <1>1, <1>4 DEF IperfTypes
<1>11. /\ client' \in [Flow -> {"none", "connecting", "session", "failed", "ended"}]
       /\ server' \in [Flow -> {"none", "starting", "waiting", "busy", "closing", "gone"}]
       /\ file' \in [Sides -> [Flow -> Flow \cup {Nothing, "error"}]]
  BY <1>1 DEF IperfTypes
<1> QED
  BY <1>1, <1>7, <1>8, <1>9, <1>10, <1>11 DEF IperfTypes

\* Both commands of stop() are a pkill.
LEMMA StopFacts ==
  ASSUME IperfTypes, NEW f \in Flow, Stop(f) \/ StopDestination(f)
  PROVE  stopping' \subseteq Flow /\ \E n : Pkill(n)
  BY DEF Stop, StopDestination, IperfTypes

\* Every step keeps the types.
LEMMA IperfTypesStep ==
  ASSUME IperfTypes, SessionInv, [IperfNext]_iperfVars
  PROVE  IperfTypes'
<1>1. ASSUME NEW f \in Flow, StartIperf3(f) PROVE IperfTypes'
  BY <1>1 DEF StartIperf3, IperfTypes
<1>2. ASSUME NEW f \in Flow, StartServer(f) PROVE IperfTypes'
  BY <1>2 DEF StartServer, OnPortOf, IperfTypes
<1>3. ASSUME NEW f \in Flow, StartClient(f) PROVE IperfTypes'
  BY <1>3 DEF StartClient, IperfTypes
<1>4. ASSUME NEW f \in Flow, Read(f) PROVE IperfTypes'
  <2>1. EndRead(f) \in Sides
    BY DEF EndRead, PreferredEnd, Other, Sides
  <2>2. IsJson(file[EndRead(f)][f]) =>
          <<file[EndRead(f)][f], EndRead(f)>> \in (Flow \cup {"error"}) \X Sides
    BY <2>1 DEF IsJson, IperfTypes
  <2> QED
    BY <1>4, <2>2 DEF Read, IperfTypes
<1>5. ASSUME NEW f \in Flow, Fail(f) PROVE IperfTypes'
  BY <1>5 DEF Fail, IperfTypes
<1>6. ASSUME NEW f \in Flow, Bind(f) PROVE IperfTypes'
  <2>1. [file EXCEPT !["server"][f] = "error"] \in [Sides -> [Flow -> Flow \cup {Nothing, "error"}]]
    BY FileTypes DEF Sides
  <2> QED
    BY <1>6, <2>1 DEF Bind, IperfTypes
<1>7. ASSUME NEW f \in Flow, Connect(f) PROVE IperfTypes'
  BY <1>7 DEF Connect, IperfTypes
<1>8. ASSUME NEW f \in Flow, Refused(f) PROVE IperfTypes'
  <2>1. [file EXCEPT !["client"][f] = "error"] \in [Sides -> [Flow -> Flow \cup {Nothing, "error"}]]
    BY FileTypes DEF Sides
  <2> QED
    BY <1>8, <2>1 DEF Refused, IperfTypes
<1>9. ASSUME NEW g \in Flow, SessionEnds(g) PROVE IperfTypes'
  <2>1. PICK how \in {"ended", "failed"} :
          /\ client' = [client EXCEPT ![serves[g]] = how]
          /\ file' = [file EXCEPT !["client"][serves[g]] =
                        IF how = "ended" THEN serves[g] ELSE "error"]
    BY <1>9 DEF SessionEnds
  <2>2. serves[g] \in Flow
    BY <1>9 DEF SessionEnds, SessionInv
  <2>3. file' \in [Sides -> [Flow -> Flow \cup {Nothing, "error"}]]
    BY <2>1, <2>2, FileTypes DEF Sides
  <2> QED
    BY <1>9, <2>1, <2>2, <2>3 DEF SessionEnds, IperfTypes
<1>10. ASSUME NEW g \in Flow, ServerExits(g) PROVE IperfTypes'
  <2>1. serves[g] \in Flow \cup {Nothing, "error"}
    BY DEF IperfTypes
  <2>2. [file EXCEPT !["server"][g] = serves[g]] \in [Sides -> [Flow -> Flow \cup {Nothing, "error"}]]
    BY <2>1, FileTypes DEF Sides
  <2> QED
    BY <1>10, <2>2 DEF ServerExits, IperfTypes
<1>11. ASSUME NEW f \in Flow, Stop(f) \/ StopDestination(f) PROVE IperfTypes'
  BY <1>11, StopFacts, PkillFacts
<1>12. CASE UNCHANGED iperfVars
  BY <1>12 DEF iperfVars, IperfTypes
<1> QED
  BY <1>1, <1>2, <1>3, <1>4, <1>5, <1>6, <1>7, <1>8, <1>9, <1>10, <1>11, <1>12
     DEF IperfNext, ThreadStep, ProcessStep

\* The sessions of servers and clients begin and end together.
LEMMA SessionStep ==
  ASSUME IperfTypes, SessionInv, OrderInv, [IperfNext]_iperfVars
  PROVE  SessionInv'
<1>1. ASSUME NEW f \in Flow, StartIperf3(f) PROVE SessionInv'
  BY <1>1 DEF StartIperf3, SessionInv
<1>2. ASSUME NEW f \in Flow, StartServer(f) PROVE SessionInv'
  BY <1>2 DEF StartServer, SessionInv, OrderInv
<1>3. ASSUME NEW f \in Flow, StartClient(f) PROVE SessionInv'
  BY <1>3 DEF StartClient, SessionInv, OrderInv
<1>4. ASSUME NEW f \in Flow, Read(f) PROVE SessionInv'
  BY <1>4 DEF Read, SessionInv
<1>5. ASSUME NEW f \in Flow, Fail(f) PROVE SessionInv'
  BY <1>5 DEF Fail, SessionInv
<1>6. ASSUME NEW f \in Flow, Bind(f) PROVE SessionInv'
  BY <1>6 DEF Bind, SessionInv, IperfTypes
<1>7. ASSUME NEW f \in Flow, Connect(f) PROVE SessionInv'
  BY <1>7 DEF Connect, SessionInv, IperfTypes
<1>8. ASSUME NEW f \in Flow, Refused(f) PROVE SessionInv'
  BY <1>8 DEF Refused, SessionInv
<1>9. ASSUME NEW f \in Flow, SessionEnds(f) PROVE SessionInv'
  BY <1>9 DEF SessionEnds, SessionInv, IperfTypes
<1>10. ASSUME NEW f \in Flow, ServerExits(f) PROVE SessionInv'
  BY <1>10 DEF ServerExits, SessionInv
<1>11. ASSUME NEW f \in Flow, Stop(f) \/ StopDestination(f) PROVE SessionInv'
  BY <1>11, StopFacts, PkillFacts DEF SessionInv
<1>12. CASE UNCHANGED iperfVars
  BY <1>12 DEF iperfVars, SessionInv
<1> QED
  BY <1>1, <1>2, <1>3, <1>4, <1>5, <1>6, <1>7, <1>8, <1>9, <1>10, <1>11, <1>12
     DEF IperfNext, ThreadStep, ProcessStep

\* Processes and files appear in the order of the stages.
LEMMA OrderStep ==
  ASSUME IperfTypes, SessionInv, OrderInv, [IperfNext]_iperfVars
  PROVE  OrderInv'
<1>1. ASSUME NEW f \in Flow, StartIperf3(f) PROVE OrderInv'
  BY <1>1 DEF StartIperf3, OrderInv
<1>2. ASSUME NEW f \in Flow, StartServer(f) PROVE OrderInv'
  BY <1>2 DEF StartServer, OrderInv, IperfTypes
<1>3. ASSUME NEW f \in Flow, StartClient(f) PROVE OrderInv'
  BY <1>3 DEF StartClient, OrderInv, IperfTypes
<1>4. ASSUME NEW f \in Flow, Read(f) PROVE OrderInv'
  BY <1>4 DEF Read, OrderInv, IperfTypes
<1>5. ASSUME NEW f \in Flow, Fail(f) PROVE OrderInv'
  BY <1>5 DEF Fail, OrderInv
<1>6. ASSUME NEW f \in Flow, Bind(f) PROVE OrderInv'
  BY <1>6 DEF Bind, OrderInv, IperfTypes, Sides
<1>7. ASSUME NEW f \in Flow, Connect(f) PROVE OrderInv'
  BY <1>7 DEF Connect, OrderInv
<1>8. ASSUME NEW f \in Flow, Refused(f) PROVE OrderInv'
  BY <1>8 DEF Refused, OrderInv
<1>9. ASSUME NEW f \in Flow, SessionEnds(f) PROVE OrderInv'
  BY <1>9 DEF SessionEnds, SessionInv, OrderInv, IperfTypes, Sides
<1>10. ASSUME NEW f \in Flow, ServerExits(f) PROVE OrderInv'
  BY <1>10 DEF ServerExits, OrderInv, IperfTypes
<1>11. ASSUME NEW f \in Flow, Stop(f) \/ StopDestination(f) PROVE OrderInv'
  BY <1>11, StopFacts, PkillFacts DEF OrderInv, Live
<1>12. CASE UNCHANGED iperfVars
  BY <1>12 DEF iperfVars, OrderInv
<1> QED
  BY <1>1, <1>2, <1>3, <1>4, <1>5, <1>6, <1>7, <1>8, <1>9, <1>10, <1>11, <1>12
     DEF IperfNext, ThreadStep, ProcessStep

\* Two flows meet when the later one starts its server.
LEMMA MetStep ==
  ASSUME IperfTypes, SessionInv, OrderInv, MetInv, [IperfNext]_iperfVars
  PROVE  MetInv'
<1>1. ASSUME NEW f \in Flow, StartIperf3(f) PROVE MetInv'
  BY <1>1 DEF StartIperf3, MetInv, Live, AtPort, Socket
<1>2. ASSUME NEW f \in Flow, StartServer(f) PROVE MetInv'
  BY <1>2 DEF StartServer, MetInv, Live, AtPort, Socket, OnPortOf
<1>3. ASSUME NEW f \in Flow, StartClient(f) PROVE MetInv'
  BY <1>3 DEF StartClient, MetInv, Live, AtPort, Socket
<1>4. ASSUME NEW f \in Flow, Read(f) PROVE MetInv'
  BY <1>4 DEF Read, MetInv, Live, AtPort, Socket, IperfTypes
<1>5. ASSUME NEW f \in Flow, Fail(f) PROVE MetInv'
  BY <1>5 DEF Fail, MetInv, Live, AtPort, Socket
<1>6. ASSUME NEW f \in Flow, Bind(f) PROVE MetInv'
  BY <1>6 DEF Bind, MetInv, Live, AtPort, Socket, IperfTypes
<1>7. ASSUME NEW f \in Flow, Connect(f) PROVE MetInv'
  BY <1>7 DEF Connect, MetInv, Live, AtPort, Socket
<1>8. ASSUME NEW f \in Flow, Refused(f) PROVE MetInv'
  BY <1>8 DEF Refused, MetInv, Live, AtPort, Socket
<1>9. ASSUME NEW f \in Flow, SessionEnds(f) PROVE MetInv'
  BY <1>9 DEF SessionEnds, MetInv, Live, AtPort, Socket
<1>10. ASSUME NEW f \in Flow, ServerExits(f) PROVE MetInv'
  BY <1>10 DEF ServerExits, MetInv, Live, AtPort, Socket
<1>11. ASSUME NEW f \in Flow, Stop(f) \/ StopDestination(f) PROVE MetInv'
  BY <1>11, StopFacts, PkillFacts DEF MetInv, Live, AtPort, Socket
<1>12. CASE UNCHANGED iperfVars
  BY <1>12 DEF iperfVars, MetInv, Live, AtPort, Socket
<1> QED
  BY <1>1, <1>2, <1>3, <1>4, <1>5, <1>6, <1>7, <1>8, <1>9, <1>10, <1>11, <1>12
     DEF IperfNext, ThreadStep, ProcessStep

\* A flow that met no other keeps its session to itself.
LEMMA OwnStep ==
  ASSUME IperfTypes, SessionInv, OrderInv, MetInv, OwnInv, [IperfNext]_iperfVars
  PROVE  OwnInv'
<1>1. ASSUME NEW f \in Flow, StartIperf3(f) PROVE OwnInv'
  BY <1>1 DEF StartIperf3, OwnInv
<1>2. ASSUME NEW f \in Flow, StartServer(f) PROVE OwnInv'
  BY <1>2 DEF StartServer, OwnInv, OrderInv
<1>3. ASSUME NEW f \in Flow, StartClient(f) PROVE OwnInv'
  BY <1>3 DEF StartClient, OwnInv
<1>4. ASSUME NEW f \in Flow, Read(f) PROVE OwnInv'
  BY <1>4 DEF Read, OwnInv
<1>5. ASSUME NEW f \in Flow, Fail(f) PROVE OwnInv'
  BY <1>5 DEF Fail, OwnInv
<1>6. ASSUME NEW f \in Flow, Bind(f) PROVE OwnInv'
  BY <1>6 DEF Bind, OwnInv, IperfTypes
<1>7. ASSUME NEW f \in Flow, Connect(f) PROVE OwnInv'
  BY <1>7 DEF Connect, OwnInv, MetInv, Live, AtPort, OrderInv, IperfTypes
<1>8. ASSUME NEW f \in Flow, Refused(f) PROVE OwnInv'
  BY <1>8 DEF Refused, OwnInv
<1>9. ASSUME NEW f \in Flow, SessionEnds(f) PROVE OwnInv'
  BY <1>9 DEF SessionEnds, OwnInv, SessionInv, OrderInv, IperfTypes
<1>10. ASSUME NEW f \in Flow, ServerExits(f) PROVE OwnInv'
  BY <1>10 DEF ServerExits, OwnInv
<1>11. ASSUME NEW f \in Flow, Stop(f) \/ StopDestination(f) PROVE OwnInv'
  BY <1>11, StopFacts, PkillFacts DEF OwnInv, Live
<1>12. CASE UNCHANGED iperfVars
  BY <1>12 DEF iperfVars, OwnInv
<1> QED
  BY <1>1, <1>2, <1>3, <1>4, <1>5, <1>6, <1>7, <1>8, <1>9, <1>10, <1>11, <1>12
     DEF IperfNext, ThreadStep, ProcessStep

\* Only Read gives a flow its result, and then it is done.
LEMMA ResultStep ==
  ASSUME IperfTypes, ResultInv, [IperfNext]_iperfVars
  PROVE  ResultInv'
<1>1. ASSUME NEW f \in Flow, Read(f) PROVE ResultInv'
  <2> DEFINE r == <<file[EndRead(f)][f], EndRead(f)>>
  <2>1. EndRead(f) \in Sides
    BY DEF EndRead, PreferredEnd, Other, Sides
  <2>2. IsJson(file[EndRead(f)][f]) => r # Nothing
    <3>1. file[EndRead(f)][f] \in Flow \cup {Nothing, "error"}
      BY <2>1 DEF IperfTypes
    <3>2. IsJson(file[EndRead(f)][f]) => r \in (Flow \cup {"error"}) \X Sides
      BY <2>1, <3>1 DEF IsJson
    <3> QED
      BY <3>2, NothingAssumption
  <2> HIDE DEF r
  <2>3. \/ r # Nothing /\ stage' = [stage EXCEPT ![f] = "done"] /\ result' = [result EXCEPT ![f] = r]
        \/ stage' = [stage EXCEPT ![f] = "error"] /\ result' = result
    BY <1>1, <2>2 DEF Read, r
  <2>4. stage[f] = "client"
    BY <1>1 DEF Read
  <2> QED
    BY <2>3, <2>4 DEF ResultInv, IperfTypes
<1>2. CASE result' = result /\ \A f \in Flow : (stage'[f] = "done") = (stage[f] = "done")
  BY <1>2 DEF ResultInv
<1>3. ASSUME NEW f \in Flow, StartIperf3(f) \/ StartServer(f) \/ StartClient(f) \/ Fail(f)
      PROVE  result' = result /\ \A g \in Flow : (stage'[g] = "done") = (stage[g] = "done")
  BY <1>3 DEF StartIperf3, StartServer, StartClient, Fail, IperfTypes
<1>4. ASSUME NEW f \in Flow, ProcessStep(f) \/ Stop(f) \/ StopDestination(f)
      PROVE  result' = result /\ stage' = stage
  BY <1>4 DEF ProcessStep, Bind, Connect, Refused, SessionEnds, ServerExits,
               Stop, StopDestination, Pkill
<1>5. CASE UNCHANGED iperfVars
  BY <1>5 DEF iperfVars, ResultInv
<1> QED
  BY <1>1, <1>2, <1>3, <1>4, <1>5 DEF IperfNext, ThreadStep

IperfInv == IperfTypes /\ ResultInv /\ SessionInv /\ OrderInv /\ MetInv /\ OwnInv

\* The conjunction is inductive.
LEMMA IperfInvariant == IperfSpec => []IperfInv
<1>1. IperfInit => IperfInv
  <2> SUFFICES ASSUME IperfInit PROVE IperfInv
    OBVIOUS
  <2> USE DEF IperfInit
  <2>1. IperfTypes /\ ResultInv
    BY DEF IperfTypes, ResultInv
  <2>2. SessionInv /\ OrderInv /\ MetInv /\ OwnInv
    BY DEF SessionInv, OrderInv, MetInv, OwnInv, Live, Sides
  <2> QED
    BY <2>1, <2>2 DEF IperfInv
<1>2. IperfInv /\ [IperfNext]_iperfVars => IperfInv'
  BY IperfTypesStep, ResultStep, SessionStep, OrderStep, MetStep, OwnStep DEF IperfInv
<1> QED
  BY <1>1, <1>2, PTL DEF IperfSpec

\* The processes of all flows keep their types, a busy server has the session of one
\* client, and a client in a session has one server.
THEOREM IperfTypesCorrect == IperfSpec => []IperfTypeOK
<1>1. ASSUME IperfInv PROVE IperfTypeOK
  <2>1. ASSUME NEW f \in Flow, client[f] = "session"
        PROVE  Cardinality({g \in Flow : server[g] = "busy" /\ serves[g] = f}) = 1
    <3>1. PICK g \in Flow : server[g] = "busy" /\ serves[g] = f
      BY <1>1, <2>1 DEF IperfInv, SessionInv
    <3>2. {h \in Flow : server[h] = "busy" /\ serves[h] = f} = {g}
      BY <1>1, <3>1 DEF IperfInv, SessionInv
    <3> QED
      BY <3>2, FS_Singleton
  <2>2. \A f \in Flow : server[f] = "busy" => client[serves[f]] = "session"
    BY <1>1 DEF IperfInv, SessionInv
  <2>3. \A f \in Flow : (result[f] = Nothing) = (stage[f] # "done")
    BY <1>1 DEF IperfInv, ResultInv
  <2> QED
    BY <1>1, <2>1, <2>2, <2>3 DEF IperfInv, IperfTypes, IperfTypeOK
<1> QED
  BY <1>1, IperfInvariant, PTL

\* What a flow reports that met no other on its port is its own session, from the end
\* that measures it or, when that end has not written its file, from the other.
THEOREM OwnResultsCorrect == IperfSpec => OwnResults
<1>1. ASSUME IperfInv, [IperfNext]_iperfVars, NEW f \in Flow, ~config[f].blocking,
             f \notin disturbed, stage[f] = "client", stage'[f] = "done"
      PROVE  \/ result'[f] = <<f, MeasuringEnd(f)>>
             \/ result'[f] = <<f, Other(MeasuringEnd(f))>> /\ file[MeasuringEnd(f)][f] = Nothing
  <2>1. Read(f)
    <3>1. ASSUME NEW g \in Flow, StartIperf3(g) \/ StartServer(g) \/ StartClient(g) \/ Fail(g)
          PROVE  FALSE
      BY <1>1, <3>1 DEF StartIperf3, StartServer, StartClient, Fail, IperfInv, IperfTypes
    <3>2. ASSUME NEW g \in Flow, ProcessStep(g) \/ Stop(g) \/ StopDestination(g) PROVE FALSE
      BY <1>1, <3>2 DEF ProcessStep, Bind, Connect, Refused, SessionEnds, ServerExits,
               Stop, StopDestination, Pkill
    <3>3. ~UNCHANGED iperfVars
      BY <1>1 DEF iperfVars
    <3>4. ASSUME NEW g \in Flow, Read(g) PROVE g = f
      BY <1>1, <3>4 DEF Read, IperfInv, IperfTypes
    <3> QED
      BY <1>1, <3>1, <3>2, <3>3, <3>4 DEF IperfNext, ThreadStep
  <2>2. file["client"][f] = f /\ file["server"][f] \in {Nothing, f}
    BY <1>1, <2>1 DEF Read, IperfInv, OrderInv, OwnInv
  <2>3. PreferredEnd(f) = MeasuringEnd(f) /\ MeasuringEnd(f) \in Sides
    <3>1. config[f] \in Config
      BY <1>1 DEF IperfInv, IperfTypes
    <3>2. config[f].udp \in BOOLEAN /\ config[f].reverse \in BOOLEAN
      BY <3>1 DEF Config
    <3> QED
      BY <1>1, <3>2 DEF PreferredEnd, MeasuringEnd, Sender, Other, Sides
  <2>4. f # Nothing
    BY NothingAssumption
  <2>5. CASE file[MeasuringEnd(f)][f] = f
    <3>1. EndRead(f) = MeasuringEnd(f)
      BY <2>3, <2>4, <2>5 DEF EndRead, IsJson
    <3>2. result' = [result EXCEPT ![f] = <<f, MeasuringEnd(f)>>]
      BY <2>1, <2>4, <2>5, <3>1 DEF Read, IsJson
    <3> QED
      BY <1>1, <3>2 DEF IperfInv, IperfTypes
  <2>6. CASE file[MeasuringEnd(f)][f] = Nothing
    <3>1. EndRead(f) = Other(MeasuringEnd(f))
      BY <2>3, <2>6 DEF EndRead, IsJson
    <3>2. MeasuringEnd(f) = "server" /\ Other(MeasuringEnd(f)) = "client"
      BY <2>2, <2>3, <2>4, <2>6 DEF Sides, Other
    <3>3. result' = [result EXCEPT ![f] = <<f, Other(MeasuringEnd(f))>>]
      BY <2>1, <2>2, <2>4, <3>1, <3>2 DEF Read, IsJson
    <3> QED
      BY <1>1, <2>6, <3>3 DEF IperfInv, IperfTypes
  <2> QED
    BY <2>2, <2>3, <2>5, <2>6 DEF Sides
<1>2. IperfInv /\ [IperfNext]_iperfVars =>
        [\A f \in Flow :
           ~config[f].blocking /\ f \notin disturbed /\ stage[f] = "client" /\ stage'[f] = "done" =>
             \/ result'[f] = <<f, MeasuringEnd(f)>>
             \/ result'[f] = <<f, Other(MeasuringEnd(f))>> /\
                file[MeasuringEnd(f)][f] = Nothing]_iperfVars
  BY <1>1
<1> QED
  BY <1>2, IperfInvariant, PTL DEF IperfSpec, OwnResults
=============================================================================

--------------------------- MODULE FlowScheduler ---------------------------
(***************************************************************************)
(* Traffic flows (PingFlow, Hping3Flow, Iperf3Flow), the FlowScheduler     *)
(* that starts a list of them from a thread pool, and the calls of the     *)
(* user's thread that start and stop flows, stop_gonetem() among them.     *)
(*                                                                         *)
(* Each flow has a thread of its own, which sleeps for the delay, runs one *)
(* command in a container and stores the outcome.  All flows here use the  *)
(* same tool, and pkill does not tell them apart.  Time is abstract: a     *)
(* delay ends, and a bounded join gives up, at any moment.                 *)
(***************************************************************************)
EXTENDS Flows, Naturals, Sequences, FiniteSets

CONSTANTS
  Schedule,    \* flows of the scheduler, in the order of their delays
  Hosts,       \* nodes on which a flow has a process: the source; for iperf3 the
               \* destination too
  Iperf3,      \* the flows that are Iperf3Flows
  MaxWorkers   \* size of the thread pool

Scheduled == {Schedule[i] : i \in 1..Len(Schedule)}

ASSUME ScheduleAssumption == Schedule \in Seq(Flow) /\ Cardinality(Scheduled) = Len(Schedule)
ASSUME WorkersAssumption == MaxWorkers \in Nat \ {0}
ASSUME Iperf3Assumption == Iperf3 \subseteq Flow

VARIABLES
  st,         \* _status of each flow
  thread,     \* what the thread of the flow does
  killed,     \* flows whose command was killed
  sched,      \* _status of the scheduler
  submitted,  \* how many flows were submitted
  queue,      \* work queue of the executor
  joining,    \* flows a worker waits for
  started,    \* flows that workers started
  outcome,    \* outcome of each future
  results,    \* flows whose result the scheduler took
  errors,     \* flows with an exception in errors()
  up,         \* the containers run
  active,     \* _active_flows of the TopologyManager
  call,       \* what the user's thread does
  toStop,     \* flows that stop_gonetem() or stop() has yet to stop
  victim      \* the flow whose thread it joins

flowVars  == <<st, thread, killed>>
schedVars == <<sched, submitted, queue, joining, started, outcome, results, errors>>
userVars  == <<active, call, toStop, victim>>
vars == <<flowVars, schedVars, up, userVars>>

Outcomes == {"result", "failed", "timeout"}

TypeOK ==
  /\ st \in [Flow -> FlowStatus]
  /\ thread \in [Flow -> {"none", "delay", "command", "ended"}]
  /\ killed \subseteq Flow
  /\ sched \in {"IDLE", "RUNNING", "DONE"} /\ submitted \in 0..Len(Schedule)
  /\ queue \in Seq(Scheduled)
  /\ joining \subseteq started /\ started \subseteq Scheduled
  /\ Cardinality(joining) <= MaxWorkers
  /\ outcome \in [Scheduled -> Outcomes \cup {"none"}]
  /\ results \subseteq Scheduled /\ errors \subseteq Scheduled
  /\ up \in BOOLEAN /\ active \subseteq Flow
  /\ call \in {"none", "stop", "stop_gonetem"}
  /\ toStop \subseteq Flow /\ victim \subseteq Flow

Init ==
  /\ st = [f \in Flow |-> "IDLE"] /\ thread = [f \in Flow |-> "none"]
  /\ killed = {}
  /\ sched = "IDLE" /\ submitted = 0 /\ queue = <<>> /\ joining = {} /\ started = {}
  /\ outcome = [f \in Scheduled |-> "none"] /\ results = {} /\ errors = {}
  /\ up = FALSE /\ active = {} /\ call = "none" /\ toStop = {} /\ victim = {}

-----------------------------------------------------------------------------
(* One flow. *)

\* Mutant: start() does not look at the status.
MayStart_Always(f) == TRUE

\* start() raises unless the flow is idle; check and change are under one lock.
MayStart(f) == st[f] = "IDLE"

Start(f) ==
  /\ st' = [st EXCEPT ![f] = "RUNNING"]
  /\ thread' = [thread EXCEPT ![f] = "delay"]

Ends(f, status) ==
  /\ st' = [st EXCEPT ![f] = status]
  /\ thread' = [thread EXCEPT ![f] = "ended"]

\* The handler of an Iperf3Flow removes files in the containers before it sets
\* the status: without containers it raises, and the status stays.
StatusAfterError(f) == IF f \in Iperf3 /\ ~up THEN st[f] ELSE "ERROR"

\* The delay is over.  _run does not ask whether stop() was called meanwhile;
\* without a container the command raises.
Execute(f) ==
  /\ thread[f] = "delay"
  /\ \/ /\ up
        /\ thread' = [thread EXCEPT ![f] = "command"]
        /\ UNCHANGED st
     \/ ~up /\ Ends(f, StatusAfterError(f))
  /\ UNCHANGED <<killed, schedVars, up, userVars>>

\* The command returns; a killed one fails, and the output of any may be useless.
CommandEnds(f) ==
  /\ thread[f] = "command"
  /\ \/ f \notin killed /\ Ends(f, "DONE")
     \/ Ends(f, StatusAfterError(f))
  /\ UNCHANGED <<killed, schedVars, up, userVars>>

-----------------------------------------------------------------------------
(* The scheduler: _run in its own thread, _execute_flow in the pool. *)

\* run()
Run ==
  /\ call = "none" /\ sched = "IDLE"
  /\ sched' = "RUNNING"
  /\ UNCHANGED <<flowVars, submitted, queue, joining, started, outcome, results, errors, up,
                 userVars>>

Submit ==
  /\ sched = "RUNNING" /\ submitted < Len(Schedule)
  /\ queue' = Append(queue, Schedule[submitted + 1])
  /\ submitted' = submitted + 1
  /\ UNCHANGED <<flowVars, sched, joining, started, outcome, results, errors, up, userVars>>

\* Mutant: the pool has a worker for every flow.
WorkerFree_Always == TRUE
WorkerFree == Cardinality(joining) < MaxWorkers

\* A worker takes the next flow, clears its delay and starts it.
PickUp ==
  /\ queue # <<>> /\ WorkerFree
  /\ queue' = Tail(queue)
  /\ LET f == Head(queue) IN
       \/ /\ MayStart(f)
          /\ Start(f)
          /\ joining' = joining \cup {f} /\ started' = started \cup {f}
          /\ UNCHANGED outcome
       \/ /\ ~MayStart(f)
          /\ outcome' = [outcome EXCEPT ![f] = "failed"]
          /\ UNCHANGED <<st, thread, joining, started>>
  /\ UNCHANGED <<killed, sched, submitted, results, errors, up, userVars>>

FutureDone(f, o) ==
  /\ joining' = joining \ {f}
  /\ outcome' = [outcome EXCEPT ![f] = o]
  /\ UNCHANGED <<flowVars, sched, submitted, queue, started, results, errors, up, userVars>>

\* results() returns the result of a flow that is DONE and raises for an ERROR.
Joined(f) ==
  /\ f \in joining /\ thread[f] = "ended"
  /\ FutureDone(f, IF st[f] = "DONE" THEN "result" ELSE "failed")

\* Mutant: flow_timeout_sec = None is the default.
TimesOut_Never(f) == FALSE
TimesOut(f) == thread[f] # "ended"

\* join(timeout=flow_timeout_sec) gives up: the worker is free, the flow goes on.
TimeOut(f) ==
  /\ f \in joining /\ TimesOut(f)
  /\ FutureDone(f, "timeout")

\* Mutant: the result of a flow is taken from the flow and not from its future.
IsError_OfFlow(f) == st[f] # "DONE"
IsError(f) == outcome[f] # "result"

Uncollected == {f \in Scheduled : outcome[f] # "none"} \ (results \cup errors)

\* as_completed, once all flows are submitted.  (Without save_results the scheduler
\* drops the result it took.)
Collect(f) ==
  /\ sched = "RUNNING" /\ submitted = Len(Schedule) /\ f \in Uncollected
  /\ \/ IsError(f) /\ errors' = errors \cup {f} /\ UNCHANGED results
     \/ ~IsError(f) /\ results' = results \cup {f} /\ UNCHANGED errors
  /\ UNCHANGED <<flowVars, sched, submitted, queue, joining, started, outcome, up, userVars>>

AllCollected == results \cup errors = Scheduled

Finish ==
  /\ sched = "RUNNING" /\ AllCollected
  /\ sched' = "DONE"
  /\ UNCHANGED <<flowVars, submitted, queue, joining, started, outcome, results, errors, up,
                 userVars>>

-----------------------------------------------------------------------------
(* The user's thread. *)

StartGonetem ==
  /\ call = "none" /\ ~up
  /\ up' = TRUE
  /\ UNCHANGED <<flowVars, schedVars, userVars>>

\* start() of a flow that the user made.
StartFlow(f) ==
  /\ call = "none" /\ MayStart(f) /\ Start(f)
  /\ UNCHANGED <<killed, schedVars, up, userVars>>

\* ping(), run_hping3(), run_iperf3(): a new flow, which the manager remembers.
Ping(f) ==
  /\ call = "none" /\ f \notin Scheduled /\ st[f] = "IDLE" /\ Start(f)
  /\ active' = active \cup {f}
  /\ UNCHANGED <<killed, schedVars, up, call, toStop, victim>>

\* stop() of one flow, and stop_gonetem(), which goes through _active_flows.
StopFlow(f) ==
  /\ call = "none"
  /\ call' = "stop" /\ toStop' = {f}
  /\ UNCHANGED <<flowVars, schedVars, up, active, victim>>

StopGonetem ==
  /\ call = "none"
  /\ call' = "stop_gonetem" /\ toStop' = active
  /\ UNCHANGED <<flowVars, schedVars, up, active, victim>>

\* pkill -x, on the nodes of the flow.
Hit(f) == {g \in Flow : thread[g] = "command" /\ Hosts[g] \cap Hosts[f] # {}}

\* A flow that does not run is passed over; else pkill, and its thread is joined.
StopNext(f) ==
  /\ f \in toStop /\ victim = {}
  /\ toStop' = toStop \ {f}
  /\ \/ st[f] # "RUNNING" /\ UNCHANGED <<killed, victim>>
     \/ /\ st[f] = "RUNNING"
        /\ killed' = IF up THEN killed \cup Hit(f) ELSE killed
        /\ victim' = IF up THEN {f} ELSE {}
  /\ UNCHANGED <<st, thread, schedVars, up, active, call>>

\* The join returns when the thread has ended, or gives up.
StopJoined ==
  /\ victim # {}
  /\ victim' = {}
  /\ UNCHANGED <<flowVars, schedVars, up, active, call, toStop>>

\* stop() returns; stop_gonetem() takes the containers down, and what runs in them.
StopReturns ==
  /\ call # "none" /\ toStop = {} /\ victim = {}
  /\ call' = "none"
  /\ \/ call = "stop" /\ UNCHANGED <<killed, up, active>>
     \/ /\ call = "stop_gonetem"
        /\ up' = FALSE /\ active' = {}
        /\ killed' = killed \cup {f \in Flow : thread[f] = "command"}
  /\ UNCHANGED <<st, thread, schedVars, toStop, victim>>

-----------------------------------------------------------------------------

FlowStep == \E f \in Flow : Execute(f) \/ CommandEnds(f)

PoolStep == PickUp \/ \E f \in Scheduled : Joined(f) \/ TimeOut(f)

SchedulerStep == Submit \/ Finish \/ \E f \in Scheduled : Collect(f)

UserCall ==
  \/ Run \/ StartGonetem \/ StopGonetem
  \/ \E f \in Flow : StartFlow(f) \/ Ping(f) \/ StopFlow(f)

StopStep == StopJoined \/ StopReturns \/ \E f \in Flow : StopNext(f)

Next == FlowStep \/ PoolStep \/ SchedulerStep \/ UserCall \/ StopStep

Spec == Init /\ [][Next]_vars

\* The threads go on.  Nothing is assumed of the commands: any may hang.
FairSpec == Spec /\ WF_vars(PoolStep) /\ WF_vars(SchedulerStep) /\ WF_vars(StopStep)
-----------------------------------------------------------------------------
(* Properties. *)

\* A flow runs once, whoever starts it first: the user's thread and a worker may
\* both try, and a flow that ended keeps its outcome.
RunsOnce ==
  [][\A f \in Flow :
       thread[f] # "none" => thread'[f] # "delay" \/ thread[f] = "delay"]_vars

\* When the scheduler is DONE, each of its flows is either in the results, and then
\* it really ended well and in time, or in the errors, and then it failed, timed
\* out, or was started by somebody else (docstrings of results() and errors()).
EachFlowAccounted ==
  sched = "DONE" =>
    /\ results \cup errors = Scheduled /\ results \cap errors = {}
    /\ \A f \in results : st[f] = "DONE" /\ outcome[f] = "result"
    /\ \A f \in errors : st[f] # "DONE" \/ outcome[f] = "timeout" \/ f \notin started

\* The scheduler ends, and stop() and stop_gonetem() return, although commands may
\* hang and whatever the user starts or stops meanwhile ("A single stuck command
\* must not prevent container/project teardown").
CallsEnd ==
  /\ sched = "RUNNING" ~> sched = "DONE"
  /\ call # "none" ~> call = "none"
=============================================================================

------------------------------- MODULE Session -------------------------------
(***************************************************************************)
(* The life of an emulation: the simulation loop thread with start() and   *)
(* stop(), and start_gonetem(), stop_gonetem() and force_stop_gonetem()    *)
(* with the launcher and the projects it opens on the GoNetEm server.  One *)
(* user thread makes the calls, step by step, while loop threads run       *)
(* passes of update_simulation().                                          *)
(*                                                                         *)
(* A pass is one step here: it moves the links of the topology, and the    *)
(* wires of the project when the emulator is on (LinkSync has the detail). *)
(***************************************************************************)
EXTENDS Naturals, FiniteSets

CONSTANTS
  Thread,      \* loop threads; one that ended may be used again
  Link,        \* links the topology may have
  MaxStarts,   \* bound: projects opened in one behaviour
  MaxFaults,   \* bound: failing steps in one behaviour
  None         \* no thread, no project

Project == 1..MaxStarts

ASSUME BoundAssumption == MaxStarts \in Nat /\ MaxFaults \in Nat
ASSUME NoneAssumption == None \notin Thread /\ None \notin Project

VARIABLES
  pc,        \* where the user thread is: a step of a call, or "idle"
  force,     \* the teardown is that of force_stop_gonetem()
  back,      \* where stop() returns to
  running,   \* TopologyManager.running
  stopEvt,   \* _stop_evt is set
  current,   \* _sim_thread
  loop,      \* stage of every loop thread
  links,     \* active links of the topology
  active,    \* active_links, read when start_gonetem() began
  fresh,     \* project of the launcher start_gonetem() works with (_request)
  status,    \* the emulator is on for passes
  isOn,      \* gonetem_is_on
  launcher,  \* project of TopologyManager.launcher
  client,    \* that launcher has a client
  opened,    \* number of projects opened so far
  open,      \* projects of the server
  cont,      \* projects with containers on the host
  wires,     \* wires of every project
  drift,     \* history: links a pass changed while start_gonetem() ran
  orphans,   \* history: projects whose opening or closing went wrong
  faults     \* failing steps so far

loopVars   == <<running, stopEvt, current, loop>>
startVars  == <<active, fresh, opened>>
emuVars    == <<status, isOn, launcher, client>>
serverVars == <<open, cont, wires>>
histVars   == <<drift, orphans, faults>>
vars == <<pc, force, back, loopVars, links, startVars, emuVars, serverVars, histVars>>

UserSteps ==
  {"idle", "clear", "run", "spawn", "unset", "join",
   "open", "topology", "attach", "cleanup", "teardown", "close"}
Starting == {"open", "topology", "attach", "cleanup"}

TypeOK ==
  /\ pc \in UserSteps /\ back \in UserSteps /\ force \in BOOLEAN
  /\ running \in BOOLEAN /\ stopEvt \in BOOLEAN /\ current \in Thread \cup {None}
  /\ loop \in [Thread -> {"check", "update", "wait", "finally", "ended"}]
  /\ links \subseteq Link /\ active \subseteq Link /\ drift \subseteq Link
  /\ fresh \in Project \cup {None} /\ launcher \in Project \cup {None}
  /\ status \in BOOLEAN /\ isOn \in BOOLEAN /\ client \in BOOLEAN
  /\ opened \in 0..MaxStarts
  /\ open \subseteq Project /\ cont \subseteq Project /\ orphans \subseteq Project
  /\ wires \in [Project -> SUBSET Link]
  /\ faults \in 0..MaxFaults
  /\ (isOn \/ client => launcher # None) /\ (pc \in {"topology", "attach"} => fresh # None)

Init ==
  /\ pc = "idle" /\ force = FALSE /\ back = "idle"
  /\ running = FALSE /\ stopEvt = FALSE /\ current = None
  /\ loop = [t \in Thread |-> "ended"]
  /\ links \in SUBSET Link /\ active = {} /\ fresh = None /\ opened = 0
  /\ status = FALSE /\ isOn = FALSE /\ launcher = None /\ client = FALSE
  /\ open = {} /\ cont = {} /\ wires = [p \in Project |-> {}]
  /\ drift = {} /\ orphans = {} /\ faults = 0

Fault == faults < MaxFaults /\ faults' = faults + 1

-----------------------------------------------------------------------------
(* Passes. *)

\* Mutant: only new links are sent to the server.
Rewired_Add(ws, new) == ws \cup (new \ links)

Rewired(ws, new) == (ws \ (links \ new)) \cup (new \ links)

Changed(new) == (links \ new) \cup (new \ links)

\* update_simulation(), with the stages of LinkSync in one step.
UpdateSimulation ==
  /\ links' \in SUBSET Link
  /\ wires' = IF status /\ client
              THEN [wires EXCEPT ![launcher] = Rewired(@, links')] ELSE wires
  /\ drift' = IF status THEN drift \ Changed(links')
              ELSE IF pc \in Starting THEN drift \cup Changed(links') ELSE drift

\* Mutant: the flag stands for the thread.
Alive_Running(t) == running

Alive(t) == t # None /\ loop[t] # "ended"

LoopStep(t, from, to) == loop[t] = from /\ loop' = [loop EXCEPT ![t] = to]

\* Mutant: the loop has no condition.
Stopping_Never == FALSE

Stopping == stopEvt

LoopCheck(t) ==
  /\ LoopStep(t, "check", IF Stopping THEN "finally" ELSE "update")
  /\ UNCHANGED <<pc, force, back, running, stopEvt, current, links, startVars, emuVars,
                 serverVars, histVars>>

\* update_simulation() returns, or its exception ends the loop.
LoopUpdate(t) ==
  /\ \/ LoopStep(t, "update", "wait") /\ UpdateSimulation /\ UNCHANGED faults
     \/ LoopStep(t, "update", "finally") /\ Fault /\ UNCHANGED <<links, wires, drift>>
  /\ UNCHANGED <<pc, force, back, running, stopEvt, current, startVars, emuVars,
                 open, cont, orphans>>

\* _stop_evt.wait() ends with the event or with its timeout.
LoopWait(t) ==
  /\ LoopStep(t, "wait", "check")
  /\ UNCHANGED <<pc, force, back, running, stopEvt, current, links, startVars, emuVars,
                 serverVars, histVars>>

LoopFinally(t) ==
  /\ LoopStep(t, "finally", "ended")
  /\ running' = FALSE
  /\ UNCHANGED <<pc, force, back, stopEvt, current, links, startVars, emuVars,
                 serverVars, histVars>>

Loop(t) == LoopCheck(t) \/ LoopUpdate(t) \/ LoopWait(t) \/ LoopFinally(t)

-----------------------------------------------------------------------------
(* start(), stop() and single passes. *)

UserStep(from, to) == pc = from /\ pc' = to

\* start(), after its early return.
Start ==
  /\ UserStep("idle", "clear") /\ ~running
  /\ UNCHANGED <<force, back, loopVars, links, startVars, emuVars, serverVars, histVars>>

StartClear ==
  /\ UserStep("clear", "run") /\ stopEvt' = FALSE
  /\ UNCHANGED <<force, back, running, current, loop, links, startVars, emuVars, serverVars,
                 histVars>>

StartRun ==
  /\ UserStep("run", "spawn") /\ running' = TRUE
  /\ UNCHANGED <<force, back, stopEvt, current, loop, links, startVars, emuVars, serverVars,
                 histVars>>

StartSpawn ==
  /\ UserStep("spawn", "idle")
  /\ \E t \in Thread : LoopStep(t, "ended", "check") /\ current' = t
  /\ UNCHANGED <<force, back, running, stopEvt, links, startVars, emuVars, serverVars, histVars>>

\* stop(), on its own or from stop_gonetem().
BeginStop(return) ==
  /\ pc' = "unset" /\ back' = return /\ stopEvt' = TRUE
  /\ UNCHANGED <<force, running, current, loop, links, startVars, emuVars, serverVars, histVars>>

Stop == pc = "idle" /\ BeginStop("idle")

StopUnset ==
  /\ UserStep("unset", "join") /\ running' = FALSE
  /\ UNCHANGED <<force, back, stopEvt, current, loop, links, startVars, emuVars, serverVars,
                 histVars>>

\* Mutant: stop() does not wait for a pass that is going on.
Joined_Not == TRUE

Joined == ~Alive(current)

StopJoin ==
  /\ UserStep("join", back) /\ Joined
  /\ UNCHANGED <<force, back, loopVars, links, startVars, emuVars, serverVars, histVars>>

\* next_step() and simulate_link_failure(): a pass in the thread of the user.
NextStep ==
  /\ pc = "idle" /\ UpdateSimulation
  /\ UNCHANGED <<pc, force, back, loopVars, startVars, emuVars, open, cont, orphans, faults>>

-----------------------------------------------------------------------------
(* start_gonetem() *)

StartGonetem ==
  /\ UserStep("idle", "open") /\ ~isOn /\ opened < MaxStarts
  /\ active' = links /\ fresh' = None /\ drift' = {}
  /\ UNCHANGED <<force, back, loopVars, links, opened, emuVars, serverVars, orphans, faults>>

\* ServerGetVersion and ProjectOpen.  A failing ProjectOpen may have opened the
\* project all the same; the launcher does not know its id then.
OpenProject ==
  LET p == opened + 1
  IN /\ \/ /\ UserStep("open", "topology")
           /\ opened' = p /\ open' = open \cup {p} /\ fresh' = p
           /\ UNCHANGED <<orphans, faults>>
        \/ /\ UserStep("open", "cleanup") /\ Fault
           /\ \/ UNCHANGED <<opened, open, orphans>>
              \/ opened' = p /\ open' = open \cup {p} /\ orphans' = orphans \cup {p}
           /\ UNCHANGED fresh
     /\ UNCHANGED <<force, back, loopVars, links, active, emuVars, cont, wires, drift>>

\* TopologyRun: the containers and the wires of the project file, or some of them.
TopologyRun ==
  /\ cont' = cont \cup {fresh}
  /\ \/ /\ UserStep("topology", "attach")
        /\ wires' = [wires EXCEPT ![fresh] = active] /\ UNCHANGED faults
     \/ /\ UserStep("topology", "cleanup") /\ Fault
        /\ \E ws \in SUBSET active : wires' = [wires EXCEPT ![fresh] = ws]
  /\ UNCHANGED <<force, back, loopVars, links, startVars, emuVars, open, drift, orphans>>

\* Mutant: the manager keeps the launcher it had.
NewLauncher_Kept == launcher

\* "self.launcher = launcher"
NewLauncher == fresh

\* _attach_containers, whose failures are logged; then the launcher is in place.
Attach ==
  /\ UserStep("attach", "idle")
  /\ launcher' = NewLauncher /\ client' = TRUE /\ fresh' = None
  /\ status' = TRUE /\ isOn' = TRUE
  /\ UNCHANGED <<force, back, loopVars, links, active, opened, serverVars, histVars>>

\* Mutant: the containers go, the project is not closed.
Closed_Not(p) == open

\* ProjectClose
Closed(p) == open \ {p}

\* _cleanup_failed_start: force_close_project() when there is a project, and no
\* client or request after it.  A failing ProjectClose is logged.
CleanupFailedStart ==
  /\ UserStep("cleanup", "idle")
  /\ fresh' = None
  /\ cont' = cont \ {fresh} /\ wires' = IF fresh = None THEN wires ELSE [wires EXCEPT ![fresh] = {}]
  /\ \/ open' = (IF fresh = None THEN open ELSE Closed(fresh)) /\ UNCHANGED <<orphans, faults>>
     \/ fresh # None /\ Fault /\ orphans' = orphans \cup {fresh} /\ UNCHANGED open
  /\ UNCHANGED <<force, back, loopVars, links, active, opened, emuVars, drift>>

-----------------------------------------------------------------------------
(* stop_gonetem() and force_stop_gonetem() *)

\* stop_gonetem() stops the loop first; the flows and the HIL bridges, which go
\* next, are in FlowScheduler and HilHandover.
StopGonetem ==
  /\ pc = "idle"
  /\ IF running \/ Alive(current)
     THEN BeginStop("teardown")
     ELSE /\ pc' = "teardown" /\ force' = FALSE
          /\ UNCHANGED <<back, loopVars, links, startVars, emuVars, serverVars, histVars>>

ForceStopGonetem ==
  /\ UserStep("idle", "teardown") /\ force' = TRUE
  /\ UNCHANGED <<back, loopVars, links, startVars, emuVars, serverVars, histVars>>

Teardown ==
  /\ UserStep("teardown", "close") /\ status' = FALSE
  /\ UNCHANGED <<force, back, loopVars, links, startVars, isOn, launcher, client, serverVars,
                 histVars>>

\* close_project: nothing without a client; a failing ProjectClose is raised past
\* the reset of the flags, but the client is gone.
CloseProject ==
  /\ UserStep("close", "idle") /\ force' = FALSE
  /\ client' = FALSE
  /\ \/ /\ ~client
        /\ isOn' = FALSE /\ UNCHANGED <<serverVars, orphans, faults>>
     \/ /\ client
        /\ isOn' = FALSE /\ open' = Closed(launcher) /\ cont' = cont \ {launcher}
        /\ wires' = [wires EXCEPT ![launcher] = {}]
        /\ UNCHANGED <<orphans, faults>>
     \/ /\ client /\ Fault
        /\ open' \in {open, Closed(launcher)} /\ orphans' = orphans \cup {launcher}
        /\ UNCHANGED <<isOn, cont, wires>>
  /\ UNCHANGED <<back, loopVars, links, startVars, status, launcher, drift>>

User ==
  \/ Start \/ StartClear \/ StartRun \/ StartSpawn
  \/ Stop \/ StopUnset \/ StopJoin \/ NextStep
  \/ StartGonetem \/ OpenProject \/ TopologyRun \/ Attach \/ CleanupFailedStart
  \/ StopGonetem \/ ForceStopGonetem \/ Teardown \/ CloseProject

Next == User \/ \E t \in Thread : Loop(t)

\* The threads are scheduled, calls end, and passes and waits are finite; whether
\* the user makes another call is up to the user.
Fairness == WF_vars(User /\ pc # "idle") /\ \A t \in Thread : WF_vars(Loop(t))

Spec == Init /\ [][Next]_vars /\ Fairness

-----------------------------------------------------------------------------
(* Properties. *)

\* However start(), stop(), stop_gonetem() and the end of a loop by an exception
\* follow each other, no two loops run, and the flag says that one does: start()
\* has a loop running when it returns, and never starts a second one.
OneLoop ==
  /\ Cardinality({t \in Thread : loop[t] # "ended"}) <= 1
  /\ \A t \in Thread : loop[t] # "ended" => t = current /\ (running \/ stopEvt)
  /\ running /\ pc \notin {"spawn", "unset"} => Alive(current)

\* While stop_gonetem() takes the emulator down, no pass is going on.
QuietTeardown == pc \in {"teardown", "close"} /\ ~force => \A t \in Thread : loop[t] = "ended"

\* A project of the server is the one that start_gonetem() works on or that the
\* launcher has, whichever step of a start failed; what is left over had its
\* opening or its closing fail on the server.
NoProjectLost ==
  /\ open \ orphans \subseteq ({fresh} \cup IF isOn THEN {launcher} ELSE {})
  /\ cont \ orphans \subseteq open
  /\ status => launcher \in open \cap cont

\* Passes during start_gonetem(), which takes minutes, work with an emulator that
\* is off.  Every link they left alone has its wire exactly when it is active,
\* and a link they changed has it again after its next change.
WiresFollowLinks ==
  status => \A l \in Link \ drift : l \in links <=> l \in wires[launcher]

\* stop() returns: the loop notices the event whatever it is doing.
StopReturns == pc = "join" ~> pc # "join"
=============================================================================

# TLA+ models of satgonetem

satgonetem couples an orbital simulation (the external package `sat_com`) with
a network emulator (the external GoNetEm server: docker containers joined by
veth pairs). The `TopologyManager` keeps its own copy of the simulated network
and, at every step of the simulation, brings the emulator, the interfaces of
the nodes and the routing to the state of the simulation. These modules model
that machinery: what a step does to each of the copies, in which order, and
what is left when it is interrupted, repeated or fails.

## 1. Inventory

| Component (source) | State | Operations | Talks to |
|---|---|---|---|
| Link synchronisation (`services/mixins/topology_sync.py`, `link_ops.py`, `interface_mgr.py`, `models/link.py`) | wrappers `links` with `is_active`, `to_add`, `to_update`, `to_remove`, `delay` | `init`, `update_simulation` = sync, bulk delete, local delete, bulk add/update, local add, routing update | reads the simulation manager; RPCs of the launcher from a thread pool; interface lists of the nodes |
| Network lifecycle (`network_lifecycle.py`) | `status`, `gonetem_is_on` | `start_gonetem`, `stop_gonetem`, `force_stop_gonetem`, `set_ip_addresses`, `fast_start` | launcher, HIL manager, flows, loop |
| GoNetEm launcher (`launchers/gonetem_launcher.py`) | project id, stub | create/close topology, add/update/delete link, run a command | GoNetEm server (gRPC) |
| Nodes and interfaces (`models/node.py`, `interface.py`) | interface list, container, routing table | create/remove interface, set addresses | containers |
| Simulation loop (`simulation_loop.py`) | `is_running`, thread | `start`, `stop`, `next_step`, `move_to_time`, `simulate_link_failure` | link synchronisation, routing |
| HIL manager (`launchers/hil_manager.py`) | book of bridges | setup, teardown, update of one link | host kernel, veths of satellites |
| Static routing (`routing/static_daemon.py`, `routing_mgr.py`) | current and previous table of every node, cache of signatures | `init`, `update`, `remove` | routing graph, containers |
| SR-MPLS (`routing/srmpls_daemon.py`) | label entries, previous entries | `init`, `update`, `remove` | routing graph, containers |
| Bird daemons (`ospf_daemon.py`, `isis_sr_bird_daemon.py`) | configuration files | `init`, `update`, `remove` | containers |
| P4 controller and shared graph (`p4_daemon.py`, `graph_shared_memory.py`) | edge table in shared memory, version | write, read | switch processes |
| Flows (`traffic/*.py`, `traffic_testing.py`) | status of each flow, results and errors of a scheduler | start, stop, run | containers |
| Address plan (`utils/ip_utils.py`) | none | addresses of the ends of a link | interface building |
| Connection strategies (`utils/custom_connection_strategies.py`) | links of each station | selection of satellites | `sat_com` |
| Project files (`services/topology_satcom.py`, `utils/project_builder.py`) | data files, project files | `from_satcom`, `from_simulation_manager`, `to_file`, `from_file` | file system, `sat_com` |
| Link budget, diagnostics, terminals, geometry, generated stubs | - | formulas, I/O | - |

How they interact. One pass of `update_simulation` runs on the loop thread or
on the thread that calls `next_step`/`simulate_link_failure`. It reads the
simulation manager (links, positions), writes the wrappers, and opens thread
pools for the RPCs and for the local work; it waits for every future of a pool
before it goes on. It then calls the routing daemon, which reads the wrappers
and the interfaces. The lifecycle calls run on the caller's thread.

What is hard here:

* several copies of one fact (simulation, wrapper, interface pair, veth pair,
  address, route) that are updated in different stages of a pass;
* failures that are logged and swallowed in one stage, while the next stage
  goes on as if nothing had happened;
* calls that are legal in any order (`set_ip_addresses`, `start_gonetem`,
  `next_step`, `stop_gonetem`), few of which a test runs;
* kernel operations that are not idempotent (`addr add`, bridge creation);
* threads without locks: the loop, the pools, the flows.

What makes the components correct:

* *Link synchronisation*: after a pass the emulator has a wire for exactly the
  active links, with the right delay and addresses, and each link has one
  interface pair; deletions come before additions; the copies converge, also
  after failures.
* *Lifecycle and loop*: no call leaves the session in a state from which it
  can neither be stopped nor started.
* *HIL*: after a handover the hardware interface is bridged to the veth of the
  satellite that serves the station.
* *Routing*: after an update the kernel of every node has the routes of its
  table, and the table follows the graph.
* *Flows*: every flow of a scheduler ends in exactly one of results and
  errors; `stop` stops the flow it is called for and no other.
* *Addresses*: no two interfaces share one, the two ends of a link share a
  subnet.
* *Strategies*: a station keeps the satellites it sees and gets the best of the
  others; it is never left without a link while it sees one.
* *Project files*: what is loaded is what was saved.

## 2. Plan, and how far it is carried out

| Module | Models | Composes, refines | Checked by | Proved in |
|---|---|---|---|---|
| `LinkSync` | the update pass, calls between passes | implements `Emulation` | `linksync_pass`, `linksync_faults` | `LinkProofs` |
| `Emulation` | what a pass promises | - | through `LinkSync` | through `LinkSync` |
| `HilHandover` | links of hardware-in-the-loop stations | extends `LinkSync` | `hil_pass` | `LinkProofs` |
| `Session` | loop thread, start, stop, projects of the server | a pass in one step | `session_pass` | `SessionProofs` |
| `StaticRoutes` | tables, signatures and kernel routes | a pass in one step | `static_pass` | `StaticRoutesProofs` |
| `SrMpls` | label rules, label stacks, custom paths | a pass in one step | `srmpls_pass` | `SrMplsProofs` |
| `Bird`, `AddressPlan` | OSPF and IS-IS configurations; addresses | `Bird` uses the addresses of `AddressPlan` | `bird_pass` | `BirdProofs` |
| `Flows` | the flows and their status, which the next two share | - | with these | - |
| `FlowScheduler` | flows, scheduler, stops | extends `Flows` | `flows_pass` | `FlowProofs` |
| `Iperf3` | processes and files behind one flow | extends `Flows`: a flow of `FlowScheduler` in detail | `iperf3_pass` | `FlowProofs` |
| `ConnectionStrategies` | which satellites a station is linked to | - | `strategies_pass`, `strategies_rising` | `ConnectionStrategiesProofs` |
| `ProjectFiles` | saving and loading | - | `projects_pass` | `ProjectFilesProofs` |

Each `MC` module gives the constants of its run values that a configuration
file cannot express. What is left of the plan:

* two passes at once on the wrappers (`next_step()` beside a running loop):
  `Session` has the interleaving, with a pass in one step;
* an abstract table that the kernel follows, for `StaticRoutes` and `SrMpls`.

Every safety property of a passing run is also a theorem; section 14 says what
the theorems assume and what stays model-checked.

## 3. LinkSync

| Variable | Code |
|---|---|
| `sim`, `dist` | links and positions of the simulation manager; a distance is the delay it rounds to |
| `known`, `active`, `toAdd`, `toUpdate`, `toRemove`, `delay` | `TopologyManager.links` and the fields of a `Link` |
| `pairs` | interface pairs of a link on its two nodes (`create_interface`), `"ipv4"` when built with addresses |
| `wire`, `addr` | veth pair with its netem delay, and how many of its ends have their address |
| `status`, `configured` | `TopologyManager.status`; was `set_ip_addresses` called since the last stop |
| `pc`, `adds`, `upds`, `dels`, `pend` | stage of `update_simulation`, its three lists, links the pool of the stage still has to serve |
| `faults` | failed RPCs, bounded |

| Action | Code |
|---|---|
| `SetLink`, `Move` | the simulation manager changes (at any time, also in the middle of a pass) |
| `Sync` | `_sync_links`, the flags it raises and the lists `update_simulation` makes of them |
| `DeleteRpc` | `_execute_link_delete` in the first pool; a failure is logged |
| `LocalDelete` | `_remove_link_interfaces` and the removal of the wrappers |
| `AddRpc`, `UpdateRpc` | second pool |
| `UpdateFlags`, `AddInterfaces`, `LocalDone` | the local stage: flags of updates, then interface pairs and addresses of additions |
| `StartGonetem`, `StopGonetem`, `SetIpAddresses` | `NetworkLifecycleMixin`, between two passes |

What is external and assumed: the server refuses `LinkAdd` for an existing
pair and `LinkUpdate` for a missing one, without effect; `ip -force -batch`
applies every line it can and reports a failure when any line failed.

Simplifications: `StartGonetem` is one step (`Session` has its steps); passes do
not overlap; a local stage that is not concurrent with RPCs is one step
(`LocalDelete`).

`Emulation` is the abstract specification: the links of the view, the links
that are emulated, and a pass that removes what is outside the view, then adds
what is missing, each once, and ends when the two agree. A link that the pass is
going to remove is outside the view although its wrapper stays active until the
wire is gone: `view <- active \ toRemove`, `net <- Wires`. Flags, lists, pools,
interfaces, addresses and delays are gone; a lost call ends the promise
(`clean`).

### Runs

| Run | Checks | Shows |
|---|---|---|
| `linksync_pass` | `TypeOK`, `WiresMatchLinks`, `DelaysCurrent`, `InterfacesComplete`, `ImplementsEmulation` | two links, two delays, no failure, passes while the emulator is up: emulator, delays, addresses and interface pairs follow the wrappers, and a pass implements `Emulation` |
| `linksync_faults` | `Converges`, `FaultsHeal` | one link, all initial states, passes and `set_ip_addresses` also before `start_gonetem`, one lost call of any kind: with a simulation at rest wrappers, wires and delays reach it; whatever was lost, no link is lost for ever |

`linksync_pass` leaves out links that are disabled when the topology is
created (`init()` builds their interface pair, and enabling them builds a second
one that a removal leaves behind) and passes before `start_gonetem` (their
interfaces never get an address), because there the code does not keep
`InterfacesComplete`. The other properties of the run hold there too: that is
what the proofs show, which assume neither.

Bounds. Links are independent except for the lists of a pass and the pools
they share, so two links show every order of two deletions, additions and
updates in a pool; the stages and flags of one link do not depend on more.
Two delays suffice for a stale one to be told from a current one. `MaxPairs`
= 2 makes a second pair of a link visible; `MaxFaults` = 1 because one
failure already leaves every kind of partial state the code can leave.
The liveness run has one link: the fairness is on the pass, not on a link.

Fairness (`FairSpec`): weak fairness on `Sync` and on `PassStep`. `_loop` calls
`update_simulation` as long as `is_running`, and the pass waits for all the
futures of a pool, each of which ends (an RPC returns or raises). Nothing is
assumed of the simulation manager or of the user; the liveness properties take
"the simulation manager stops changing and the emulator stays up" as premise.

Limit met while modelling: `addr add` is not idempotent (`models/node.py:326`;
its docstring, line 310, says `addr replace`), so a link whose addresses were once
set late is added again in every pass. `FaultsHeal` says that wires and
wrappers stand this; `Converges` promises `toAdd = {}` only without failures.

### Proofs (`LinkProofs`)

For any set of links and delays and any bounds, from the named assumptions on
the constants: `TypeCorrect`, `StageInvariant`, `WiresCorrect`, `DelaysCorrect`,
`DeletesPrecedeAdds`, `InterfacesCorrect` and `PassImplementsEmulation`.

`WiresMatchLinks` is not inductive: it speaks of the time between two passes
only. `IInv` says for each stage what is already done and what is still in
`pend`: in `bulkDel` the wires are those of the links that are neither listed
for deletion nor for addition, plus the deletions that are still to be served;
in `bulkAdd` those of the active links without the pending additions; and so on.
`FreshInv` is needed because an address that is left on a new wire would make
the address command fail and `to_add` stay. One step of the proof per action;
`WiresCorrect` and `DelaysCorrect` are consequences of `IInv` at `pc = "idle"`,
`DeletesPrecedeAdds` is proved per action from it.

`InterfacesCorrect` has the two premises of its run, `~Offline` and
`"disabled" \notin InitStates`, and two more invariants: `PairInv` (which links
have their pair in which stage) and `AddressInv` (which wires still wait for
addresses). `PassImplementsEmulation` maps every action to a step of `Emulation`
or a stutter: `EmuStep` splits a step without failures by action and takes from
`IInv` that the view does not move during a pass and that `Finish` finds the two
sets equal; a step with a failure is the second disjunct of `Emulation`'s `Next`.

Only model-checked: the liveness properties, which TLAPS cannot prove (fairness,
ENABLED).

## 4. HilHandover

EXTENDS `LinkSync`: a pass over links whose ground station is real hardware.
The comparison, the lists, the flags and the local stages are the actions of
`LinkSync`; the RPCs and the lifecycle are replaced by what
`launchers/hil_manager.py` does on the host. `wire` is the veth pair
`eth{gnd}`/`hil{gnd}` of a link, or `Unshaped` when its qdiscs are missing.

| Variable | Code |
|---|---|
| `bridges`, `ports` | bridges `brhil{gnd}` of the host and the interfaces enslaved to them |
| `book` | `_hil_bridges` and `_hil_veths`, which are filled and emptied together |
| `nics`, `unplugs` | hardware interfaces on the host; how often one disappeared (bounded) |

| Action | Code |
|---|---|
| `HilDelete`, `HilAdd`, `HilUpdate` | `teardown_link`, `setup_link`, `update_link`, called by `link_ops.py` in the pools of the pass |
| `HilAddInterfaces` | `_add_link_interfaces`, whose address command always fails on the station |
| `HilStart`, `HilStop`, `HilSetIpAddresses` | `wire_links`, `teardown_all` and the container removal, `set_ip_addresses` |
| `Reconnect` | one time step of the connection strategy: any set of links of at most `MaxLinks` per station |
| `Drift`, `Unplug`, `Plug` | positions; hardware of the host |

| Run | Checks | Shows |
|---|---|---|
| `hil_pass` | `HilTypeOK`, `BridgedToActive`, `NoForeignVeth`, `TeardownComplete`, `HandoverSettles` | one station, one link at a time, passes before and after the start, hardware that disappears: the bridge follows the handover, nothing of an old satellite survives a pass |

Fairness (`HilFairSpec`): as in `LinkSync`, on the pass only.

Limits that the properties state as premises, each a behaviour of the code:
two links of one station share the names of veth pair and bridge, so removing
the second (or a disabled one) takes the bridge of the first (`MaxLinks` = 1,
no disabled links); a bridge created while its hardware was missing is not on
record and outlives the emulator (`unplugs = 0` in `BridgedToActive`,
`TeardownComplete`, `HandoverSettles`). The delay of a veth pair after a handover is promised
nothing: the address command of the station always fails, `to_add` stays set
(`link_ops.py:444`), and the addition, which finds its names taken, outranks the
update in every later pass, so `update_link` (`hil_manager.py:449`) is not called.

Bounds. Names are per station, so stations do not interact and one is enough.
Two satellites are the old and the new one of a handover. Two delays, as in
`LinkSync`. The link RPCs of the launcher are not called for these links, so
the failures of `LinkSync` are off.

Proofs (second part of `LinkProofs`), for any stations, links and number of unplugs; the
set of links is finite (`FiniteAssumption`), because one of several is "the
first". The invariant is built up in parts, each used by those after it:

| Part | Says | Needed for |
|---|---|---|
| `PassTypes`, `HostTypes` | types of the pass and of the host | `HilTypesCorrect` |
| `ListInv` | in which stage the lists and the wires agree; a wire that is not waiting for its deletion is active | all below |
| `PortInv` | a bridge holds wired veths only, a station has one | `NoForeignVethCorrect` |
| `RecordInv` | while nothing was unplugged, the book is the set of bridges | `TeardownCorrect` |
| `ServeInv` | with one link per station and none disabled: what is active and not wired is on its way | `BridgedCorrect` |
| `BridgeInv` | a bridge is there exactly when its station has a wire, and joins it to the hardware | `BridgedCorrect` |

`NoForeignVethCorrect` and `TeardownCorrect` have no premise: they hold for any
`MaxLinks` and disabled links. `BridgedCorrect` assumes `MaxLinks = 1` and no
disabled link, as the run does. `BridgeInv` is needed because `BridgedToActive`
says nothing during a pass: between the deletion of the old veth and the addition
of the new one, the bridge must be gone with the veth, or the addition would keep
it and enslave nothing.

## 5. StaticRoutes

Routing tables, the cache of route signatures, and the kernels. `LinkSync` in
one step (`Pass`): interfaces and veth pairs follow the links of the
simulation, or one `LinkDel` is lost. A route is the neighbour it leads to; a
next hop is any that some path of the graph uses, so that every choice of
weights is covered.

| Variable | Code |
|---|---|
| `sim`, `ifaces`, `devs` | links of the simulation; links with `Interface` objects; veth pairs that exist |
| `cur`, `prev` | `ipv4_routing_table`, `ipv4_previous_routing_table` of the nodes |
| `sig` | `_source_signatures` with `_entry_cache` |
| `kern` | routes in the containers |
| `status`, `initiated`, `daemon` | `TopologyManager.status`, `routing_initiated`, `routing_daemon` is not None |
| `pc`, `mode`, `hop` | stage of `init()` or `update()`, and the next hops it computed |
| `missed`, `faults` | nodes whose last batch failed; failures so far (bounded) |

| Action | Code |
|---|---|
| `InitRouting`, `DeleteRouting` | `routing_mgr.py` and `init`/`remove` of the daemon |
| `Pass`, `MoveToTime` | `update()` with and without a synchronisation before it |
| `Populate`, `PopulateRaises` | `_populate_routing_tables`, which raises at a next hop without an interface |
| `Apply` | `_emit_batch_commands`, `_exec_batch` on the nodes |
| `StartGonetem`, `StopGonetem` | as far as routes, devices and flags are concerned |

| Run | Checks | Shows |
|---|---|---|
| `static_pass` | `TypeOK`, `KernelFollowsTables`, `InitInstallsAll` | as long as nothing went wrong, incremental updates leave exactly the routes of the tables and deletion leaves none; after a failed batch, a lost `LinkDel`, a jump in time or an init without emulator, `init_routing()` installs every route again |

Two ways in which the code loses the kernel, both behind the premise "nothing
went wrong" (`faults = 0`) of `KernelFollowsTables`: a lost `LinkDel` leaves a
route that no update deletes, because the deletion is skipped when the interface
is gone from the node; and `move_to_time()` rebuilds the tables for a graph whose
new links have no interface yet (`static_daemon.py:461`, called from
`simulation_loop.py:137`), raises, and leaves them half rewritten.

Bounds. Three nodes are the smallest graph with two paths to a destination,
hence with a change of next hop, a loss of all paths and a detour; the tables
of two nodes interact through the graph only. Two destinations, because the
signature is that of a whole table. One event that goes wrong: the next
`init_routing()` clears what it left. No liveness: each call of the daemon is
one run to completion, and nothing calls it by itself.

Proofs (`StaticRoutesProofs`), for any network, destinations and number of
faults: `StaticTypesCorrect`, `KernelCorrect` and `InitRepairs`. The inductive
invariant is `TypeInv`, `CleanInv` and `FreshInv`. `CleanInv` says, without
faults, that between calls the kernel, the tables and the signatures are one and
route in the graph of the simulation (`IsRouting`: each next hop is a
neighbour), and within a call how far the kernel is behind (`Behind`): it has the
previous routes except those the kernel purged with their device. From there an
`Apply` that sends the differences, and skips deletions of purged routes, ends at
the new table. `InitRepairs` needs `FreshInv`, that an init compares with empty
tables, and no premise on faults. `NoSigAssumption` says that no table is taken
for the absent signature.

## 6. FlowScheduler

Flows, the scheduler with its pool, and the user's thread, which starts flows
and stops them, one by one or by `stop_gonetem()`. A flow is a thread with one
command; any command may hang. `pkill` hits every command of the tool on the
nodes of the flow (`Hosts`), those of other flows included.

| Variable | Code |
|---|---|
| `st`, `thread`, `killed` | `_status` and the thread of a `PingFlow`, `Hping3Flow` or `Iperf3Flow`; was its command killed |
| `sched`, `submitted`, `queue` | `_status` of the scheduler, its progress in the sorted flows, the queue of the executor |
| `joining`, `started`, `outcome` | flows whose workers wait in `_execute_flow`; flows that workers started; outcome of each future |
| `results`, `errors` | flows whose result was taken, flows with an entry in `errors()` |
| `up`, `active` | the containers run; `_active_flows` of the manager |
| `call`, `toStop`, `victim` | `stop()` or `stop_gonetem()` in progress, the flows it has yet to stop, the flow it joins |

| Action | Code |
|---|---|
| `Execute`, `CommandEnds` | `_run` of a flow |
| `Run`, `Submit`, `Collect`, `Finish` | `run()`, and `_run` of the scheduler |
| `PickUp`, `Joined`, `TimeOut` | `_execute_flow` in a worker |
| `StartFlow`, `Ping`, `StopFlow`, `StartGonetem`, `StopGonetem` | calls of the user |
| `StopNext`, `StopJoined`, `StopReturns` | the loop over the flows to stop, and the teardown |

| Run | Checks | Shows |
|---|---|---|
| `flows_pass` | `TypeOK`, `EachFlowAccounted`, `RunsOnce`, `CallsEnd` | a flow runs once, whoever starts it, and is accounted for once; scheduler and stops end although commands hang |

Fairness (`FairSpec`): weak fairness on the workers, on the scheduler's thread
and on the steps of a stop: none of them waits without a bound, except for a
worker (the default `flow_timeout_sec` bounds the joins). None on the flows:
a command that hangs is a flow that never takes its step.

Bounds. Two flows and one worker make one wait for the other; a third flow is
the user's, and shares a node with the first, so that its stop kills a
command of the scheduler. One flow is an iperf3 flow. Left out: delays have no
length; `save_results=False` only drops a result; `FlowSchedulerStatus.ERROR`
needs an executor that cannot start threads.

Limits met while modelling: a flow that timed out goes on beside the next one, so
more than `max_workers` commands run (`flow_scheduler.py:107`, against the docstring
at line 125); `stop_gonetem()` knows the flows of `_active_flows` only
(`network_lifecycle.py:98`), others run into the teardown; an iperf3 flow without
containers stays RUNNING (`iperf3_utils.py:922`). `CallsEnd` assumes that a flow
timeout is configured: with `flow_timeout_sec=None` the scheduler waits for ever.

Proofs (`FlowProofs`), for any flows, schedule and pool:
`FlowTypesCorrect`, `FlowsRunOnce` and `FlowsAccounted`. `RunsOnce` follows from
`ThreadInv` (a flow with a thread is no longer IDLE, which is what `start()`
tests). `EachFlowAccounted` needs `QueueInv`, that the queue is the last part of
what was submitted and none of it was started, and `AccountInv`, which ties
results and errors to the futures and the futures to the flows; a flow is taken
from `joining` once, so its outcome is written once. `CallsEnd` is model-checked
only (liveness).

## 7. SrMpls

Source routing with node labels: a source pushes the labels of the nodes after
the first hop, a satellite pops the label of its neighbour and forwards. A label
is the node it names, a command line of the daemon a record of FEC, pushed
labels and neighbour. Three stages per pass, one batch per node, and only lines
that were not in the batch before are sent.

| Variable | Code |
|---|---|
| `graph`, `status`, `initiated` | simulation graph with the interfaces of its links; emulator; `routing_initiated` |
| `manager`, `custom` | the label manager, its custom paths |
| `lfib`, `prev` | `sr_lfib`; the three `_prev_sr_*` dictionaries |
| `kern`, `input` | routes and label rules in the kernels; interfaces with MPLS input |
| `seen`, `taken` | locals of a pass: custom paths it met while it computes; lines it took for the stations, the new ones, and the stations whose batch went through |
| `call` | locals of the user's call for a custom path: its source and entries |
| `pc`, `missed`, `faults`, `steady`, `astray`, `raced` | stage; nodes whose batch failed; failures so far; history that the properties refer to |

| Action | Code |
|---|---|
| `InitRouting`, `DeleteRouting` | `init`, `remove` |
| `Pass`, `Rebuild` | `update` with the synchronisation before it, up to `_build_sr_gs_routes`, and its result |
| `ApplyNodeSids`, `ApplySatellites` | the stages of the satellites, their differences and batches |
| `TakeRoutes`, `SendStations`, `RememberStations` | `install_gs_routes` of the stations, in the steps a call can come between: entries and earlier lines are read, the command is sent, its lines are remembered |
| `SetCustomPath`, `ClearCustomPath` | the calls up to the entries they compute |
| `StoreEntries`, `SendLines`, `RememberLines` | the rest of `_update_sr_route_for_source` |

Nothing locks a call against a pass, so the actions of the two interleave at
every point where one reads or writes what the other does. A pass that took its
lines before a call, and sends and remembers them after it, puts the shortest
path over the custom one: the next pass finds the custom path in its entries,
but if the call remembered its line last, it is not sent again, and the custom path
is lost for good although nothing failed. The same happens to a call whose
entries a pass overwrites with those it computed before. The history `raced`
names the sources whose call overlapped with the computing or the installing of a
pass; `CustomPathsDeliver` has `Known`, its absence, as a premise (TLC finds the
loss within seconds when the premise is dropped), and a later call for the source
that meets no pass ends it, since it computes, sends and remembers everything.

`srmpls_pass` checks `TypeOK`, `SteadyPathsDeliver` and `CustomPathsDeliver`: a
packet is sent through the kernels, label by label (`Way`), and takes exactly
the path the daemon computed or the user set. Bounds: four nodes with two
graphs that differ in a link and in weights, so that paths over one, two and
three hops replace one another; one addressable satellite; one custom path,
which needs the link that one graph lacks; one failing batch, which may have
done nothing or everything. The stations of a pass move through the
steps of their stage together; the threads of the code differ in that one may
have sent when another has only read, which no other station sees.

Premises, each a behaviour of the code: links that were not up at the last
`init()` have no MPLS input, and only those of `steady` are promised; paths
through a ground station have no rules; routes of an addressable satellite to a
ground station share their FEC with the direct route of stage 1; a batch that
did its work and raises (`astray`) leaves the daemon with wrong memories until
the next init, or until a call for that source; a call that met a pass (`raced`);
lines of a flapping link are not sent again
(`srmpls_daemon.py:911`, against the docstring at line 757) unless the kernel
still has them: the label rule of a link that comes back is missing until its
line changes, which is why `steady` asks for links that stayed up.

Simplified: the user makes one call at a time, and does not call `init`, `remove`,
`start_gonetem` or `stop_gonetem` during one or during a pass. A call that
appends to a list of entries which a pass is filling leaves two entries for a
destination, of which the kernel keeps the later; the model keeps either, and
promises nothing there. The daemon's rebuild in `move_to_time` is left out.

### Proofs (`SrMplsProofs`)

For any satellites and stations, graphs with any weights, custom paths and
number of failing batches: `SrMplsTypeCorrect`, `SteadyPathsCorrect` and
`CustomPathsCorrect`. Neither delivery property is inductive: what a packet meets
is spread over the kernels of its path, which three stages fill at different
times. The invariant has two layers.

| Part | Says |
|---|---|
| `Types`, `PathInv` | types; an entry of `lfib` is empty or a path over links of the pass, a custom path of its pair |
| `KernInv` | no kernel has two lines for a FEC, so a line that is sent replaces the one it should; lines and MPLS inputs use interfaces that are there |
| `InputInv`, `IdleInv` | a steady link has MPLS input at both ends; nothing is steady while the emulator is down |
| `LabelInv` | a label rule over a steady link is in the kernel when its line is remembered as sent, and after the label stage if the batch went through |
| `RouteInv` | the same for routes and the two route stages, unless the batch of their source worked and raised (`astray`) or a call for it met a pass (`raced`); while a command of a call or of the stage is sent and not remembered, the source may have either |
| `CustomInv` | the entry of a pair with a custom path is that path, also within a pass, unless its call met one |
| `MeetInv` | what a pass or a call holds in its locals is still true of the sources that are not `raced`: custom paths that a pass met, lines that it took or sent, entries of a call; and a call that a pass met is counted as such |

`DaemonKeepsBase` and the lemmas beside it prove the first two rows for every action,
`NextKeepsReach` the others. The last step is from rules to packets:
`RulesDeliver` shows that a packet arrives when the source has the route and
every node between has the rule for the next one. The way of a packet is a recursive
function, and what it computes would be an induction over the path; the proof
takes the first hop at which the function leaves the path (`LeastNumber`, from
the well-foundedness of the numbers) and shows that it does not.

## 8. Session

The loop thread and the lifecycle calls, step by step; a pass is one step.

| Variable | Code |
|---|---|
| `running`, `stopEvt`, `current`, `loop` | `running`, `_stop_evt`, `_sim_thread`; the stage of every loop thread |
| `pc`, `back`, `force` | where the user's call is |
| `links`, `active`, `fresh`, `drift` | links of the topology; those `start_gonetem` read; its launcher's project; links changed since |
| `status`, `isOn`, `launcher`, `client` | `status`, `gonetem_is_on`, the launcher and whether it has a client |
| `opened`, `open`, `cont`, `wires`, `orphans` | projects of the server, containers, wires; projects whose opening or closing failed |

| Action | Code |
|---|---|
| `Loop*` | `_loop`: check, pass (which may raise), wait, `finally` |
| `Start*`, `Stop`, `StopUnset`, `StopJoin` | `start()`, `stop()` with its join |
| `NextStep` | `next_step()`, `simulate_link_failure()` |
| `StartGonetem`, `OpenProject`, `TopologyRun`, `Attach`, `CleanupFailedStart` | `start_gonetem()`, each step of which may fail |
| `StopGonetem`, `ForceStopGonetem`, `Teardown`, `CloseProject` | the two teardowns and `close_project` |

`session_pass` checks `TypeOK`, `OneLoop`, `QuietTeardown`, `NoProjectLost`,
`WiresFollowLinks` and `StopReturns`. Bounds: two loop threads are enough for a
second one to run beside the first; two links, one of which may change while the other
stays; two projects, an old and a new one; one failing step. Fairness: weak, on
the steps of a call in progress and on the steps of a loop. A pass ends, because
RPCs and commands have timeouts or fail; that the user makes another call is not
assumed.

Premises: links that a pass changes while `start_gonetem()` runs (`drift`) do
not have their wire until they change again, because the pass sees an emulator
that is off. `force_stop_gonetem()` does not stop the loop, and `QuietTeardown`
excludes it. A close that raises drops the client before the flags are reset
(`network_lifecycle.py:138`): a later `stop_gonetem()` returns early, and the
project stays on the server (`orphans`).

Proofs (`SessionProofs`), for any number of threads, links, projects and
failures: `SessionTypeCorrect`, `OneLoopCorrect`, `QuietTeardownCorrect`,
`ProjectsAccounted` and `WiresFollow`. `LoopInv` is `OneLoop` with what each
step of `start()` and `stop()` knows about the loops: the heart is that while a
call is in `clear`, `run` or `spawn` no loop is alive, because `start()` returns
early when the flag is up and the flag is down only after the thread has ended
or its event is set and joined. `ProjectInv` and `WireInv` do the same for the
steps of `start_gonetem()`. `StopReturns` is model-checked only.

## 9. Bird and AddressPlan

`AddressPlan` has the address formula of `ip_utils.py` digit by digit, for any
number `Ids` of identifiers (2^13 in the code). `Bird` has the two daemons under
the routing manager; a configuration is the set of links it has a block for.

| Variable | Code |
|---|---|
| `on`, `links`, `bare` | emulator; active links; those whose interfaces were built while it was off |
| `addr`, `mpls` | devices with address, with MPLS input |
| `conf`, `file` | the configuration Bird runs with; the one `init_routing()` has written and not started |
| `initiated`, `busy`, `errors`, `todo` | `routing_initiated`; `init_routing()` in progress, and the nodes before it and before an update |
| `gaps`, `faults` | ends of links that no call has answered for yet; failures so far |

| Action | Code |
|---|---|
| `InitRouting`, `InitNode`, `ApplyConfig`, `InitReturns` | `init_routing()` and the jobs of its pool |
| `Pass`, `UpdateNode` | a pass, and the update of the nodes of its new links |
| `DeleteRouting`, `StartGonetem`, `StopGonetem` | as named |

`bird_pass` checks `TypeOK`, `AdjacenciesConfigured` and `AddressesDistinct` on
two satellites and a station in a line: the satellite in the middle has two
links that come and go one without the other, which is where an update of the
nodes of new links only could lose one. Identifiers are 0, 1 and 3 of four: the
lowest, the highest and one between. One failing command.

Premises: links that come up before `init_routing()` returns are passed over by
the updates (`routing_initiated` is set at its end) until their node has another
new link (`gaps`); a node whose configuration failed stays as it is. A link that
comes up while the emulator is off (`bare`: `next_step()` before
`start_gonetem()`) gets no `ipv4` (`interface_mgr.py:99`), and
`set_ip_addresses()`, `_assign_ips` and every later pass skip such an interface:
Bird has a block for it and no address to form the adjacency with. So
`AdjacenciesConfigured` promises the block and the MPLS input of such a link and
not its address, and the link stays without one until it goes (section 13).

Proofs (`BirdProofs`), for any network and any `Ids`: `BirdTypesCorrect`,
`AddressesCorrect` and `AdjacenciesCorrect`. The addresses are distinct because
two numbers in a mixed radix with digits in range are equal only when their
digits are (`Digits`, `FieldsDiffer`); so owner, node, loopback bit and peer
differ or are the same, and the last bit tells the two ends apart. The
controller addresses share their first bits with those of user terminals only,
which have no part in `Bird`. `AdjacenciesConfigured` needs `WorkInv`
(between two inits no node is half way; updates need containers) and
`ServedInv`: an end that routing answers for is ready and configured unless its
node still waits for a worker or its configuration is about to be started.

## 10. Iperf3

One flow of `FlowScheduler` in detail: `StartServer`, `StartClient`, `Read` and
`Fail` are the steps of `Iperf3Flow._run` and `run_iperf3_flow`; `Bind`,
`Connect`, `Refused`, `SessionEnds` and `ServerExits` what the iperf3 processes
do, which are external; `Stop` and `StopDestination` are `stop()`, which sends a
`pkill` to the source and then one to the destination, detached, so that anything
may happen between the two (`Pkill` is what one does). The variables are the stage,
the two processes and the two files of each flow, and its result.

`iperf3_pass` checks `IperfTypeOK`, `OwnResults` and `StopEndsFlow`: a flow that is DONE
has the results of its own session from the end that measures it, and `stop()`
ends a flow whose client hangs and leaves no server behind. Bounds: two flows,
from two nodes to one, on the same port or not; more flows only repeat the
collisions of two. `Choices` gives each flow its configurations of protocol,
direction and call: all for the second flow (those in which a blocking flow has a
direction are left out, because nothing looks at it), and the first port without
blocking or bidirectional tests for the first, because the flows are alike.
Fairness: the thread of a flow runs on, a server exits when its session is
over, and the second `pkill` of a `stop()` is sent. A client may wait for ever.

Premises: flows that met another flow's server on their port, or whose server
was killed between the end of its session and its exit (`disturbed`), may report
another session or an error object: the code tests only that the file begins
with a brace. A flow of `run_iperf3_flow()` reads by protocol alone and takes the
wrong end for reverse tests. A `stop()` during the start delay kills nothing and
the flow runs afterwards. CHECK_DEADLOCK is off: both flows end, and nothing
follows.

Proofs (`FlowProofs`), for any flows, nodes, ports and configurations:
`IperfTypesCorrect` and `OwnResultsCorrect`. `OwnResults` speaks of the step that
reads a file; that the file holds the right session is the end of a chain that
`IperfInv` follows: a flow has its processes and files in the order of its stages
(`OrderInv`); a busy server has one client and a session one server
(`SessionInv`); of two flows on one port, the one that starts its server later
finds the other there or being set up, and both are disturbed (`MetInv`); so an
undisturbed flow has its session with its own server, whose file holds it or is
not yet written (`OwnInv`). `PkillFacts` says once what a `pkill` on a node does to
the processes of all flows. `StopEndsFlow` is model-checked only (liveness).

## 11. ConnectionStrategies

Kept satellites, free slots and the sorted list of the longest-connection
strategy and of the weighted one (`Kept`, `Slots`, `Ordered`, `Choice`), and the
solution of the quadratic behind the estimate (`Estimate`), rounded up. `Move` is a
time step of the simulation manager; then each station gets its links in turn
(`Connect`), or the sort raises and the others keep theirs (`Raise`).

| Run | Checks | Shows |
|---|---|---|
| `strategies_pass` | `TypeOK`, `LinkedToVisible`, `BestOfTheRest` | both strategies, from any offset between the stations: a station keeps what it sees and gets the best of the rest |
| `strategies_rising` (violation) | `NeverStranded` | a rising satellite with no estimate makes the sort raise, and a station that sees two satellites has no link |

Bounds: three satellites and two stations, two links per station: a kept
satellite, a new one and one that is left, with a load that the other station
changes. The samples of `MCPass` cover the cases of the quadratic: two roots in
the past, one on either side, two ahead, none, and no square term. The geometry
behind them is floating point. A kept satellite may take a second slot, because
the free slots are filled from the list of all visible satellites
(`custom_connection_strategies.py:299`); the properties speak of the set of
satellites.

Proofs (`ConnectionStrategiesProofs`), for any stations, any finite set of
satellites, any samples and link limits: `StrategiesTypeCorrect`,
`StationsLinked` and `BestOfTheRestCorrect`. `Choice` goes through the orderings
of a set, which are bijections from its size (`OrderingOfSet`), so that nothing has to
be proved by induction; `ChoiceFacts` says what a choice has and leaves out.
`LinkedToVisible` speaks of the end of an update; `ServedInv` of the stations served
so far, for what they see does not move while the others are served.
`EstimateInSight` is about the quadratic: for all coefficients, an estimate is
within the limit and the satellite does not set before.

## 12. ProjectFiles

Managers built from data files or by a program, `to_file()`, which reads the data
files again and embeds them, and `from_file()`, which writes them below
`/tmp/<stem>_ground_files` and loads the simulation from there. `WriteFile` and
`RemoveFile` are the user's edits in between.

`projects_pass` checks `TypeOK`, `LoadRestores` and `LoadedFilesKept`: the load of a
project gives what was saved, and the restored files hold what their manager shows
until a project file of the same stem is loaded, or are gone: `RemoveFile` may take
any data file, as a user or a cleaner of `/tmp` does. Bounds: two managers and two
project files of different stems, three data files of which two have one basename,
two contents, three groups (two may share a file with another between them), and six
calls other than `from_file()` (`MaxCalls`: build, edit, save, edit, build and save
again, with loads in between); CHECK_DEADLOCK is off because the calls are bounded.

What a program filled in (kind "runtime") is saved and never comes back:
`to_file()` writes the dates in ISO format (`topology_satcom.py:220`), and
`from_file()` first builds an empty project, whose dates must be
`dd/mm/yyyy hh:mm:ss` (`project_builder.py:730`). It raises `ValueError` before it
looks at a node, and `LoadRuntime` changes nothing. Nodes and links of a program
therefore have no representation in the module, and no property speaks of them:
`docs/custom_project.md:515-540`, which shows how to save such a topology and load it
again, describes what the code does not do.

Premises: two groups with one basename in different directories are restored
over one another, so that `LoadRestores` asks for `Distinct` basenames
(`LoadedFilesKept` holds without: both groups show the one that is written last, of
the paths in the order in which the groups first name them); a manager whose files
another project overwrote before it was saved embeds those (`intact`); project files
with one stem share the directory of restored files (`latest`). Nobody edits a
restored file.

Proofs (`ProjectFilesProofs`), for any files, stems, numbers of groups and calls:
`ProjectFilesTypeCorrect`, `FilesKept` and `LoadsRestore`. `LoadedFilesKept` is
inductive once `Types` says which records a manager and a project file can be, among
them that the stations of a manager are as many as its paths and that an intact
project file embeds what its manager showed. A load writes the paths one after the
other, so what a file holds is the content of the last path written to it.
`GreatestNumber` names the path that `WrittenBack` takes and `LeastNumber` the group
that first named it, and `WrittenBackFacts` and `LoadOutcome` say what the load leaves
on disk.

## 13. Findings

`strategies_rising` ends with a counterexample, and quotes the docstring it
disagrees with (`findings` in PROJECT.json). Other disagreements between code and
documents that the models met have no run of their own:

* `docs/custom_project.md:515-540` loads a topology that a program built and saved;
  `from_file()` raises `ValueError` for each (section 12).
* The docstring of `set_ip_addresses()` (`network_lifecycle.py:182`) says that it
  assigns the addresses of all interfaces; an interface that was built while the
  emulator was off has no address to assign (`interface_mgr.py:99`,
  `node.py:320-323`, section 9).
* The Quick Start of the repository's README (line 123) sets the addresses before the
  emulator starts, which gives the wires none.

The rest is told with the module it belongs to, as limits and premises.

## 14. Assumptions of the proofs

The theorems hold for every value of the constants that satisfies the `ASSUME`s
of the module: bounds are natural numbers, "no value" constants (`None`, `Unwired`,
`NoSig`) differ from the values, links join two different nodes, in one direction,
identifiers fit in their field, the links of `HilHandover` and the satellites of
`ConnectionStrategies` are finitely many, and the pool has a worker. TLC evaluates them in every run. They assume nothing about fairness: all of them are safety properties.
The proofs use the same definitions that TLC checks; only `InterfacesCorrect` and `BridgedCorrect`
have premises of their own, those of their run.

Every safety property of a passing run is the property of a theorem. Only
model-checked are the liveness properties, because TLAPS proves nothing about
fairness and ENABLED: `Converges`, `FaultsHeal`, `HandoverSettles`, `CallsEnd`,
`StopReturns` and `StopEndsFlow`; and `NeverStranded`, which the code violates.
Three results rest on well-foundedness of the natural numbers instead of induction
(`RulesDeliver`, `EstimateInSight`, `WrittenBackFacts`), because the provers cannot instantiate an
induction theorem.

## 15. Not modelled

* P4 controller and shared graph: at this commit `build_edge_from_link()`
  converts names such as `Sat1` with `int()` and raises before it writes, and the
  reader is outside the repository.
* Link budget, coverage, orbit propagation (`satcom_fix.py`) and the grid and mesh
  geometry of `project_builder.py`: floating point without state of their own.
  Read while modelling: the mesh sorts planes by average RAAN, which misplaces a
  plane that straddles 0 degrees (`project_builder.py:574`).
* Diagnostics, controller veth, terminals: shell commands and their output.
* Parsing of tool output, result files and plots, exports of tables;
  `iperf2_utils.py` and `estimate_time_until_disconnection()` have no caller.
* Generated gRPC stubs.

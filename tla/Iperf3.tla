------------------------------- MODULE Iperf3 -------------------------------
(***************************************************************************)
(* One iperf3 flow in detail: Iperf3Flow, and the blocking                 *)
(* run_iperf3_flow().  A flow starts a one-shot server in the destination's *)
(* container, half a second later a client in the source's container, and  *)
(* reads the JSON file of one of them when the client has exited.          *)
(*                                                                         *)
(* The processes are iperf3's and outside src/: a server that finds its    *)
(* port taken writes an error object and exits, a client that finds no     *)
(* server, a busy one or no route exits with an error, a server writes its *)
(* file when its one session is over.  Sleeps give no order: a server may  *)
(* bind after its client gave up, or write its file after it was read.     *)
(***************************************************************************)
EXTENDS Flows, Naturals, FiniteSets

CONSTANTS
  Src, Dst,  \* the nodes of a flow
  Port,      \* the ports that a configuration may name
  Choices,   \* bound: the configurations among which each flow has its own
  Nothing    \* no file, or an empty one

Sides == {"client", "server"}

ASSUME NothingAssumption ==
  Nothing \notin Flow \cup {"error"} \cup ((Flow \cup {"error"}) \X Sides)
ASSUME ErrorAssumption == "error" \notin Flow

\* blocking: made by run_iperf3_flow(), which has no delay and no stop().  iperf3
\* refuses a test that is reverse and bidirectional.
Config ==
  {c \in [udp : BOOLEAN, reverse : BOOLEAN, bidir : BOOLEAN, port : Port, blocking : BOOLEAN] :
     ~(c.reverse /\ c.bidir)}

VARIABLES
  config,   \* Iperf3Config of each flow
  stage,    \* what the thread of the flow does
  server,   \* the server process of each flow
  client,   \* its client process
  serves,   \* the flow whose client the server of a flow has a session with
  file,     \* the JSON file of each process: error, or the session measured
  result,   \* _result: the session, and the end that measured it
  stopping, \* flows in stop(), between the two commands
  hit,      \* flows stopped while their client ran
  disturbed \* flows that met another flow's process on their port, or whose server
            \* was killed between the end of its session and its exit
iperfVars == <<config, stage, server, client, serves, file, result, stopping, hit, disturbed>>

IperfTypeOK ==
  /\ config \in [Flow -> Config]
  /\ stage \in [Flow -> {"idle", "delay", "server", "client", "done", "error"}]
  /\ server \in [Flow -> {"none", "starting", "waiting", "busy", "closing", "gone"}]
  /\ client \in [Flow -> {"none", "connecting", "session", "failed", "ended"}]
  /\ serves \in [Flow -> Flow \cup {Nothing}]
  /\ file \in [Sides -> [Flow -> Flow \cup {Nothing, "error"}]]
  /\ stopping \subseteq Flow
  /\ result \in [Flow -> {Nothing} \cup ((Flow \cup {"error"}) \X Sides)]
  /\ \A f \in Flow :
       /\ server[f] = "busy" => client[serves[f]] = "session"
       /\ (result[f] = Nothing) = (stage[f] # "done")
  /\ \A f \in Flow : client[f] = "session" =>
       Cardinality({g \in Flow : server[g] = "busy" /\ serves[g] = f}) = 1

IperfInit ==
  /\ config \in [Flow -> Config] /\ \A f \in Flow : config[f] \in Choices[f]
  /\ stage = [f \in Flow |-> "idle"]
  /\ server = [f \in Flow |-> "none"] /\ client = [f \in Flow |-> "none"]
  /\ serves = [f \in Flow |-> Nothing]
  /\ file = [e \in Sides |-> [f \in Flow |-> Nothing]]
  /\ result = [f \in Flow |-> Nothing]
  /\ stopping = {} /\ hit = {} /\ disturbed = {}

Socket(f) == <<Dst[f], config[f].port>>
Ended(f) == stage[f] \in {"done", "error"}
-----------------------------------------------------------------------------
(* The thread of a flow. *)

\* start(): once; run_iperf3_flow() has no delay, but its first step is the same.
StartIperf3(f) ==
  /\ stage[f] = "idle"
  /\ stage' = [stage EXCEPT ![f] = "delay"]
  /\ UNCHANGED <<config, stopping, server, client, serves, file, result, hit, disturbed>>

\* Flows with a process on the port of f, or about to have one.
OnPortOf(f) ==
  {g \in Flow \ {f} : /\ Socket(g) = Socket(f)
                      /\ \/ server[g] \in {"starting", "waiting", "busy", "closing"}
                         \/ stage[g] \in {"server", "client"}}

\* The server is started, detached.
StartServer(f) ==
  /\ stage[f] = "delay"
  /\ stage' = [stage EXCEPT ![f] = "server"]
  /\ server' = [server EXCEPT ![f] = "starting"]
  /\ disturbed' = disturbed \cup OnPortOf(f) \cup {g \in {f} : OnPortOf(f) # {}}
  /\ UNCHANGED <<config, stopping, client, serves, file, result, hit>>

\* Half a second later, the client; the thread waits for it to exit.
StartClient(f) ==
  /\ stage[f] = "server"
  /\ stage' = [stage EXCEPT ![f] = "client"]
  /\ client' = [client EXCEPT ![f] = "connecting"]
  /\ UNCHANGED <<config, stopping, server, serves, file, result, hit, disturbed>>

Other(e) == IF e = "client" THEN "server" ELSE "client"

\* _json_side(): where the file is looked for first; run_iperf3_flow() goes by
\* the protocol alone.
PreferredEnd_NotReversed(f) == IF config[f].udp THEN "server" ELSE "client"
PreferredEnd(f) ==
  IF config[f].blocking THEN IF config[f].udp THEN "server" ELSE "client"
  ELSE IF config[f].bidir THEN "client"
  ELSE IF config[f].udp = config[f].reverse THEN "client" ELSE "server"

\* An error object begins with a brace like any result; an empty file does not.
IsJson_Always(contents) == TRUE
IsJson(contents) == contents # Nothing

EndRead(f) ==
  IF IsJson(file[PreferredEnd(f)][f]) THEN PreferredEnd(f) ELSE Other(PreferredEnd(f))

\* The client exited with 0: one file is read, both are removed, and without JSON
\* the flow ends with an error.
Read(f) ==
  /\ stage[f] = "client" /\ client[f] = "ended"
  /\ LET read == file[EndRead(f)][f] IN
       IF IsJson(read)
         THEN /\ stage' = [stage EXCEPT ![f] = "done"]
              /\ result' = [result EXCEPT ![f] = <<read, EndRead(f)>>]
         ELSE stage' = [stage EXCEPT ![f] = "error"] /\ UNCHANGED result
  /\ UNCHANGED <<config, stopping, server, client, serves, file, hit, disturbed>>

\* execute_command() raises: the files are removed, and nothing else is done.
Fail(f) ==
  /\ stage[f] = "client" /\ client[f] = "failed"
  /\ stage' = [stage EXCEPT ![f] = "error"]
  /\ UNCHANGED <<config, stopping, server, client, serves, file, result, hit, disturbed>>
-----------------------------------------------------------------------------
(* The processes in the containers. *)

Bind(f) ==
  /\ server[f] = "starting"
  /\ IF \E g \in Flow \ {f} : Socket(g) = Socket(f) /\ server[g] \in {"waiting", "busy"}
       THEN /\ server' = [server EXCEPT ![f] = "gone"]
            /\ file' = [file EXCEPT !["server"][f] = "error"]
       ELSE server' = [server EXCEPT ![f] = "waiting"] /\ UNCHANGED file
  /\ UNCHANGED <<config, stopping, stage, client, serves, result, hit, disturbed>>

\* The server on the port may be that of another flow.
Connect(f) ==
  /\ client[f] = "connecting"
  /\ \E g \in Flow :
       /\ server[g] = "waiting" /\ Socket(g) = Socket(f)
       /\ server' = [server EXCEPT ![g] = "busy"]
       /\ serves' = [serves EXCEPT ![g] = f]
  /\ client' = [client EXCEPT ![f] = "session"]
  /\ UNCHANGED <<config, stopping, stage, file, result, hit, disturbed>>

\* No server yet, a busy server, or no route.
Refused(f) ==
  /\ client[f] = "connecting"
  /\ client' = [client EXCEPT ![f] = "failed"]
  /\ file' = [file EXCEPT !["client"][f] = "error"]
  /\ UNCHANGED <<config, stopping, stage, server, serves, result, hit, disturbed>>

\* The test ends, or the connection is lost.
SessionEnds(g) ==
  /\ server[g] = "busy"
  /\ \E outcome \in {"ended", "failed"} :
       /\ client' = [client EXCEPT ![serves[g]] = outcome]
       /\ file' = [file EXCEPT !["client"][serves[g]] =
                     IF outcome = "ended" THEN serves[g] ELSE "error"]
  /\ server' = [server EXCEPT ![g] = "closing"]
  /\ UNCHANGED <<config, stopping, stage, serves, result, hit, disturbed>>

ServerExits(g) ==
  /\ server[g] = "closing"
  /\ server' = [server EXCEPT ![g] = "gone"]
  /\ file' = [file EXCEPT !["server"][g] = serves[g]]
  /\ UNCHANGED <<config, stopping, stage, client, serves, result, hit, disturbed>>
-----------------------------------------------------------------------------
(* stop() *)

\* pkill ends every iperf3 process of a node, whose flow it is; what was at the other
\* end of a session gives up.  Nothing of a flow that still sleeps is there to be
\* killed: it runs after the stop.
Pkill(n) ==
  LET killedClients == {c \in Flow : Src[c] = n /\ client[c] \in {"connecting", "session"}}
      killedServers == {g \in Flow : /\ Dst[g] = n
                                     /\ server[g] \in {"starting", "waiting", "busy", "closing"}}
      lost == {serves[g] : g \in {g \in killedServers : server[g] = "busy"}}
      left == {g \in Flow \ killedServers : server[g] = "busy" /\ serves[g] \in killedClients}
  IN /\ client' = [c \in Flow |-> IF c \in killedClients \cup lost THEN "failed" ELSE client[c]]
     /\ server' = [g \in Flow |-> IF g \in killedServers THEN "gone"
                                  ELSE IF g \in left THEN "closing" ELSE server[g]]
     /\ file' = [e \in Sides |-> [g \in Flow |->
                   IF g \in (IF e = "client" THEN killedClients \cup lost ELSE killedServers)
                     THEN "error" ELSE file[e][g]]]
     /\ disturbed' = disturbed \cup {g \in killedServers : server[g] = "closing"}
     /\ UNCHANGED <<config, stage, serves, result>>

\* First at the source.
Stop(f) ==
  /\ ~config[f].blocking /\ stage[f] \in {"delay", "server", "client"} /\ f \notin stopping
  /\ Pkill(Src[f])
  /\ stopping' = stopping \cup {f}
  /\ hit' = IF stage[f] = "client" THEN hit \cup {f} ELSE hit

\* Mutant: the second command goes to the source as well.
SecondNode_Source(f) == Src[f]
SecondNode(f) == Dst[f]

StopDestination(f) ==
  /\ f \in stopping /\ stopping' = stopping \ {f}
  /\ Pkill(SecondNode(f))
  /\ UNCHANGED hit
-----------------------------------------------------------------------------
ThreadStep(f) == StartServer(f) \/ StartClient(f) \/ Read(f) \/ Fail(f)
ProcessStep(f) == Bind(f) \/ Connect(f) \/ Refused(f) \/ SessionEnds(f) \/ ServerExits(f)

IperfNext == \E f \in Flow : StartIperf3(f) \/ ThreadStep(f) \/ ProcessStep(f)
                             \/ Stop(f) \/ StopDestination(f)

\* Threads run, and a server exits when its session is over.  A client may wait for
\* an answer, and a session may last, for ever.
IperfSpec ==
  /\ IperfInit /\ [][IperfNext]_iperfVars
  /\ \A f \in Flow : WF_iperfVars(ThreadStep(f)) /\ WF_iperfVars(ServerExits(f))
                    /\ WF_iperfVars(StopDestination(f))
-----------------------------------------------------------------------------
\* Where iperf3 measures best: loss and jitter at the receiver of a UDP test, the
\* sender's window and retransmissions for TCP, both directions at the client.
Sender(f) == IF config[f].reverse THEN "server" ELSE "client"
MeasuringEnd(f) ==
  IF config[f].bidir THEN "client"
  ELSE IF config[f].udp THEN Other(Sender(f)) ELSE Sender(f)

\* A flow that is DONE, and met no other flow's process on its port, has the results
\* of its own session, from the end that measures it unless that end had not written
\* its file yet: neither a failed server, nor a late one, nor another flow's stop()
\* that kills its processes during the session lets it report something else.
OwnResults ==
  [][\A f \in Flow :
       ~config[f].blocking /\ f \notin disturbed /\ stage[f] = "client" /\ stage'[f] = "done" =>
         \/ result'[f] = <<f, MeasuringEnd(f)>>
         \/ result'[f] = <<f, Other(MeasuringEnd(f))>> /\ file[MeasuringEnd(f)][f] = Nothing]_iperfVars

\* stop() ends a flow whose client runs, though it may wait for an answer that never
\* comes, and leaves no server of it on the port for the next flow to meet.
StopEndsFlow ==
  \A f \in Flow : f \in hit ~> Ended(f) /\ server[f] \notin {"starting", "waiting", "busy"}
=============================================================================

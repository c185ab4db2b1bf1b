----------------------------- MODULE ClusterInit ----------------------------
(***************************************************************************)
(* `ironkube init': the pipeline of validate, connect, bootstrap and       *)
(* kubeconfig (pkg/phases) over the SSH executor (pkg/ssh) and the hosts.  *)
(* The engine's part of every step is the action of Pipeline it is         *)
(* conjoined with; this module adds what the phases do.                    *)
(*                                                                         *)
(* A remote command fails when its connection is down or when it exits     *)
(* with an error, and may then have had its effect or not: RunOnHost       *)
(* cannot tell.  An install that exits with 0 may have installed nothing:  *)
(* the installer of k3s is piped into a shell, which does nothing when the *)
(* download fails.  Hosts keep their software between runs.                *)
(***************************************************************************)
EXTENDS Pipeline

CONSTANTS Hosts,     \* the hosts there are
          Configs,   \* configurations: the nodes of each, servers first
          MaxFaults  \* bound: failed commands and lost connections

NodeRoles == {"server", "agent"}

ASSUME ConfigsAssumption ==
  \A c \in Configs :
    /\ c \in Seq([role : NodeRoles, host : Hosts])
    /\ \A i, j \in DOMAIN c : c[i].role = "server" /\ c[j].role = "agent" => i < j
ASSUME FaultsAssumption == MaxFaults \in Nat
ASSUME InitPhasesAssumption ==
  /\ Phases = <<"validate", "connect", "bootstrap", "kubeconfig">>
  /\ Cleanable = {"connect", "bootstrap"}

VARIABLES
  sub,        \* where a phase or a cleanup is
  pos,        \* the node its loop is at
  executor,   \* "executor" is set in the pipeline's state
  clients,    \* the hosts that have an entry in the executor's map
  open,       \* how many connections to each host are open
  link,       \* the connection of the map's entry works
  software,   \* what is installed on each host
  ready,      \* the Ready nodes the API server of the first node shows
  faults,     \* failed commands and lost connections so far
  config,     \* the configuration of the run, or of the last one
  \* The others only observe.
  merged,     \* the kubeconfig has been merged in this run
  before,     \* software when the run started
  foundUp,    \* the run before it was a success
  touched,    \* the bootstrap phase was run in this run
  stuck       \* <<host, role>> whose uninstall failed on its host in this run

\* Groups of variables that many steps leave as they are.
setting  == <<executor, merged, before, foundUp, config, touched>>
sessions == <<clients, open, link>>
remote   == <<software, ready, faults>>
world == <<sub, pos, executor, clients, open, link, software, ready, faults, config,
           merged, before, foundUp, touched, stuck>>

vars == <<engine, world>>

Nodes == config

Init ==
  /\ EngineInit
  /\ sub = "begin"
  /\ pos = 1
  /\ executor = FALSE
  /\ clients = {}
  /\ open = [h \in Hosts |-> 0]
  /\ link = [h \in Hosts |-> FALSE]
  /\ software = [h \in Hosts |-> {}]
  /\ ready = {}
  /\ faults = 0
  /\ config \in Configs
  /\ merged = FALSE
  /\ before = software
  /\ foundUp = FALSE
  /\ touched = FALSE
  /\ stuck = {}

InPhase(name) == at = "run" /\ Phases[k] = name
Fault == faults < MaxFaults /\ faults' = faults + 1

\* The process starts: nothing is left in memory of the run before.
StartRun ==
  /\ Execute
  /\ sub' = "begin"
  /\ pos' = 1
  /\ executor' = FALSE
  /\ clients' = {}
  /\ open' = [h \in Hosts |-> 0]
  /\ link' = [h \in Hosts |-> FALSE]
  /\ ready' = {}
  /\ merged' = FALSE
  /\ config' \in Configs
  /\ before' = software
  /\ foundUp' = (outcome = "success")
  /\ touched' = FALSE
  /\ stuck' = {}
  /\ UNCHANGED <<software, faults>>

\* The steps of Execute that touch nothing else.
EngineOnly ==
  /\ \/ Cancel \/ CheckContext \/ PreHook \/ AfterPhase \/ Succeed \/ EndCleanups
  /\ UNCHANGED world

StartPhase ==
  /\ BeginPhase
  /\ sub' = "begin"
  /\ pos' = 1
  /\ UNCHANGED <<setting, sessions, remote, stuck>>

-----------------------------------------------------------------------------
(* validate and connect.                                                   *)

Servers == {i \in DOMAIN Nodes : Nodes[i].role = "server"}

\* config.Validate, as far as it is about the nodes: there is a control plane,
\* and one of several servers has an odd number of them.
ValidNodes ==
  /\ Servers # {}
  /\ Cardinality(Servers) > 1 => Cardinality(Servers) % 2 = 1

\* A name, a version or a network may be wrong besides.
Validate ==
  /\ InPhase("validate")
  /\ \E err \in BOOLEAN : (ValidNodes \/ err) /\ PhaseReturns(err)
  /\ UNCHANGED world

\* NewClient dials the host: one connection more is open to it.
NewClient(h) ==
  /\ open' = [open EXCEPT ![h] = @ + 1]
  /\ link' = [link EXCEPT ![h] = TRUE]

\* Executor.Connect: a host that is listed twice gets a second connection,
\* and the map keeps only the second.
ConnectNode ==
  /\ InPhase("connect")
  /\ pos <= Len(Nodes)
  /\ LET h == Nodes[pos].host IN
       /\ NewClient(h)
       /\ clients' = clients \cup {h}
  /\ pos' = pos + 1
  /\ UNCHANGED <<engine, sub, setting, remote, stuck>>

\* Executor.Close.
Close ==
  /\ open' = [h \in Hosts |-> IF h \in clients THEN open[h] - 1 ELSE open[h]]
  /\ clients' = {}
  /\ link' = [h \in Hosts |-> FALSE]

\* Mutant: the connections made so far are left open.
ConnectFailsWithoutClose ==
  /\ InPhase("connect")
  /\ pos <= Len(Nodes)
  /\ Fault
  /\ PhaseReturns(TRUE)
  /\ UNCHANGED <<sub, pos, setting, sessions, software, ready, stuck>>

ConnectFails ==
  /\ InPhase("connect")
  /\ pos <= Len(Nodes)
  /\ Fault
  /\ Close
  /\ PhaseReturns(TRUE)
  /\ UNCHANGED <<sub, pos, setting, software, ready, stuck>>

ConnectDone ==
  /\ InPhase("connect")
  /\ pos > Len(Nodes)
  /\ executor' = TRUE
  /\ PhaseReturns(FALSE)
  /\ UNCHANGED <<sub, pos, sessions, remote, merged, before, foundUp, config, touched, stuck>>

\* An open connection is lost.
LoseConnection(h) ==
  /\ link[h]
  /\ Fault
  /\ link' = [link EXCEPT ![h] = FALSE]
  /\ UNCHANGED <<engine, sub, pos, setting, clients, open, software, ready, stuck>>

-----------------------------------------------------------------------------
(* bootstrap.                                                              *)

\* RunOnHost can reach the host.
Reaches(h) == h \in clients /\ link[h]

\* Client.Run returns an error: no session can be opened, or the command fails.
CommandFails(h) == IF Reaches(h) THEN Fault ELSE UNCHANGED faults

\* What the server or agent script of the distribution puts on the host of a
\* node: one of the two services.
Install(n) == [software EXCEPT ![n.host] = @ \cup {n.role}]

\* What its uninstall command leaves: k3s has one for each service, the one of
\* kubeadm does not look at the role.
Uninstalled(n) == {[software EXCEPT ![n.host] = @ \ {n.role}], [software EXCEPT ![n.host] = {}]}

BeginBootstrap ==
  /\ InPhase("bootstrap")
  /\ sub = "begin"
  /\ sub' = "install"
  /\ pos' = 1
  /\ touched' = TRUE
  /\ UNCHANGED <<engine, executor, sessions, remote, merged, before, foundUp, config, stuck>>

\* The install or join command of the node at pos exits with 0; after the first
\* one comes waitForNode.
InstallNode ==
  /\ InPhase("bootstrap")
  /\ sub \in {"install", "join"}
  /\ pos <= Len(Nodes)
  /\ LET n == Nodes[pos] IN
       /\ Reaches(n.host)
       /\ software' \in {software, Install(n)}
  /\ pos' = pos + 1
  /\ sub' = IF sub = "install" THEN "waitFirst" ELSE "join"
  /\ UNCHANGED <<engine, setting, sessions, ready, faults, stuck>>

\* Mutant: Run returns the error without its own Cleanup.
InstallFailsWithoutRollback ==
  /\ InPhase("bootstrap")
  /\ sub \in {"install", "join"}
  /\ pos <= Len(Nodes)
  /\ Fault
  /\ software' \in {software, Install(Nodes[pos])}
  /\ PhaseReturns(TRUE)
  /\ UNCHANGED <<sub, pos, setting, sessions, ready, stuck>>

\* It fails, before or after it has installed the software; Run calls its own
\* Cleanup.
InstallFails ==
  /\ InPhase("bootstrap")
  /\ sub \in {"install", "join"}
  /\ pos <= Len(Nodes)
  /\ LET n == Nodes[pos] IN
       /\ CommandFails(n.host)
       /\ \/ UNCHANGED software
          \/ Reaches(n.host) /\ software' = Install(n)
  /\ sub' = "rollback"
  /\ pos' = 1
  /\ UNCHANGED <<engine, setting, sessions, ready, stuck>>

\* A node with the software installed is shown as Ready by the API server of
\* the first node, when that has one: a node that joined in this run, or one
\* that an earlier run left.
BecomesReady(h) ==
  /\ InPhase("bootstrap")
  /\ sub \in {"waitFirst", "join", "waitAll"}
  /\ "server" \in software[Nodes[1].host]
  /\ software[h] # {}
  /\ h \notin ready
  /\ ready' = ready \cup {h}
  /\ UNCHANGED <<engine, sub, pos, setting, sessions, software, faults, stuck>>

\* waitForNode sees a Ready node on the first host.
FirstNodeReady ==
  /\ InPhase("bootstrap")
  /\ sub = "waitFirst"
  /\ Reaches(Nodes[1].host)
  /\ ready # {}
  /\ sub' = "join"
  /\ UNCHANGED <<engine, pos, setting, sessions, remote, stuck>>

\* All nodes have joined; a single node has been waited for already.
JoinsDone ==
  /\ InPhase("bootstrap")
  /\ sub = "join"
  /\ pos > Len(Nodes)
  /\ IF Len(Nodes) > 1
       THEN sub' = "waitAll" /\ UNCHANGED engine
       ELSE PhaseReturns(FALSE) /\ UNCHANGED sub
  /\ UNCHANGED <<pos, setting, sessions, remote, stuck>>

\* Mutant: only the control-plane nodes are counted in expectedNodes.
AllNodesReadyServersOnly ==
  /\ InPhase("bootstrap")
  /\ sub = "waitAll"
  /\ Reaches(Nodes[1].host)
  /\ Cardinality(ready) >= Cardinality(Servers)
  /\ PhaseReturns(FALSE)
  /\ UNCHANGED world

\* waitForAllNodes sees as many Ready nodes as the configuration lists.
AllNodesReady ==
  /\ InPhase("bootstrap")
  /\ sub = "waitAll"
  /\ Reaches(Nodes[1].host)
  /\ Cardinality(ready) >= Len(Nodes)
  /\ PhaseReturns(FALSE)
  /\ UNCHANGED world

\* Mutant: without a deadline only the context ends the wait.
WaitEndsOnCancel ==
  /\ InPhase("bootstrap")
  /\ sub \in {"waitFirst", "waitAll"}
  /\ cancelled
  /\ sub' = "rollback"
  /\ pos' = 1
  /\ UNCHANGED <<engine, setting, sessions, remote, stuck>>

\* The deadline of a wait passes, or the context is done; Run calls Cleanup.
WaitEnds ==
  /\ InPhase("bootstrap")
  /\ sub \in {"waitFirst", "waitAll"}
  /\ sub' = "rollback"
  /\ pos' = 1
  /\ UNCHANGED <<engine, setting, sessions, remote, stuck>>

\* One uninstall command of BootstrapPhase.Cleanup, whose error is dropped.
UninstallNode ==
  /\ pos <= Len(Nodes)
  /\ LET n == Nodes[pos] IN
       /\ \/ /\ Reaches(n.host)
             /\ software' \in Uninstalled(n)
             /\ ready' = ready \ {n.host}
             /\ UNCHANGED <<faults, stuck>>
          \/ /\ Reaches(n.host)
             /\ Fault
             /\ software' \in {software} \cup Uninstalled(n)
             /\ ready' = IF software' = software THEN ready ELSE ready \ {n.host}
             /\ stuck' = stuck \cup {<<n.host, n.role>>}
          \/ /\ n.host \in clients
             /\ ~link[n.host]
             /\ stuck' = stuck \cup {<<n.host, n.role>>}
             /\ UNCHANGED remote
          \/ /\ n.host \notin clients
             /\ UNCHANGED <<remote, stuck>>
  /\ pos' = pos + 1
  /\ UNCHANGED <<engine, sub, setting, sessions>>

RollbackNode ==
  /\ InPhase("bootstrap")
  /\ sub = "rollback"
  /\ UninstallNode

RollbackDone ==
  /\ InPhase("bootstrap")
  /\ sub = "rollback"
  /\ pos > Len(Nodes)
  /\ PhaseReturns(TRUE)
  /\ UNCHANGED world

-----------------------------------------------------------------------------
(* kubeconfig, and the cleanups the pipeline calls.                        *)

FetchKubeconfig ==
  /\ InPhase("kubeconfig")
  /\ \/ /\ Reaches(Nodes[1].host)
        /\ merged' = TRUE
        /\ PhaseReturns(FALSE)
        /\ UNCHANGED faults
     \/ /\ CommandFails(Nodes[1].host)
        /\ PhaseReturns(TRUE)
        /\ UNCHANGED merged
  /\ UNCHANGED <<sub, pos, executor, sessions, software, ready, before, foundUp, config,
                 touched, stuck>>

CleaningUp(name) == at = "cleanup" /\ cleaning > 0 /\ Phases[cleaning] = name

\* validate has no cleanup, and kubeconfig is the last phase.
CleanupNothing ==
  /\ \E name \in {"validate", "kubeconfig"} : CleaningUp(name)
  /\ CleanupPhase
  /\ UNCHANGED world

\* ConnectPhase.Cleanup.
CleanupConnect ==
  /\ CleaningUp("connect")
  /\ CleanupPhase
  /\ IF executor THEN Close ELSE UNCHANGED sessions
  /\ UNCHANGED <<sub, pos, setting, remote, stuck>>

\* BootstrapPhase.Cleanup, called by the pipeline.
BeginCleanupBootstrap ==
  /\ CleaningUp("bootstrap")
  /\ sub # "cleanup"
  /\ sub' = "cleanup"
  /\ pos' = 1
  /\ UNCHANGED <<engine, setting, sessions, remote, stuck>>

CleanupBootstrapNode ==
  /\ CleaningUp("bootstrap")
  /\ sub = "cleanup"
  /\ executor
  /\ UninstallNode

EndCleanupBootstrap ==
  /\ CleaningUp("bootstrap")
  /\ sub = "cleanup"
  /\ executor => pos > Len(Nodes)
  /\ CleanupPhase
  /\ UNCHANGED world

\* What the program does by itself, or the remote commands answer.
Progress ==
  \/ EngineOnly /\ ~Cancel
  \/ StartPhase \/ Validate \/ ConnectNode \/ ConnectFails \/ ConnectDone
  \/ BeginBootstrap \/ InstallNode \/ InstallFails \/ FirstNodeReady \/ JoinsDone
  \/ AllNodesReady \/ WaitEnds \/ RollbackNode \/ RollbackDone
  \/ FetchKubeconfig \/ CleanupNothing \/ CleanupConnect
  \/ BeginCleanupBootstrap \/ CleanupBootstrapNode \/ EndCleanupBootstrap

Next ==
  \/ StartRun
  \/ EngineOnly
  \/ Progress
  \/ \E h \in Hosts : LoseConnection(h) \/ BecomesReady(h)

Spec == Init /\ [][Next]_vars

\* A remote command answers, or its connection breaks and it fails; the waits
\* have deadlines.
FairSpec == Spec /\ WF_vars(Progress)

-----------------------------------------------------------------------------
(* Properties.                                                             *)

Failed == at = "idle" /\ outcome \in Failures

\* A run that failed once the bootstrap phase had begun leaves software only
\* where an uninstall command reached for the host and failed: the uninstalls
\* come before the connections are closed, whoever calls them, and no node is
\* left out, the one whose install failed half way included.
NothingLeftBehind ==
  Failed /\ touched =>
    \A i \in DOMAIN Nodes :
      Nodes[i].role \in software[Nodes[i].host] => <<Nodes[i].host, Nodes[i].role>> \in stuck

\* A run that failed has closed every connection it opened.  A host that is
\* listed twice is the exception: its second connection replaces the first in
\* the executor's map, and nobody can close the first.
ConnectionsClosed ==
  Failed =>
    \A h \in Hosts :
      Cardinality({i \in DOMAIN Nodes : Nodes[i].host = h}) <= 1 => open[h] = 0

\* The roles the configuration gives a host.
Roles(h) == {Nodes[i].role : i \in {j \in DOMAIN Nodes : Nodes[j].host = h}}

\* init reports success only if the first node has its server, the control plane
\* can hold a quorum and the kubeconfig has been merged.  Where only hosts of the
\* configuration were set up before, it does so only with every node Ready, and
\* never for a configuration that lists a host twice, which passes Validate: it
\* is one Ready node, and two are waited for.  Where besides they had no roles but
\* those it gives them, every node has its software: one whose installer exited
\* with 0 and did nothing is missed when the Ready nodes are counted.
SuccessMeansCluster ==
  at = "idle" /\ outcome = "success" =>
    /\ merged
    /\ Cardinality(Servers) % 2 = 1
    /\ "server" \in software[Nodes[1].host]
    /\ (\A h \in Hosts : before[h] # {} => Roles(h) # {}) =>
         /\ \A i, j \in DOMAIN Nodes : Nodes[i].host = Nodes[j].host => i = j
         /\ \A i \in DOMAIN Nodes : Nodes[i].host \in ready
    /\ (\A h \in Hosts : before[h] \subseteq Roles(h)) =>
         \A i \in DOMAIN Nodes : Nodes[i].role \in software[Nodes[i].host]

\* init returns.
InitReturns == at # "idle" ~> at = "idle"

\* A run that failed leaves the hosts as it found them, where it can, if it found
\* the cluster of a successful run.
RollbackRestores ==
  Failed /\ foundUp =>
    \A h \in Hosts :
      software[h] # before[h] => \E r \in NodeRoles : <<h, r>> \in stuck
=============================================================================

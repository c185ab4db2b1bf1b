--------------------------- MODULE RollingUpgrade ---------------------------
(***************************************************************************)
(* The rolling upgrade of pkg/lifecycle/upgrade over the node operations   *)
(* of pkg/k8s: the machines are drained, upgraded and uncordoned one after *)
(* the other, the control plane first, and the first failure ends the run. *)
(* A machine is upgraded by the scripts of its distribution                *)
(* (BootstrapScripts), one after the other, so that a failure leaves it    *)
(* between two of them.  The cluster goes on around it: pods end, are      *)
(* recreated and scheduled, kubelets restart.                              *)
(*                                                                         *)
(* A call of the API server fails when the context is done, when no        *)
(* control-plane node runs, or for reasons of its own, and may then have   *)
(* had its effect or not.                                                  *)
(***************************************************************************)
EXTENDS BootstrapScripts, FiniteSets, Functions

CONSTANTS Machines,   \* the nodes, in the order the caller lists them
          Role,       \* the role of each node
          UpgradedDistros, \* the distributions the cluster may be of
          Pods, Kind, \* the pods, and the kind of each
          Placements, \* where the pods may be in the beginning
          Options,    \* the DrainOptions callers pass
          MaxVersion, \* bound: versions are 1 .. MaxVersion
          MaxRuns,    \* bound: calls of RollingUpgrade
          MaxFaults   \* bound: failures, cancellations, vanished pods, restarted kubelets

Nodes == {Machines[j] : j \in DOMAIN Machines}
PodKinds == {"plain", "daemonset", "mirror"}
Pending == "pending"

ASSUME MachinesAssumption ==
  /\ Machines \in Seq(Nodes) /\ IsInjective(Machines)
  /\ Pending \notin Nodes
  /\ Role \in [Nodes -> MachineRoles]
ASSUME DistrosAssumption == UpgradedDistros \subseteq Distros
ASSUME PodsAssumption == Kind \in [Pods -> PodKinds] /\ Placements \subseteq [Pods -> Nodes]
DrainOptions == [ignoreDaemonSets : BOOLEAN, force : BOOLEAN]

ASSUME OptionsAssumption == Options \subseteq DrainOptions
ASSUME BoundsAssumption ==
  MaxVersion \in Nat \ {0} /\ MaxRuns \in Nat /\ MaxFaults \in Nat

VARIABLES
  at,          \* where RollingUpgrade is
  i,           \* the machine of the ordered list it is at
  toVersion,   \* the version of this run, or of the last
  opts,        \* the DrainOptions of this run
  pods,        \* the listed pods DrainNode has still to visit
  script,      \* the next of the upgrade scripts to run
  missed,      \* one of them exited with 0 and has not had its effect
  nodes,       \* UpgradeResult.Nodes: <<machine, success>>
  completed, failed,
  outcome,     \* what RollingUpgrade returned
  cancelled,   \* the context is done
  \* The cluster.
  distro,      \* its distribution
  machine,     \* what each node has installed and runs
  hollow,      \* the nodes whose last upgrade that returned has missed something
  cordoned,    \* the unschedulable nodes
  ready,       \* the Ready nodes
  podNode,     \* where each pod is; a pending pod is on no node
  terminating, \* the pods that have been deleted and still run
  \* Bounds, and what only observes.
  runs, faults,
  failedAt     \* the nodes a run has failed at

\* Groups of variables that many steps leave as they are.
result    == <<nodes, completed, failed, outcome>>
request   == <<toVersion, opts>>
placement == <<podNode, terminating>>
bounds    == <<runs, faults, failedAt>>
run == <<at, i, toVersion, opts, pods, script, missed, nodes, completed, failed, outcome>>
world == <<distro, machine, hollow, cordoned, ready, podNode, terminating>>
vars == <<run, cancelled, world, runs, faults, failedAt>>

\* Mutant: the machines are upgraded in the caller's order.
orderedAsListed == Machines

ControlPlanes == {n \in Nodes : Role[n] = "control-plane"}

\* The loop that collects the chosen ones of some machines.
Kept(ms, chosen) ==
  LET f[k \in 0 .. Len(ms)] ==
        IF k = 0 THEN << >>
        ELSE IF ms[k] \in chosen THEN Append(f[k - 1], ms[k]) ELSE f[k - 1]
  IN  f[Len(ms)]

\* The control-plane machines, then the others, each in the caller's order.
ordered == Kept(Machines, ControlPlanes) \o Kept(Machines, Nodes \ ControlPlanes)

\* The machine upgradeNode is at, and the scripts the upgrader makes for it.
node == ordered[i]
scripts == Upgrade(distro, toVersion).scripts

TypeOK ==
  /\ at \in {"idle", "next", "cordon", "list", "evict", "scripts", "uncordon", "ready"}
  /\ i \in 1 .. Len(ordered) + 1
  /\ toVersion \in 1 .. MaxVersion
  /\ opts \in Options
  /\ pods \subseteq Pods
  /\ script \in 1 .. Len(scripts) + 1
  /\ missed \in BOOLEAN
  /\ nodes \in Seq(Nodes \X BOOLEAN)
  /\ completed \in 0 .. Len(ordered) /\ failed \in 0 .. 1
  /\ outcome \in {"none", "upgraded", "failed", "cancelled"}
  /\ cancelled \in BOOLEAN
  /\ distro \in UpgradedDistros
  /\ machine \in [Nodes -> Machine]
  /\ hollow \subseteq Nodes
  /\ cordoned \subseteq Nodes /\ ready \subseteq Nodes
  /\ podNode \in [Pods -> Nodes \cup {Pending}]
  /\ terminating \subseteq Pods
  /\ runs \in 0 .. MaxRuns /\ faults \in 0 .. MaxFaults
  /\ failedAt \subseteq Nodes

\* A node whose parts all run at the oldest version.
Healthy(role) == Started([Blank EXCEPT !.tool = 1, !.role = role, !.node = TRUE])

\* A healthy cluster at the oldest version.  The packages of kubeadm are held
\* where the hold has not been lifted by hand.
Init ==
  /\ at = "idle"
  /\ i = 1
  /\ toVersion = 1
  /\ opts \in Options
  /\ pods = {}
  /\ script = 1 /\ missed = FALSE
  /\ nodes = << >>
  /\ completed = 0 /\ failed = 0
  /\ outcome = "none"
  /\ cancelled = FALSE
  /\ distro \in UpgradedDistros
  /\ \E held \in SUBSET (IF distro = "kubeadm" THEN Nodes ELSE {}) :
       machine = [n \in Nodes |-> [Healthy(Role[n]) EXCEPT !.held = n \in held]]
  /\ hollow = {}
  /\ cordoned = {}
  /\ ready = Nodes
  /\ podNode \in Placements
  /\ terminating = {}
  /\ runs = 0 /\ faults = 0
  /\ failedAt = {}

Fault == faults < MaxFaults /\ faults' = faults + 1

Is(n, role) == Role[n] = role
RunningControlPlanes == {n \in ControlPlanes : machine[n].up}

\* The API server can be called: a control-plane node runs.
Answers == ~cancelled /\ RunningControlPlanes # {}

\* A script fails.
ScriptError == (cancelled /\ UNCHANGED faults) \/ Fault

\* A call of the API server fails: the one that is asked may be down.
CallFails ==
  \/ ScriptError
  \/ /\ ControlPlanes # RunningControlPlanes
     /\ UNCHANGED faults

\* upgradeNode returns an error.
Fail ==
  /\ at' = "idle"
  /\ outcome' = "failed"
  /\ nodes' = Append(nodes, <<node, FALSE>>)
  /\ failed' = failed + 1
  /\ failedAt' = failedAt \cup {node}
  /\ UNCHANGED <<i, request, completed>>

GoTo(step) ==
  /\ at' = step
  /\ UNCHANGED <<i, request, result, failedAt>>

-----------------------------------------------------------------------------
(* RollingUpgrade.                                                         *)

\* The caller asks for a version that is not lower than the last one.
StartRun ==
  /\ at = "idle"
  /\ runs < MaxRuns
  /\ runs' = runs + 1
  /\ toVersion' \in toVersion .. MaxVersion
  /\ opts' \in Options
  /\ at' = "next"
  /\ i' = 1
  /\ nodes' = << >>
  /\ completed' = 0 /\ failed' = 0
  /\ outcome' = "none"
  /\ cancelled' = FALSE
  /\ UNCHANGED <<pods, script, missed, world, faults, failedAt>>

\* The head of the loop over the machines.
NextMachine ==
  /\ at = "next"
  /\ IF i > Len(ordered)
       THEN at' = "idle" /\ outcome' = "upgraded"
       ELSE IF cancelled
         THEN at' = "idle" /\ outcome' = "cancelled"
         ELSE at' = "cordon" /\ UNCHANGED outcome
  /\ UNCHANGED <<i, request, pods, script, missed, nodes, completed, failed, cancelled, world,
                 bounds>>

\* DrainNode gets the node and updates it as unschedulable.
CordonNode ==
  /\ at = "cordon"
  /\ \/ /\ Answers
        /\ cordoned' = cordoned \cup {node}
        /\ GoTo("list")
        /\ UNCHANGED faults
     \/ /\ CallFails
        /\ cordoned' \in {cordoned, cordoned \cup {node}}
        /\ Fail
  /\ script' = 1 /\ missed' = FALSE
  /\ UNCHANGED <<pods, cancelled, distro, hollow, machine, ready, placement, runs>>

\* It lists the pods of the node.
ListPods ==
  /\ at = "list"
  /\ \/ /\ Answers
        /\ pods' = {p \in Pods : podNode[p] = node}
        /\ GoTo("evict")
        /\ UNCHANGED faults
     \/ /\ CallFails
        /\ Fail
        /\ UNCHANGED pods
  /\ UNCHANGED <<script, missed, cancelled, world, runs>>

Skipped(p) ==
  \/ Kind[p] = "mirror"
  \/ Kind[p] = "daemonset" /\ opts.ignoreDaemonSets

\* Mutant: a skipped pod ends the loop.
SkipPodReturns(p) ==
  /\ at = "evict"
  /\ p \in pods
  /\ Skipped(p)
  /\ pods' = {}
  /\ UNCHANGED <<at, i, request, script, missed, result, cancelled, world, bounds>>

SkipPod(p) ==
  /\ at = "evict"
  /\ p \in pods
  /\ Skipped(p)
  /\ pods' = pods \ {p}
  /\ UNCHANGED <<at, i, request, script, missed, result, cancelled, world, bounds>>

\* It deletes a pod and does not wait for it to end.
DeletePod(p) ==
  /\ at = "evict"
  /\ p \in pods
  /\ ~Skipped(p)
  /\ Answers
  /\ podNode[p] = node
  /\ terminating' = terminating \cup {p}
  /\ pods' = pods \ {p}
  /\ UNCHANGED <<at, i, request, script, missed, result, cancelled, distro, hollow,
                 machine, cordoned, ready, podNode, bounds>>

\* The deletion fails, as it does for a pod that has gone since it was listed;
\* only Force goes on.
DeletePodFails(p) ==
  /\ at = "evict"
  /\ p \in pods
  /\ ~Skipped(p)
  /\ CallFails \/ (podNode[p] # node /\ UNCHANGED faults)
  /\ IF opts.force
       THEN GoTo("evict") /\ pods' = pods \ {p}
       ELSE Fail /\ pods' = {}
  /\ UNCHANGED <<script, missed, cancelled, world, runs>>

Drained ==
  /\ at = "evict"
  /\ pods = {}
  /\ GoTo("scripts")
  /\ UNCHANGED <<pods, script, missed, cancelled, world, runs, faults>>

Command == scripts[script]

\* The runner runs the next script, which exits with 0, with its effect or
\* without; it may restart the kubelet: the node may be not Ready for a while.
RunScript ==
  /\ at = "scripts"
  /\ script <= Len(scripts)
  /\ Able(Command, machine[node], {})
  /\ \E is \in After(Command, machine[node]) :
       /\ machine' = [machine EXCEPT ![node] = is]
       /\ missed' = (missed \/ is \notin Effects(Command, machine[node]))
  /\ script' = script + 1
  /\ \/ UNCHANGED <<ready, faults>>
     \/ Fault /\ ready' = ready \ {node}
  /\ UNCHANGED <<at, i, request, result, failedAt, pods, cancelled, distro, hollow, cordoned,
                 placement, runs>>

\* Mutant: an error of a script is logged only.
ScriptErrorDropped ==
  /\ at = "scripts"
  /\ script <= Len(scripts)
  /\ ScriptError
  /\ script' = script + 1
  /\ UNCHANGED <<at, i, request, result, failedAt, pods, missed, cancelled, distro, hollow,
                 machine, cordoned, ready, placement, runs>>

\* A script fails: it cannot succeed, or it fails for a reason of its own before
\* or after it has had its effect, or none can be made.
ScriptFails ==
  /\ at = "scripts"
  /\ script <= Len(scripts)
  /\ \/ /\ ~Able(Command, machine[node], {})
        /\ UNCHANGED <<machine, faults>>
     \/ /\ Able(Command, machine[node], {})
        /\ ScriptError
        /\ \E is \in AfterFailure(Command, machine[node]) :
             machine' = [machine EXCEPT ![node] = is]
  /\ Fail
  /\ script' = 1 /\ missed' = FALSE
  /\ UNCHANGED <<pods, cancelled, distro, hollow, cordoned, ready, placement, runs>>

ScriptsDone ==
  /\ at = "scripts"
  /\ script > Len(scripts)
  /\ GoTo("uncordon")
  /\ script' = 1 /\ missed' = FALSE
  /\ hollow' = IF missed THEN hollow \cup {node} ELSE hollow \ {node}
  /\ UNCHANGED <<pods, cancelled, distro, machine, cordoned, ready, placement, runs, faults>>

\* Mutant: an error of the uncordon is logged only.
UncordonNodeErrorDropped ==
  /\ at = "uncordon"
  /\ \/ /\ Answers
        /\ cordoned' = cordoned \ {node}
        /\ UNCHANGED faults
     \/ /\ CallFails
        /\ cordoned' \in {cordoned, cordoned \ {node}}
  /\ GoTo("ready")
  /\ UNCHANGED <<pods, script, missed, cancelled, distro, hollow, machine, ready, placement, runs>>

UncordonNode ==
  /\ at = "uncordon"
  /\ \/ /\ Answers
        /\ cordoned' = cordoned \ {node}
        /\ GoTo("ready")
        /\ UNCHANGED faults
     \/ /\ CallFails
        /\ cordoned' \in {cordoned, cordoned \ {node}}
        /\ Fail
  /\ script' = 1 /\ missed' = FALSE
  /\ UNCHANGED <<pods, cancelled, distro, hollow, machine, ready, placement, runs>>

\* Mutant: the upgrade waits until the node is Ready.
NodeReadyWaits ==
  /\ at = "ready"
  /\ Answers
  /\ node \in ready
  /\ at' = "next"
  /\ nodes' = Append(nodes, <<node, TRUE>>)
  /\ completed' = completed + 1
  /\ i' = i + 1
  /\ UNCHANGED <<request, failed, outcome, bounds, pods, script, missed, cancelled, world>>

\* NodeReady, asked once.
NodeReady ==
  /\ at = "ready"
  /\ \/ /\ Answers
        /\ node \in ready
        /\ at' = "next"
        /\ nodes' = Append(nodes, <<node, TRUE>>)
        /\ completed' = completed + 1
        /\ i' = i + 1
        /\ UNCHANGED <<request, failed, outcome, failedAt, faults>>
     \/ /\ CallFails \/ (node \notin ready /\ UNCHANGED faults)
        /\ Fail
  /\ UNCHANGED <<pods, script, missed, cancelled, world, runs>>

-----------------------------------------------------------------------------
(* The caller and the cluster.                                             *)

Cancel ==
  /\ at # "idle"
  /\ ~cancelled
  /\ Fault
  /\ cancelled' = TRUE
  /\ UNCHANGED <<run, world, runs, failedAt>>

\* A deleted pod ends.  Its controller makes another: a daemon set on the same
\* node, cordoned or not, any other wherever it is scheduled.
PodEnds(p) ==
  /\ p \in terminating
  /\ terminating' = terminating \ {p}
  /\ podNode' = [podNode EXCEPT ![p] = IF Kind[p] = "daemonset" THEN @ ELSE Pending]
  /\ UNCHANGED <<run, cancelled, distro, hollow, machine, cordoned, ready, bounds>>

\* A pod goes by itself.
PodVanishes(p) ==
  /\ Kind[p] = "plain"
  /\ podNode[p] # Pending
  /\ Fault
  /\ podNode' = [podNode EXCEPT ![p] = Pending]
  /\ terminating' = terminating \ {p}
  /\ UNCHANGED <<run, cancelled, distro, hollow, machine, cordoned, ready, runs, failedAt>>

SchedulePod(p) ==
  /\ podNode[p] = Pending
  /\ \E n \in ready \ cordoned : podNode' = [podNode EXCEPT ![p] = n]
  /\ UNCHANGED <<run, cancelled, distro, hollow, machine, cordoned, ready, terminating, bounds>>

\* A node whose kubelet runs becomes Ready, and one whose kubelet has stopped
\* is noticed after a while.
NodeRecovers(n) ==
  /\ n \notin ready
  /\ machine[n].up
  /\ ready' = ready \cup {n}
  /\ UNCHANGED <<run, cancelled, distro, hollow, machine, cordoned, placement, bounds>>

NodeGoesDown(n) ==
  /\ n \in ready
  /\ ~machine[n].up
  /\ ready' = ready \ {n}
  /\ UNCHANGED <<run, cancelled, distro, hollow, machine, cordoned, placement, bounds>>

Progress ==
  \/ NextMachine \/ CordonNode \/ ListPods
  \/ \E p \in Pods : SkipPod(p) \/ DeletePod(p) \/ DeletePodFails(p)
  \/ Drained \/ RunScript \/ ScriptFails \/ ScriptsDone \/ UncordonNode \/ NodeReady

Next ==
  \/ StartRun
  \/ Progress
  \/ Cancel
  \/ \E p \in Pods : PodEnds(p) \/ PodVanishes(p) \/ SchedulePod(p)
  \/ \E n \in Nodes : NodeRecovers(n) \/ NodeGoesDown(n)

Spec == Init /\ [][Next]_vars

\* Calls of the API server and scripts return; nothing is assumed of the
\* cluster, which may leave a node not Ready for ever.
FairSpec == Spec /\ WF_vars(Progress)

-----------------------------------------------------------------------------
(* Properties.                                                             *)

\* No worker's kubelet is newer than an API server, save one whose last upgrade
\* had scripts that exited with 0 and did nothing; and no part of a node is newer
\* than the part it depends on, however many runs failed between two scripts and
\* were tried again.
VersionsFit ==
  /\ \A w \in Nodes, c \in Nodes \ hollow :
       Is(w, "worker") /\ Is(c, "control-plane") => machine[w].kubelet <= machine[c].api
  /\ \A n \in Nodes : PartsFit(machine[n])

\* Outside the machine being upgraded only those at which a run failed are
\* cordoned or down: a machine that was passed runs and has been uncordoned.
OnlyFailuresStayOut ==
  cordoned \cup {n \in Nodes : ~machine[n].up} \subseteq
    failedAt \cup (IF at \in {"idle", "next"} THEN {} ELSE {node})

\* The installer of k3s leaves the agent of a worker running the old program,
\* beside a server of the new one.
AgentMayBeOld(n) ==
  /\ distro = "k3s" /\ Is(n, "worker")
  /\ machine[n].up /\ machine[n].tool = toVersion /\ machine[n].own

\* A node is at the version asked for, as far as the scripts that exited with 0
\* have done what they are for.
Upgraded(n) ==
  \/ RunsAt(machine[n], toVersion, Role[n])
  \/ AgentMayBeOld(n)
  \/ n \in hollow

\* A run that returns no error has upgraded every node, and none is cordoned,
\* those an earlier run left behind included.
SuccessMeansUpgraded ==
  at = "idle" /\ outcome = "upgraded" => cordoned = {} /\ \A n \in Nodes : Upgraded(n)

\* The result names the machines in the order of the upgrade, each that is
\* reported as upgraded is, and the counters are those of the list.
ResultTellsTheTruth ==
  /\ \A j \in DOMAIN nodes :
       /\ nodes[j][1] = ordered[j]
       /\ nodes[j][2] => Upgraded(nodes[j][1])
       /\ ~nodes[j][2] => j = Len(nodes) /\ outcome = "failed"
  /\ completed = Cardinality({j \in DOMAIN nodes : nodes[j][2]})
  /\ failed = Cardinality({j \in DOMAIN nodes : ~nodes[j][2]})

\* While the scripts of a node run it takes no new pods, and those it had to
\* give up have been told to end; without Force, and save for the pods that
\* belong to the node.
DrainedBeforeScripts ==
  at = "scripts" =>
    /\ node \in cordoned
    /\ ~opts.force =>
         \A p \in Pods : podNode[p] = node /\ Kind[p] = "plain" => p \in terminating

\* RollingUpgrade returns.
UpgradeReturns == at # "idle" ~> at = "idle"
=============================================================================

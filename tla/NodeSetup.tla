------------------------------ MODULE NodeSetup -----------------------------
(***************************************************************************)
(* The life of the machines of a cluster as the provider interfaces of     *)
(* pkg/provider offer it: a BootstrapProvider makes the files and scripts  *)
(* of an operation, a runner writes and runs them, and the                 *)
(* ControlPlaneProvider waits for what comes of it (Waits).                *)
(*                                                                         *)
(* The repository has the providers and the interface of the runner, and   *)
(* leaves the rest to its user: the caller is taken to do one thing at a   *)
(* time, after a failure to try the same again or to uninstall, and to     *)
(* lift the hold on packages by hand; the runner to write the files, to    *)
(* run the scripts in order and to stop at the first that fails.           *)
(***************************************************************************)
EXTENDS BootstrapScripts, Waits, FiniteSets

CONSTANTS Machines,     \* the machines
          UsedDistros,  \* the distributions a cluster may be of
          MaxVersion,   \* bound: versions are 1 .. MaxVersion
          MaxOps,       \* bound: operations on machines
          MaxWaits,     \* bound: waits
          LastWait,     \* bound: the operations after which no wait begins
          MaxFaults     \* bound: scripts that fail

ASSUME NodeSetupAssumption ==
  /\ UsedDistros \subseteq Distros
  /\ {MaxVersion, MaxOps, MaxWaits, LastWait, MaxFaults} \subseteq Nat

VARIABLES
  distro,    \* the distribution of the cluster
  cluster,   \* its ClusterSpec
  machine,   \* what each machine has installed and runs
  files,     \* the files where the scripts of each machine run
  op,        \* the operation that is going on, as the runner sees it
  last,      \* the last operation on each machine, what was asked of it, whether
             \* it succeeded, and whether a script of it exited with 0 and missed
             \* its effect
  expected,  \* the number of nodes WaitForNodes waits for
  ops, waited, faults

nodes   == <<distro, machine, files, last>>
counts  == <<ops, waited, faults>>
vars == <<nodes, cluster, op, expected, counts, waits>>

\* An operation as its runner sees it: the machine, the provider's data, whether
\* the files are written, and the next script.
Operation(m, data) == [on |-> m, data |-> data, written |-> FALSE, script |-> 1]
NoOperation == Operation("nobody", Data({}, << >>))

\* talosctl runs beside the configurations it has generated, whatever machine
\* it is for; the other scripts run on the machine.
Place(m) == IF distro = "talos" THEN "workstation" ELSE m

RunningControlPlanes == {m \in Machines : machine[m].role = "control-plane" /\ machine[m].up}

\* Machines of talos have booted its image; the others have nothing of the
\* distribution.
Init ==
  /\ distro \in UsedDistros
  /\ cluster \in [version : {1}, HAEnabled : BOOLEAN]
  /\ machine = [m \in Machines |-> [Blank EXCEPT !.tool = IF distro = "talos" THEN 1 ELSE 0]]
  /\ files = [p \in Machines \cup {"workstation"} |-> {}]
  /\ op = NoOperation
  /\ last = [m \in Machines |-> [name |-> "uninstall", role |-> "control-plane", version |-> 1,
                                 done |-> TRUE, hollow |-> FALSE]]
  /\ expected = 0
  /\ ops = 0 /\ waited = 0 /\ faults = 0
  /\ WaitsInit

Idle == op = NoOperation /\ wait = "none"

-----------------------------------------------------------------------------
(* The operations of a bootstrap provider.                                 *)

Tried(m, name) == last[m].name = name /\ ~last[m].done
Done(m, name)  == last[m].name = name /\ last[m].done
Member(m) == \E name \in {"init", "join", "upgrade"} : Done(m, name)

\* The operation on a machine that is to have the role and the version.
Begin(m, name, role, v, data) ==
  /\ Idle
  /\ ops < MaxOps
  /\ ops' = ops + 1
  /\ op' = Operation(m, data)
  /\ last' = [last EXCEPT ![m] = [name |-> name, role |-> role, version |-> v,
                                 done |-> FALSE, hollow |-> FALSE]]
  /\ UNCHANGED <<distro, machine, files, expected, waited, faults, waits>>

\* The first control plane: no other machine is part of a cluster.
BeginInit(m) ==
  /\ \A other \in Machines \ {m} : machine[other].role = "none"
  /\ Done(m, "uninstall") \/ Tried(m, "init")
  /\ Begin(m, "init", "control-plane", cluster.version, InitControlPlane(distro, cluster))
  /\ UNCHANGED cluster

\* Another machine joins a control plane that runs.
BeginJoin(m, role) ==
  /\ RunningControlPlanes \ {m} # {}
  /\ Done(m, "uninstall") \/ Tried(m, "join")
  /\ machine[m].role \in {"none", role}
  /\ Begin(m, "join", role, cluster.version,
           IF role = "control-plane" THEN JoinControlPlane(distro, cluster)
           ELSE JoinWorker(distro, cluster))
  /\ UNCHANGED cluster

\* A machine is taken out, whatever has become of it.
BeginUninstall(m, role) ==
  /\ machine[m].role \in {"none", role}
  /\ Begin(m, "uninstall", role, 1, Uninstall(distro, role))
  /\ UNCHANGED cluster

\* A machine is upgraded, while no other is being added; those that join later
\* do so at the new version.
BeginUpgrade(m, v) ==
  /\ Member(m) \/ Tried(m, "upgrade")
  /\ \A other \in Machines : ~Tried(other, "init") /\ ~Tried(other, "join")
  /\ cluster' = [cluster EXCEPT !.version = v]
  /\ Begin(m, "upgrade", last[m].role, v, Upgrade(distro, v))

\* Nothing in the repository lifts the hold that keeps apt from changing the
\* packages of kubeadm.
Unhold(m) ==
  /\ Idle
  /\ machine[m].held
  /\ machine' = [machine EXCEPT ![m].held = FALSE]
  /\ UNCHANGED <<distro, files, last, cluster, op, expected, counts, waits>>

-----------------------------------------------------------------------------
(* The runner.                                                             *)

WriteFiles ==
  /\ op # NoOperation
  /\ ~op.written
  /\ files' = [files EXCEPT ![Place(op.on)] = @ \cup op.data.files]
  /\ op' = [op EXCEPT !.written = TRUE]
  /\ UNCHANGED <<distro, machine, last, cluster, expected, counts, waits>>

Running == op.written /\ op.script <= Len(op.data.scripts)
Command == op.data.scripts[op.script]
CanRun  == Able(Command, machine[op.on], files[Place(op.on)])

\* A script exits with 0, with its effect or without.
RunScript ==
  /\ Running
  /\ CanRun
  /\ \E is \in After(Command, machine[op.on]) :
       /\ machine' = [machine EXCEPT ![op.on] = is]
       /\ last' = [last EXCEPT ![op.on].hollow = @ \/ is \notin Effects(Command, machine[op.on])]
  /\ files' = [files EXCEPT ![Place(op.on)] = FilesAfter(Command, @)]
  /\ op' = [op EXCEPT !.script = @ + 1]
  /\ UNCHANGED <<distro, cluster, expected, counts, waits>>

\* A script fails because it cannot succeed, or for a reason of its own, before
\* or after it has had its effect.
ScriptFails ==
  /\ Running
  /\ \/ ~CanRun /\ UNCHANGED <<machine, faults>>
     \/ /\ CanRun
        /\ faults < MaxFaults
        /\ faults' = faults + 1
        /\ \E is \in AfterFailure(Command, machine[op.on]) :
             machine' = [machine EXCEPT ![op.on] = is]
  /\ op' = NoOperation
  /\ UNCHANGED <<distro, files, last, cluster, expected, ops, waited, waits>>

ScriptsDone ==
  /\ op.written
  /\ ~Running
  /\ last' = [last EXCEPT ![op.on].done = TRUE]
  /\ op' = NoOperation
  /\ UNCHANGED <<distro, machine, files, cluster, expected, counts, waits>>

-----------------------------------------------------------------------------
(* The waits of the control-plane provider, and the cluster.               *)

\* What a call made now may find: whether the API server of a control plane that
\* runs answers, and which of the nodes whose kubelets run are Ready, changes by
\* itself and may be asked at any moment.
ApiAnswers == {TRUE : m \in RunningControlPlanes} \cup {FALSE}
Kubelets == {m \in Machines : machine[m].up /\ machine[m].node}
EnoughReady(n) ==
  {api /\ Cardinality(ready) >= n : api \in ApiAnswers, ready \in SUBSET Kubelets}

\* The caller waits when all it has begun has succeeded.
CanWait ==
  /\ Idle
  /\ \A m \in Machines : last[m].done
  /\ waited < MaxWaits /\ ops <= LastWait
  /\ waited' = waited + 1

WaitForAPI(timeout) ==
  /\ CanWait
  /\ \E now \in ApiAnswers : BeginWait("api", timeout, now)
  /\ UNCHANGED <<nodes, cluster, op, expected, ops, faults>>

WaitForNodes(n, timeout) ==
  /\ CanWait
  /\ \/ expected' = n /\ \E now \in EnoughReady(n) : BeginWait("nodes", timeout, now)
     \/ NoClient /\ UNCHANGED expected
  /\ UNCHANGED <<nodes, cluster, op, ops, faults>>

Waiting ==
  /\ \E apiNow \in ApiAnswers, nodesNow \in EnoughReady(expected) :
       WaitStep(apiNow, nodesNow)
  /\ expected' = IF wait' = "none" THEN 0 ELSE expected
  /\ UNCHANGED <<nodes, cluster, op, counts>>

Cancel ==
  /\ CancelWait
  /\ UNCHANGED <<nodes, cluster, op, expected, counts>>

Next ==
  \/ \E m \in Machines :
       \/ BeginInit(m)
       \/ \E role \in MachineRoles : BeginJoin(m, role) \/ BeginUninstall(m, role)
       \/ \E v \in cluster.version .. MaxVersion : BeginUpgrade(m, v)
       \/ Unhold(m)
  \/ WriteFiles \/ RunScript \/ ScriptFails \/ ScriptsDone
  \/ \E timeout \in Timeouts :
       \/ WaitForAPI(timeout)
       \/ \E n \in 1 .. Cardinality(Machines) : WaitForNodes(n, timeout)
  \/ Waiting \/ Cancel

Spec == Init /\ [][Next]_vars

\* A call of the API server returns, and a timer that has expired is heard.  Of
\* the cases that are ready a select takes one at random, so that it does not
\* pass over the deadline for ever.
FairSpec == Spec /\ WF_vars(Waiting) /\ SF_vars(DeadlineReceived /\ Waiting)

-----------------------------------------------------------------------------
(* Properties.                                                             *)

\* A machine whose services run has the tool that runs them, belongs to the
\* cluster in a role, and has no part newer than the one it depends on, after
\* whatever sequence of operations that failed half way and were tried again.
RunsWhole ==
  \A m \in Machines :
    /\ PartsFit(machine[m])
    /\ machine[m].up => machine[m].role # "none" /\ machine[m].tool > 0
    /\ machine[m].own => machine[m].tool > 0

\* The machine runs all the parts of its role at one version, the one asked for
\* where it is installed and not an image.  An agent beside a server of its own
\* may run an older program.
RunsAsAsked(is, asked) ==
  /\ is.up
  /\ is.tool = asked.version \/ (distro = "talos" /\ asked.name # "upgrade")
  /\ is.api = IF is.role = "control-plane" THEN is.tool ELSE 0
  /\ is.kubelet = (IF is.node THEN is.tool ELSE 0) \/ is.own

\* Nothing of the distribution is left, save the tool of k0s, the image of talos
\* and the server that an upgrade of k3s has started beside an agent.
IsRemoved(is, asked) ==
  /\ is = [Blank EXCEPT !.tool = is.tool, !.own = is.own]
  /\ is.tool > 0 => distro \in {"k0s", "talos"} \/ is.own
  /\ is.own => distro = "k3s" /\ asked.role = "worker"

\* What an operation whose scripts exited with 0 and had their effects has
\* achieved stays true until the next one on that machine: after an init or a
\* join it has the role, a member that has a role runs as it was asked to, and
\* after an uninstall nothing of it is left.  Nothing is promised of an operation
\* one of whose scripts exited with 0 and did nothing; no uninstall has such a script.
PromisesKept ==
  \A m \in Machines :
    LET is == machine[m]
        asked == last[m]
    IN
    /\ Member(m) /\ ~asked.hollow =>
         /\ asked.name # "upgrade" => is.role = asked.role
         /\ is.role # "none" => RunsAsAsked(is, asked)
    /\ Done(m, "uninstall") => IsRemoved(is, asked)
=============================================================================

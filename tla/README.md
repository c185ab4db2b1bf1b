# Formal model of ironkube

ironkube is a Go command-line tool and library that installs, configures and
upgrades Kubernetes clusters over SSH, on Hetzner and in Docker. This directory
holds TLA+ models of the parts of it whose correctness depends on order, failure and
concurrency, the TLC configurations that check them on small instances, and proofs,
checked by TLAPS, for every instance. All paths below are relative to `src/`.

Contents: [inventory](#inventory), [modules](#modules), [runs](#runs),
[fairness](#fairness), [proofs](#proofs), [findings](#findings), [limits of the
models](#limits-of-the-models), [plan](#plan).

## Inventory

What the program consists of, the state each part keeps, and what makes it correct.
The same parts are listed with their files in `PROJECT.json`.

**Reconciler and cluster state** (`pkg/engine/reconciler.go`, `pkg/state`). A
`ClusterState` records the machines, addons, version and operation history of a
cluster. `Reconcile` compares it with what a configuration asks for and returns a
list of actions of six kinds. The order of the kinds is fixed; inside a kind it is
the order in which Go iterates over a map. Correct if executing the actions in any
such order leads to a state for which nothing is left to do.

**State commands** (`apply`, `diff`, `destroy`, `state delete` in
`cmd/ironkube/cli`, over `pkg/state/local`). The state is one JSON file per cluster.
`apply` loads it, reconciles, executes the actions on the copy in memory and saves
it; a state that does not load counts as "no cluster yet". `Save` is `os.WriteFile`,
which truncates and then writes; `destroy` and `state delete` remove the file. No
command takes the backend's lock, so two terminals interleave at will, and a process
may die at any point. Correct if a file that loads is always the finished state of
some apply.

**Phase pipeline** (`pkg/engine/pipeline.go`). Runs phases in order with hooks
before and after each. An error of a phase, of a hook before one, or a cancelled
context makes it run the cleanups of the completed phases in reverse. Correct if
exactly the completed phases are cleaned up, once each, and nothing runs after a
failure.

**Cluster init** (`pkg/phases`, `pkg/ssh`, `cmd/ironkube/cli/init.go`). Four phases:
validate; connect, which opens an SSH connection to every node; bootstrap, which
installs the first server, joins the others and waits for them; and kubeconfig,
which fetches and merges the credentials. Bootstrap rolls itself back when it fails,
and the pipeline cleans it up when a later phase does. Hard because every remote
command may fail with or without its effect, and because the cleanups need
connections that another cleanup closes.

**Bootstrap providers** (`pkg/providers/bootstrap`, `pkg/provider/bootstrap.go`). For
k3s, k0s, kubeadm and talos, the files and scripts that start a cluster, join a
machine, take it out and upgrade it. They keep nothing; what they do is done by the
scripts, one after the other, on machines that remember. Correct if the scripts of
every operation bring a machine to where the operation promises, also from where a
failed one left it, and never run parts whose versions do not go together.

**Control-plane waits** (`pkg/providers/controlplane/universal`, `pkg/k8s/nodes.go`).
`WaitForAPI` tries again after pauses that double, `WaitForNodes` at every tick of a
ticker; both have a timeout and a context. Correct if a wait ends soon after its
timeout, and not before it without having looked.

**Rolling upgrade** (`pkg/lifecycle/upgrade`, `pkg/k8s/nodes.go`). Cordons, drains,
upgrades with the scripts of the distribution, uncordons and checks one node after
the other, the control plane first, and stops at the first error. Its state is the
cluster's: a run that fails leaves a node cordoned and perhaps between two scripts,
and the next run starts over. Pods are scheduled, end and vanish meanwhile.

**Cluster contents** (`pkg/providers/addon`, `pkg/lifecycle/backup`,
`pkg/state/local`). Addons are installed, upgraded and uninstalled from a manifest at
a URL or with helm; backups snapshot etcd and export the state under names made of a
prefix and the time; restores take a snapshot back. The lock of the state backend is
there to keep them apart. Correct if a backup that was reported stays what it was and
its state fits its snapshot, and what an uninstall leaves behind is explained.

**Infrastructure providers** (`pkg/providers/infra`). `Provision`, `Status` and
`Destroy` of docker and hetzner go through a list of machines with a few calls of a
service each and stop at the first that fails. They keep nothing themselves: the
service has the machines and the caller their list, and the two may disagree. The
ssh provider copies a list and destroys nothing.

**Kubeconfig merge** (`pkg/kubeconfig`). Renames the entries of a fetched
kubeconfig, replaces the server's address, and merges the result into a file that
the user and other inits write too.

**Fleet commands** (`pkg/fleet`, `cmd/ironkube/cli/fleet.go`). `status`, `diff` and
`upgrade` go through the clusters of a fleet file, reading the configuration and the
state of each while others change them. A cluster has two names, that of its file
and that in its metadata, and the commands do not use the same one.

**Airgap bundles** (`pkg/airgap`). `Create` fills a directory, `CreateArchive` and
`ExtractArchive` move it, `LoadBundle` installs it. Each may fail half way in a
directory that holds an older bundle. Correct if a manifest means a whole bundle.

**Others.** etcd maintenance, certificate operations, the health report, security
profiles, the remaining commands: see [limits of the models](#limits-of-the-models).

The parts meet in few places. `init` is the pipeline with the four phases; its last
phase is the kubeconfig merge. The fleet commands read the files that the state
commands write and use the same reconciler. The upgrade, the providers, the waits,
the addons, the backups, the lock and the airgap bundles are libraries: no command
of the CLI calls them. Their models therefore have a caller, and each says what it
takes the caller to do.

## Modules

| module | models | extends |
|---|---|---|
| `Reconciler` | `Reconcile`, `configToDesired`, the operators on `ClusterState`; the goal of an apply | |
| `ClusterStore` | abstract: a store that an apply moves in one step to its goal | `Reconciler` |
| `ApplyState` | the state commands as concurrent, crashing processes, and their mapping to `ClusterStore` | `Reconciler` |
| `Pipeline` | the engine, with phases that do anything | |
| `ClusterInit` | the phases of `init`, each step conjoined with the engine's | `Pipeline` |
| `BootstrapScripts` | the operations of the four distributions, and what their commands do to a machine | |
| `RollingUpgrade` | the upgrade, the drain and the cluster around them | `BootstrapScripts` |
| `Waits` | `WaitForAPI` and `WaitForNodes` over a clock | |
| `NodeSetup` | the life of a cluster's machines, and the waits for them | `BootstrapScripts`, `Waits` |
| `ClusterContents` | addons, backups and the lock, with concurrent users | |
| `InfraProvider` | docker and hetzner over a service | |
| `Kubeconfig` | rewrite, merge and save | |
| `Fleet` | the fleet commands; an apply is one step to its goal | `Reconciler` |
| `Airgap` | create, archive, extract and load | |
| `*MC` | the values of the constants for TLC | the module |
| `StateProofs` | theorems and proofs of the state and fleet commands, with the lemmas about `Reconciler` | `ApplyState`, `Fleet` |
| `ClusterInitProofs` | theorems and proofs of the engine and of `init` | `ClusterInit` |
| `NodeSetupProofs` | theorems and proofs of the operations and of the waits | `NodeSetup` |
| `RollingUpgradeProofs`, `ClusterContentsProofs`, `InfraProviderProofs`, `KubeconfigProofs`, `AirgapProofs` | theorems and proofs | the module |

How they correspond to the code:

- **Reconciler.** A plan is a record of sets, one per kind of action, and
  `ReachedStage` says that a kind is executed when the kinds before it are done. Any
  element of the set may be next, which is Go's map order. A machine is its role and
  version, keyed by host; an operation record is the version it records.
  `DesiredStates` has one role per host because the list of the code is turned into
  a map in which the later entry, the worker's, wins.
- **ApplyState.** One action for each read or write of the file and for each
  executed action of the plan. `SaveOpen` truncates the file, `SaveWrite` writes it;
  in between another process may truncate, write or remove it. What is written over
  another's bytes may not parse (`Garbage`); what is written to a removed file is
  lost (`fdLive`). `Crash`, `SaveOpenFails` and `SaveWriteFails` are the failures.
- **ClusterStore** is the promise: `Goal(c, s)` of `Reconciler` says in closed form what a
  configuration makes of a state. The variable `store` is mapped in `ApplyState` to the
  file's state or, between truncation and write, to the state about to be written.
- **Pipeline.** `at` is the place in `Execute`, `completed` the length of
  `completedPhases`. The loops over the hooks are recursive functions (`HookCalls`).
  `ran` and `calls` observe; the properties read them with `CallsTo`.
- **ClusterInit.** Every action is conjoined with the action of the engine it happens
  in or leaves `engine` unchanged: the module is a run of the engine by construction,
  and the engine's own properties are checked of it. `clients` is the executor's map,
  `open` counts the connections that exist, `software` is what each host has installed
  and survives between runs. A failed install may have installed or not, and so may
  one that exits with 0: the installer is downloaded by `curl` and piped into a shell
  without `pipefail`, and a shell that reads nothing exits with 0
  (`pkg/distro/k3s/k3s.go:36`). `Uninstalled` is either of two outcomes, since k3s has
  an uninstall command per service and kubeadm's ignores the role. `ValidNodes` is what
  the validation asks of the nodes; other errors of it may occur at will. `before` and
  `foundUp` observe what a run finds and whether the run before it had succeeded.
- **BootstrapScripts.** One operator per operation and distribution, from its Go
  function: the files and the commands of the scripts, in order, with the arguments
  that decide what they do. `Able` (a command can succeed), `Effects` (what it is
  for), `After` (what it may leave when it exits with 0) and `AfterFailure` stand for
  the programs the scripts call and are external. They follow what those programs do,
  not what the scripts hope for:
  - *A script that exits with 0 may have done nothing*: the installer of k3s and the
    download of k0s are `curl ... | sh` without `pipefail`; the packages of kubeadm are
    installed by five lines without `set -e`, whose last one decides.
  - *Held packages* (`held`): `apt-get` refuses to change them, to another version or
    away. The repository holds them and never releases them.
  - *`kubeadm upgrade apply`* succeeds on control-plane machines only, and only to the
    version of the installed kubeadm.
  - *An installer of k3s that is not told a role* takes over a server. Beside an agent
    it replaces the program, which the agent goes on running in its old version until
    it restarts, and starts a server of its own (`own`).
- **RollingUpgrade.** `run` is the function's own state, `world` the cluster's. The
  runner, an interface of the code, runs the scripts one by one and stops at the
  first that fails. A call fails when the context is done, or by a bounded fault,
  with or without its effect. `missed` and `hollow` observe: a script of this run on
  this node, or of the last one that returned on a node, exited with 0 and had no
  effect. The code cannot see them and no guard reads them. `Kind` distinguishes the
  pods the drain treats differently.
- **Waits.** A look begins, and what it will find is settled then; the answer comes up
  to `CallTime` later, which may be longer than the ticker's interval, for no call has
  a timeout (`pkg/k8s/client.go:10`). Time passes only where the code is in a call or
  in a select none of whose cases is ready; when several are, any is taken, as in Go.
  The ticker's channel holds one tick. `slow` observes that a call took more than half
  an interval. `TickerGoesOn` is the ticker where the bounded clock has stopped.
- **NodeSetup.** The caller does one thing at a time, and after a failure tries the
  same again or uninstalls; he may release held packages by hand (`Unhold`), since no
  script does. `last[m]` is the last operation on a machine, with `hollow` if a script
  of it exited with 0 and had no effect. The files of talos are where `talosctl` runs,
  those of the others on the machine. What an API call answers follows from the
  machines: the API server of a control plane that runs may or may not answer, and a
  node whose kubelet runs may or may not be Ready.
- **ClusterContents.** `call[u]` is where a user is. A backup is named by a prefix and
  a second of local time, which may come twice. A release of helm is a part of the
  cluster and of its snapshots, as the resources are. `published` is what a URL or a
  chart serves now.
- **InfraProvider.** `caller[c]` is the stack and the result of the caller for
  cluster `c`; `service` the machines by provider ID. `ProvisionCalls` and
  `DestroyCalls` are the calls each provider makes per machine.
- **Kubeconfig.** A name is a pair of the cluster's name and a suffix. A fetched file
  names its server by the loopback address, which the rewrite replaces by the host, or
  by another, which stays. `extra`
  stands for the fields of an entry that the structs of the code do not have, and
  which a merge therefore drops. `promised` observes what completed merges have put
  into the file.
- **Fleet.** `BaseName` and `MetaName` are a cluster's two names. `cfgToDesired` and
  `stToActual` are the fleet's own copies of the conversions of `apply`;
  `DiffAgreesWithApply` compares them with the others.
- **Airgap.** The content of a file is the version it comes from, or `Cut`. An
  archive is what was packed, whether its end was written, and what the call
  returned. `mixed` marks directories in which a call has begun to overwrite an
  older bundle.

Definitions named in a comment `Mutant:` are variations of the definition after
them, as a plausible mistake would make it. They are used by no specification: each
documents one mistake that a property detects (`PROJECT.json`, "mutants").

## Runs

`tlc -config <cfg> <module>` runs one. Deadlock checking is off throughout: the
number of commands in a behaviour is bounded, and the program rests when they are
done.

| run | cfg | states | question |
|---|---|---|---|
| `commands_sequential` | `ApplySequential` | 14 k | run one at a time and without failures, do the commands implement the atomic store, and is every successful apply in the history? |
| `commands_concurrent` | `ApplyConcurrent` | 38 k | with two terminals and two failures, is a file that loads always a finished state, and does every command end? |
| `lost_update` | `ApplyLostUpdate` | – | is every apply in the history when two run at once? *No.* |
| `cluster_init` | `ClusterInit` | 359 k | do two `init`s, the second on hosts the first has left in any state, succeed only with a cluster, and otherwise leave nothing behind? Does the engine keep its promises under it? |
| `cluster_init_again` | `ClusterInitAgain` | – | does an `init` that fails leave the cluster of a successful one as it found it? *No.* |
| `upgrade` | `Upgrade` | 1.3 M | do versions, cordons, pods and the reported result stay right over two runs, for three distributions, and how far when scripts do nothing? |
| `node_setup` | `NodeSetup` | 1.1 M | do the operations of the distributions keep their promises when scripts fail or do nothing, and do the waits end in time and not early? |
| `cluster_contents` | `ClusterContents` | 2.9 M | do backups stay what they were, with their state, and what does an uninstall leave? |
| `infra` | `Infra` | 77 k | which machines get lost, and what follows from it? |
| `kubeconfig` | `Kubeconfig` | 297 k | do contexts resolve, do merged clusters stay usable, are other entries kept? |
| `fleet` | `Fleet` | 85 k | do status, diff and upgrade agree with the state commands? |
| `airgap` | `Airgap` | 1.2 M | does a manifest mean a whole bundle, and is what was loaded one bundle? |

What the runs show, with the bounds and why they suffice:

- `commands_sequential`: seven configurations over two hosts, one addon with two
  versions and two cluster versions, chosen so that going from one to another
  creates, deletes and upgrades machines, installs, upgrades, disables and drops the
  addon, lists a host in both places, and moves versions both ways. Four commands:
  every ordered pair of configurations after a third, and every destroy between.
  `Refines` is the implementation of `ClusterStore`; `PlanCoversDifferences` says
  that what is left of a plan is exactly what still differs, so no action undoes
  another.
- `commands_concurrent`: two terminals, two configurations whose difference has an
  action of nearly every kind, four commands, two failures. A third terminal would
  add no new kind of interference, since a save meets at most one other between its
  two steps in any way that matters to the file; the theorems below hold for any
  number.
- `cluster_init`: two runs, so that hosts may belong to another cluster or to an older
  attempt; a first node, a join and a last node (as agents and as servers), a host
  listed twice, and two node lists that do not validate; three failures, enough
  for an install to fail and two uninstalls to fail after it, a cancellation at any
  step, and any number of installers that do nothing. `cluster_init_again` is the same
  with two nodes and one fault. The hooks implement all, one or two of the interfaces; of the four
  phases two have a cleanup.
- `upgrade`: a worker listed first, so that the order of the code differs from the
  caller's, and two control-plane nodes, of k3s, k0s or kubeadm, whose upgrades are
  one, three and three commands, with the packages of kubeadm held or not on each
  machine; one pod of each kind; strict and lenient drain options; two runs, so that a
  failed run is tried again from wherever it stopped; two faults, cancellations
  included, and any number of scripts that do nothing.
- `node_setup`: two machines, so that one joins the other, all four distributions,
  with and without `HAEnabled`; four operations, as in init, join, upgrade, uninstall
  or a failure, a second try and what follows; two failed scripts, and any number that
  do nothing. One wait, after at most two operations, which is all it takes to have
  none, one or both machines run; with pauses of 1, 2 and 4 for a limit of 3, a ticker
  of 2, calls of up to 3, and timeouts that are a tick and that are not, so that every
  order of deadline, tick, end of a pause and cancellation occurs, and one call may
  outlast a tick. The clock stops at 17: no wait gets there but one of `WaitForNodes`
  with slow calls, which then goes on without a clock. The proofs below hold for every
  value.
- `cluster_contents`: two users, two prefixes and two seconds, so that two backups
  can share a name; an addon of each kind with up to two resources; four operations,
  one failure and one publication, as in install, publish, upgrade, uninstall, or
  backup, change, backup, restore.
- `infra`: both providers, two clusters and up to two machines each, four machines
  made in all, two failures.
- `kubeconfig`: two inits, three merges, so that a cluster is merged again under its
  old name; the user's own file has an entry of the same name as a cluster and
  entries with unknown fields; one write cut short.
- `fleet`: three fleets: files named for their clusters, not named for them, and two
  files with the same name; three changes by others during or between commands.
- `airgap`: two versions of one bundle and one with an image name that contains a
  slash; five calls, which is one whole passage and a second attempt; two failures.

## Fairness

Four specifications state fairness, each for one liveness property:

- `ApplyState!FairSpec` (`Terminates`): weak fairness of each process's own steps. A
  process that is running keeps running; nothing blocks, since no command takes a
  lock. No command has to be started, and no fault has to happen or to stop
  happening.
- `ClusterInit!FairSpec` (`InitReturns`): weak fairness of what the program does next.
  Remote commands are assumed to answer or to fail; the code has no timeout for them
  (`pkg/ssh/client.go:76`), so a host that hangs would block it. Nothing is assumed of
  the nodes: they need never become Ready, for the waits have deadlines
  (`pkg/phases/bootstrap.go:129`).
- `RollingUpgrade!FairSpec` (`UpgradeReturns`): calls of the API server and scripts
  return. Nothing is assumed of pods or kubelets.
- `NodeSetup!FairSpec` (`WaitsReturn`): weak fairness of a wait's own steps and of the
  clock: a call returns within `CallTime`, and a timer that has expired is heard. And
  strong fairness of the deadline's case: after a slow call a tick and the deadline are
  both ready, the select takes one at random, and it does not take the tick for ever.
  Given that its calls return (the code gives them no timeout, so one that hangs holds
  up a wait for ever), a wait ends whatever they answer and without being cancelled.

## Proofs

`tlapm <module>` checks each of `StateProofs`, `ClusterInitProofs`,
`RollingUpgradeProofs`, `NodeSetupProofs`, `ClusterContentsProofs`,
`InfraProviderProofs`, `KubeconfigProofs` and `AirgapProofs`. A theorem holds for
every value of the constants that the assumptions of its module admit: any sets, any
number of operations, runs, crashes and faults. The assumptions are the types of the
constants and what is named below. Every invariant was checked by TLC on the
instances of the runs before it was proved.

### State commands

`ApplyState!Spec`, for any hosts, addons and versions, any configurations, any number
of terminals, commands and failures:

| theorem | states |
|---|---|
| `TypeCorrect` | `[]TypeOK` |
| `Converges` | `[]FileConverged`: a file that loads is in sync with the configuration of the apply that wrote it |
| `StaysUniform` | `[]UniformVersion`: its machines are all at its metadata version |
| `HistoryStaysInOrder` | `[]HistoryAgrees`: its last operation ends its history and set its version |
| `PlansCover` | `[]PlanCoversDifferences` |
| `AloneRefines` | with one terminal, `Refines`: the commands implement `ClusterStore`, failures included |
| `AloneKeepsHistory` | with one terminal, `[]HistoryComplete` as long as nothing has crashed or failed |

Assumed: versions do not include the empty string, configurations are well-formed,
and the markers for no file, an empty one and one that does not parse are not states.

`FileConverged` alone is not inductive: the file gets its content from a process's
memory, and the memory from executing a plan. So the invariant is

    IInv == TypeOK /\ PlanCoversDifferences /\ MemoryComplete /\ FileComplete

where `MemoryComplete` says that a process about to save has in memory a finished
state (in sync with its configuration, one version, an ordered history), and
`FileComplete` the same of a file that loads. The centre of the proof is that one
executed action takes `Covers(desired, state, plan)` to `Covers` of the next state
and the shorter plan: the lemmas `CreateCovers`, `DeleteCovers`, `UpgradeCovers`,
`SetAddonCovers` and `RemoveAddonCovers`. `ReconcileCovers` begins the induction and
needs that the state has one version, since the reconciler compares only the version
of the metadata; this is why `UniformVersion` is part of the invariant and not an
afterthought. `FinishedInSync` ends it. `ProcessMoves`, `ProcessMovesQuietly` and
`ProcessExits` reduce a step of one process to what it does to itself and to the
file; there is one lemma per group of actions, and `Invariant` combines them.

The last two theorems assume `Alone`, that there is one terminal: with two they are
false, which `lost_update` shows. `AloneInv` then says that the file is still what the
command has loaded, and relates the memory to it: while the plan is executed it is
`OnTheWay` (no machine that stays was dropped, each has the role it was created
with), and when nothing is left to do it is the `Goal` of the store (`WayEnds`).
`SaveOpen` is the store's `Apply`, removals and writes that fail are its `Destroy`,
all else stutters. That `Apply` changes something (`PlansChange`) needs
`UniformVersion` once more: otherwise a plan could consist of upgrades that change
nothing.

### Fleet commands

`Fleet!FleetSpec`, for any fleet file, any names, any configurations and any number
of commands, applies, edits and lost states:

| theorem | states |
|---|---|
| `DiffIsTrue` | `[]DiffAgreesWithApply`: a fleet diff during which nothing changed says "in sync" exactly if no apply would change a machine or an addon |
| `StatusIsTrue` | `[]StatusTotalsTrue`: the totals of a fleet status during which nothing changed are those of the states of its clusters |

Assumed: configurations have finitely many hosts, and a plan and a configuration are
not the marker of one that does not load. As in the properties, the file names of the
fleet differ; for the status, they are those of the clusters too.

Both rest on what an apply leaves: `StatesWhole` (part of `FleetInv`) says that every
state that loads is of one version and of finitely many machines. `SyncedIsUnchanged`
is the reason why the diff is true: a plan with nothing to do is one whose goal has
the machines and addons of the state, for states of one version; it uses the lemmas
about `Reconciler` of the state commands, applied to the fleet's own copies of the
conversions (`SameConversions`). `DiffFits` and `StatusFits` say what the results and
the summaries so far are, as long as nothing has changed. `StatusCounts` counts the
summaries and the states and shows that no two summaries speak of one state.

### Engine and cluster init

`Pipeline!EngineSpec`, for any phases, any hooks and any number of runs:

| theorem | states |
|---|---|
| `PipelineHooks` | `[]HooksSeeEveryPhase`: a hook is called once per phase each of its calls applies to, in the order of the phases, and for nothing else |
| `PipelineCleanups` | `[]CleanupsUndoCompletedPhases`: exactly the completed phases that have a cleanup are cleaned up, once each, in reverse |

`ClusterInit!Spec`, for any hosts and any lists of nodes:

| theorem | states |
|---|---|
| `InitHooks`, `InitCleanups` | the two properties of the engine, of `init` |
| `InitCleansUp` | `[]NothingLeftBehind`: a run that failed once the bootstrap had begun leaves software only where an uninstall failed |
| `InitDisconnects` | `[]ConnectionsClosed`: a run that failed leaves no connection open, but to hosts that are listed twice |
| `InitSucceeds` | `[]SuccessMeansCluster`: a run that succeeded has a server on the first node, an odd control plane and the kubeconfig merged; if no host outside its configuration was set up before, every node is Ready and none is listed twice; if besides no host had another role before than its configuration gives it, every node is installed, whatever installers did nothing |

Assumed: the names of the phases differ (for `init` they are its four), and servers
come before agents in a list of nodes, as `config.Nodes` builds it.

The engine's properties speak of a run that has ended. Its invariant, `EngineInv`,
says for every place of `Execute` which calls of each kind have been made: those for
all phases before `k`, for `k` itself once its loop over the hooks is past, and for
the hook it is at. `MadeFor` states it as a count per hook and phase, `Ascending`
and `Descending` as an order; `HookCallsAdd` and `CallAdds` say what a step adds to
both. That the loop over the hooks makes one call each is an induction over the
number of hooks.

That every step of `init` is a step of the engine or none is only a lemma
(`StepIsEngineStep`): it follows from how the actions are written, and carries the two
properties of the engine over. The invariant of `init` needs of the engine only where it
is (`EngineBase`) and adds what the phases have done:

    InitInv == EngineBase /\ WorldTyped /\ SessionsFit /\ CleanFit /\ ReadyFits
                 /\ ClusterFits

`SessionsFit` says which hosts are in the executor's map wherever a run may be, and
that a host listed once has a connection exactly if it is in the map. `CleanFit` says
how far the rollback and the cleanup are: every node they have passed is gone, or its
removal has failed (`stuck`); it needs that the executor is there when they begin.
`ClusterFits` says what each phase that is over established. An installer that did
nothing is found by the count of Ready nodes alone, which the code compares with the
number of nodes: `ReadyFits` says that none is Ready before there is a server on the
first node, `HostsFit` that each Ready one has software and, without foreign hosts, is
of the configuration. Counting (`FiniteSetTheorems`) then leaves no host out; and where
a host had no other role before, its software is that of its node.

### Rolling upgrade

`RollingUpgrade!Spec`, for any machines in any order, any pods, versions, drain
options and distributions, and any number of runs and faults:

| theorem | states |
|---|---|
| `TypeCorrect` | `[]TypeOK` |
| `VersionsAlwaysFit` | `[]VersionsFit`: no worker's kubelet is newer than any API server, save one whose last upgrade had a script that did nothing; and no part of any node is newer than the part it depends on, without exception |
| `OnlyFailuresAreOut` | `[]OnlyFailuresStayOut`: a node that is cordoned or down is being upgraded or is where a run failed |
| `SuccessIsUpgraded` | `[]SuccessMeansUpgraded`: after a success no node is cordoned, and every part of every node runs at the version asked for, save nodes where a script of this run did nothing and agents of k3s that were not restarted |
| `ResultIsTrue` | `[]ResultTellsTheTruth`: it names the machines in the order of the upgrade, those it reports as upgraded are, with the same exceptions, and it counts right |
| `DrainedFirst` | `[]DrainedBeforeScripts`: while scripts run on a node it is cordoned, and without `Force` its plain pods have been told to end |

Assumed: the machines of a list have different names.

A script "did nothing" when it exited with 0 and left a state that is none of its
`Effects`. `VersionsFit` needs three things. *The order*: the list the upgrade goes
through has every machine once, the control plane before the workers
(`OrderOfUpgrade`). The code collects it in two passes over the caller's list, and the
proof is an induction over that list for each. *Where the run is*: every machine is in
one of the states its distribution can leave it in, not above `toVersion`
(`MachinesFit`); the machines before `i` are upgraded or `hollow`; and the one at `i`
has got as far as its scripts that ran can have brought it, unless one of them missed
its effect (`Reached`, `NodeFits`). *The workers*: none is above any control-plane
machine that is not `hollow` (`WorkersFit`), which a run keeps at its workers because it
has passed all of the control plane before. A machine that ceases to be `hollow` has an
API server of `toVersion`, which no worker is above. It also needs that `toVersion` never
falls, since a failed run leaves machines ahead. `PodsFit` follows the plain pods of a
node from the drain's list to their eviction.

### Node setup

`NodeSetup!Spec`, for any machines, versions and sequence of operations, all four
distributions, and any number of scripts that fail or exit with 0 and do nothing:

| theorem | states |
|---|---|
| `SetupInvariant` | `[]SetupInv`: the invariant below, for every distribution |
| `MachinesRunWhole` | `[]RunsWhole`: a machine that runs has a role and the tool that runs it, and no part newer than the one it depends on |
| `OperationsKeepPromises` | `[]PromisesKept`: what an operation whose scripts exited with 0 and had their effects achieved stays true until the next one on its machine; an uninstall that returned without an error has always removed what it is for |
| `WaitsEnd` | `[]WaitsEndInTime`: `WaitForAPI` ends less than two limits and a call after its timeout, however long calls take; `WaitForNodes` at most an interval after it, unless a call took more than half of one |
| `NoWaitGivesUpEarly` | `LooksUntilDeadline`: a wait that times out has looked not long before its timeout |

Neither of the two properties of machines is inductive: what a script makes of a machine depends on the
scripts before it and on where a failed attempt has left the machine. So `MachinesFit`
describes, for every distribution, the states in which a machine may be *between*
operations, whether the last one succeeded or not (`K3sFits`, `K0sFits`,
`KubeadmFits`, `TalosFits`), and `OperationFits` describes, script by script, what
the operation that is going on has established (`K3sAt`, `K0sAt`, `KubeadmAt`,
`TalosAt`). There is one lemma per command (what it makes of a machine that fits),
one per script, and one for the beginning of each operation (`InitBegun`, `JoinBegun`,
`UninstallBegun`, `UpgradeBegun`). A script that fails may have had its effect or not,
and one that exits with 0 too: each of these states must fit. Of an operation with a
script that missed its effect (`hollow`) the invariant keeps what does not depend on
that script, which is what the parts fitting together and a later uninstall rest on.

Assumed of the waits (`WaitsAssumption`): the interval and the first pause are positive,
and that pause is shorter than two limits (0.5 s and 10 s in the code). How long a call
takes is not limited. `WaitsEndInTime` is not inductive: how far the clock can get
depends on when the call or the pause that is going on began, and that on when the
ticker ticked last and whether a tick waits in its channel. `TimesFit` adds this, case by
case: a pause begins before the timeout; a call of `WaitForNodes` that begins after it,
while none has been `slow`, is the first that does, and no tick comes while it lasts, so
that the select after it finds the deadline and nothing else. After a slow call the
channel may hold the next tick at the same time, the select takes either, and there is no
bound: the wait then ends with probability 1 and not by a time (`WaitsReturn`).

### Cluster contents

`ClusterContents!Spec`, for any users, addons, resources, prefixes and times, and any
number of operations, failures and publications:

| theorem | states |
|---|---|
| `SnapshotsKept` | `[]SnapshotsStay`: the snapshot of a result is the cluster of its time |
| `StatesFit` | `[]StateFitsSnapshot`: so is the state beside it |
| `UninstallExplained` | `[]UninstallLeavesOnlyDropped` |

Assumed: no addon is both a manifest and a chart; a path is a prefix and a second.
All three rest on `OneAtATime`, that whoever is in an operation has the lock and is
alone. With it `BackupsFit` is inductive: it follows a backup from the moment it is
counted, when no earlier backup of its name is alone any more, over the snapshot,
with which its state must still agree while it is exported, to the result.
`AddonsFit` says that every resource, in the cluster or in a snapshot, is published
or was dropped; what an uninstall has fetched may be older than what is published
when it deletes, and still explains all that it leaves.

### Infrastructure providers

`InfraProvider!Spec`, for any clusters, lists of machines, services and faults:

| theorem | states |
|---|---|
| `MachinesAccounted` | `[]EveryMachineAccounted`: a machine of the service belongs to a caller, is being made, or was lost by a `Provision` that failed |
| `OrphansBlock` | `OrphansBlockRetry`: no `Provision` succeeds that wants a name of a machine that was lost |
| `DestroyedAll` | `DestroyIsAllOrNothing`: a `Destroy` succeeds only if every machine of the list was there and none is left |

Assumed: a list of machines is not empty and has the two roles of the code.
`EveryMachineAccounted` is one part of an invariant about ownership: the IDs that two
callers hold or make are disjoint, no two machines of the service share a name, those
a `Provision` has made are in the service under the names of its specs, and those a
`Destroy` has passed are not. A step changes one caller, so there is one lemma that
says what it must establish of that caller (`StepFits`), and one per action.

### Kubeconfig

`Kubeconfig!Spec`, for any inits, clusters, hosts and any file of the user that parses
and resolves:

| theorem | states |
|---|---|
| `KubeconfigTyped` | `[]TypeOK` |
| `FileResolves` | `[]ContextsResolve`: while no write is cut short and none overlap, every context of the file has its cluster and user |
| `MergedStayUsable` | `[]MergedClustersWork`: a cluster that every later merge saw can be used, with the host and credential of its last init |
| `OthersKept` | `MergeKeepsOthers`: a merge written whole keeps the entries of others it has read |

The file gets its content from what an init holds between its read and its write, so
the invariant says of that (`MergeFits`) what the properties say of the file: it
serves the cluster being merged and all the init has read, it resolves unless a write
was cut short, and it has the entries of others as they were read. `MergedClustersWork`
must be strengthened: it lets a context name any cluster and user, and a later merge
could replace those. `Serves` says that they have the cluster's own names, which only
its own merge replaces. The lemmas are about lists: what `Upsert` does to the first
entry of every name (`UpsertFacts`), and from it what a merge does (`MergeFacts`).

### Airgap bundles

`Airgap!Spec`, for any specs, calls and faults:

| theorem | states |
|---|---|
| `ManifestWhole` | `[]ManifestMeansWhole`: a directory with a manifest has all it lists, as the spec has it unless a newer bundle was being written there |
| `LoadedBundle` | `[]LoadedIsOneBundle`: a load that returned nil has installed every binary and image of one bundle |
| `ExtractedIsPacked` | `RoundTrip`: an extraction that succeeds restores what was packed |

Assumed: the lists of a spec are lists of strings, with at least one binary, and a
version is not the marker of a cut file. The invariant says of `Create` that every
file of its spec is written or still to be written, and the manifest last; of an
archive that it is a walk of a directory in which the manifest comes after
everything it lists, because the walk visits directories in the order of their names;
and of a load that every file is installed as it was extracted or still to be
installed. `mixed` is what it must know of a directory in which a call overwrites an
older bundle.

### What is only model-checked

- *Liveness*: `Terminates`, `InitReturns`, `UpgradeReturns`, `WaitsReturn`. Proofs
  about fairness need `ENABLED`, which the prover does not have.

*Induction.* The library's induction theorems have an operator as a parameter, which
the prover cannot instantiate. Induction over the natural numbers with a set in the
place of the predicate works and is used for the loops (`NatInductionOnSets`, from
the theorem that `<` is well-founded): the order of an upgrade, the calls of the
hooks. A loop over one entry (`UpsertedOne`) needs none. No module uses a `RECURSIVE`
operator; loops are recursive functions.

## Findings

Two statements of the documentation do not hold of the code; each has a run that
shows it.

1. `lost_update`. README.md:25 announces "Persistent state with locking". No command
   calls `Lock`, and the local backend's locks live in the memory of one process.
   Two applies at once both succeed and one record is lost.
2. `cluster_init_again`. docs/architecture.md:9 announces "rollback on failure". The
   rollback uninstalls every node of the configuration, also those it found
   installed. In the run a first `init` succeeds, the second fails at its join, and both
   nodes are uninstalled, although no uninstall failed: the cluster that was up is gone.

Observed while modelling; the models contain the behaviour and the properties are
stated accordingly:

- A save that is cut short leaves a file that does not parse, and the next `apply`
  takes the cluster for a new one (`pkg/state/local/local.go:53`,
  `cmd/ironkube/cli/apply.go:45`).
- A change of a machine's role alone plans nothing: machines are compared by host
  (`pkg/engine/reconciler.go:74`).
- An upgrade is planned for machines that the same plan deletes; executing it does
  nothing.
- Hosts listed twice pass validation, leak one connection and can never succeed. On
  hosts that still belong to another cluster, `init` counts that cluster's nodes as
  its own.
- `fleet upgrade` reports success without executing anything, with or without
  `--dry-run` (`pkg/fleet/operations.go:133`; `cmd/ironkube/cli/fleet.go:160`
  describes it as an upgrade).
- Two clusters in `prod/cluster.yaml` and `dev/cluster.yaml` share one entry of a
  fleet diff, and status looks clusters up by file name where diff takes the
  metadata's.
- README.md:240 shows `kind: FleetConfig`; `LoadFleetConfig` accepts only `Fleet`
  (`pkg/fleet/inventory.go:48`).
- Machine names do not contain the cluster's name, and a `Provision` that fails
  leaves machines whose names then block every retry; a `Destroy` that failed half
  way fails for ever.
- `CreateArchive` drops the errors of closing the archive; extraction finds the
  damage.
- `Create` accepts image names with a slash, which `LoadBundle` refuses after it has
  installed the binaries. A bundle made or unpacked over an older one and
  interrupted leaves the old manifest beside new files.
- A kubeconfig merge drops fields of other entries that its structs do not know.
- `RollingUpgrade` never reads `MaxUnavailable` (README.md:98 configures it): a run
  after a failed one drains the first node beside the one that is still out.
- The installers of k3s and the download of k0s are piped from `curl` into a shell
  without `pipefail` (`pkg/providers/bootstrap/k3s/k3s.go:61`, 97, 124, 168;
  `pkg/providers/bootstrap/k0s/k0s.go:71`, 113, 152, 208; `pkg/distro/k3s/k3s.go:36`, 48,
  68): when the download fails the script exits with 0 and has done nothing. `init`
  finds this out only by the number of Ready nodes, so that one of a host outside the
  configuration can hide it. A rolling upgrade does not find it out: it reports the node
  as upgraded, and when that is a control plane the workers get ahead of its API server.
- The upgrade scripts do not depend on the role. The installer of k3s, told none, starts
  a server beside the agent of a worker, and the agent may run the old program until it
  is restarted. `kubeadm upgrade apply` fails on workers, so that a rolling upgrade with
  kubeadm stops at the first worker.
- kubeadm's init holds its packages, and neither its upgrade nor its uninstall releases
  them: until somebody does by hand, an upgrade to another version and the removal of
  the packages fail. Of the five lines that install them only the status of the last one
  counts (`pkg/providers/bootstrap/kubeadm/kubeadm.go:56`).
- `WaitForNodes` has no bound on its overrun when a call takes more than half its
  interval of 5 s: a tick then waits beside the deadline, the select takes either
  (`pkg/k8s/nodes.go:80`), and no call has a timeout.
- k0s controllers run no kubelet unless the first is set up with `HAEnabled`, and the
  joined ones never do: they are no nodes, and a rolling upgrade over them fails at
  the drain. A k0s upgrade of the only control plane that fails between stop and
  start leaves the API server down, so that every retry fails at the drain as well.
- Uninstalling k0s leaves its program and files; the talos provider ignores the
  version of the cluster, and its joins need the files of its init beside them.
- Nothing reads `WaitCheck`; its pattern `Ready` would match `NotReady`.
- Two backups with one prefix in the same second overwrite each other. A state export
  that fails leaves its snapshot and returns no result. `Restore` does not restore
  the state.
- The uninstall of a manifest deletes what the URL serves now, and leaves what it
  served before.
- An unlock function that is called twice deletes the lock of whoever took it in
  between (`pkg/state/local/local.go:91`); the model calls it once.

## Limits of the models

- *Pods.* `SchedulePod` binds a pod in the step that sees the node is not cordoned; a
  real scheduler may bind one whose node it chose before the cordon.
- *Names of backups* are made of local time without a zone, so that an hour of names
  comes twice when clocks go back: a backup of the model may have the name of any second
  at any time. The properties exclude backups whose name was used again.
- *Data.* Scripts are what they install, upgrade or remove; addresses, labels,
  images, networks, timestamps and messages are left out, as is the order inside
  lists where the code builds maps of them.
- *Time.* There is a clock in `Waits`; elsewhere a deadline is a step that may happen,
  and the second in which a backup begins is any.
- *Fleet* treats an apply as one step; `ApplyState` has its parts.
- *Airgap* calls do not overlap.
- *Type invariants* of `RollingUpgrade`, `Waits`, `ClusterContents`, `Pipeline` and
  others are defined as documentation of their variables and are not among the runs'
  properties, which ask more.

Not modelled: `RunOnAll` and `RunOnHosts` of the executor (nothing calls them); the
ssh provider (copies a list); etcd's `Health`, `Defrag` and `Compact` and the
certificate operations (single remote commands or a few, without state between
them); the health report and the `Status` of addons (parse one answer); security
profiles and the registry of distributions (tables); flags, addresses and tokens in
the scripts; commands that only print.

## Plan

Done so far: the models of all parts that have state of their own; the proofs of the
safety properties of all of them: state commands, fleet, engine, init, upgrade, node
setup, waits, cluster contents, infrastructure providers, kubeconfig and airgap. Next:

1. `RemoteExecutor`: `RunOnHosts` with a goroutine per host, for when a command calls
   it.
2. `init` and the kubeconfig merge composed, so that concurrent inits share hosts and
   file.

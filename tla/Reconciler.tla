----------------------------- MODULE Reconciler -----------------------------
(***************************************************************************)
(* The reconciler of pkg/engine and the operators of the cluster state of  *)
(* pkg/state: what the configuration asks for (configToDesired), what the  *)
(* state file records (ClusterState), and the plan that leads from one to  *)
(* the other (Reconcile).                                                  *)
(*                                                                         *)
(* A plan of the code is a list; the three sections of reconcileMachines,  *)
(* the one of reconcileVersion and the two of reconcileAddons come in a    *)
(* fixed order, but inside a section the order is that of a Go map, which  *)
(* is random.  A plan is therefore a record of sets, one per kind of       *)
(* action, and Stage says which kinds are executed before which.           *)
(***************************************************************************)
EXTENDS Naturals, Sequences

CONSTANTS Hosts,            \* host addresses, the key of a machine
          AddonNames,       \* addon names
          AddonVersions,    \* addon versions
          ClusterVersions,  \* Kubernetes versions
          NoVersion,        \* the empty version string
          Configs,          \* the configurations commands are run with
          Absent,           \* no state file
          Garbage           \* a state file that does not parse

ASSUME NoVersionAssumption == NoVersion \notin ClusterVersions

PartialFcns(D, R) == UNION {[S -> R] : S \in SUBSET D}

Roles == {"control-plane", "worker"}

(***************************************************************************)
(* The configuration file: the control-plane nodes, the nodes of all the   *)
(* worker pools (a host may be listed as both), the addons by name and the *)
(* version, which v1alpha2.Validate requires.                              *)
(***************************************************************************)
ClusterConfigs ==
  [cp      : SUBSET Hosts,
   workers : SUBSET Hosts,
   addons  : PartialFcns(AddonNames, [enabled : BOOLEAN, version : AddonVersions]),
   version : ClusterVersions]

DesiredStates ==
  [machines : PartialFcns(Hosts, Roles),
   addons   : PartialFcns(AddonNames, AddonVersions),
   version  : ClusterVersions \cup {NoVersion}]

MachineStates == [role : Roles, version : ClusterVersions]
AddonStates   == [version : AddonVersions, installed : BOOLEAN]

\* An operation of the history is identified by the version it records.
ClusterStates ==
  [machines : PartialFcns(Hosts, MachineStates),
   addons   : PartialFcns(AddonNames, AddonStates),
   version  : ClusterVersions \cup {NoVersion},
   last     : ClusterVersions \cup {NoVersion},
   history  : Seq(ClusterVersions)]

ASSUME ConfigsAssumption == Configs \subseteq ClusterConfigs
ASSUME NullsAssumption == {Absent, Garbage} \cap ClusterStates = {} /\ Absent # Garbage

EmptyFcn == [x \in {} |-> x]

\* The state a command starts from when the file cannot be loaded.
FreshState ==
  [machines |-> EmptyFcn, addons |-> EmptyFcn, version |-> NoVersion,
   last |-> NoVersion, history |-> << >>]

-----------------------------------------------------------------------------
(* cmd/ironkube/cli/apply.go, configToDesired: workers are appended after  *)
(* the control plane, so reconcileMachines keeps the worker entry of a     *)
(* host listed twice; disabled addons are dropped.                         *)

EnabledAddons(c) == {a \in DOMAIN c.addons : c.addons[a].enabled}

configToDesired(c) ==
  [machines |-> [h \in c.cp \cup c.workers |->
                   IF h \in c.workers THEN "worker" ELSE "control-plane"],
   addons   |-> [a \in EnabledAddons(c) |-> c.addons[a].version],
   version  |-> c.version]

-----------------------------------------------------------------------------
(* pkg/engine/reconciler.go: desired state d against recorded state s.     *)

MissingHosts(d, s) == DOMAIN d.machines \ DOMAIN s.machines
ExtraHosts(d, s)   == DOMAIN s.machines \ DOMAIN d.machines

\* Mutant: only the machines that are not there yet are upgraded.
reconcileVersionDesired(d, s) ==
  IF d.version \in {NoVersion, s.version} THEN {} ELSE MissingHosts(d, s)

\* Every recorded machine is upgraded, one about to be deleted included.
reconcileVersion(d, s) ==
  IF d.version \in {NoVersion, s.version} THEN {} ELSE DOMAIN s.machines

AddonsToInstall(d, s) ==
  {a \in DOMAIN d.addons : a \notin DOMAIN s.addons \/ ~s.addons[a].installed}

AddonsToUpgrade(d, s) ==
  {a \in DOMAIN d.addons \ AddonsToInstall(d, s) :
     s.addons[a].version # d.addons[a]}

AddonsToRemove(d, s) == DOMAIN s.addons \ DOMAIN d.addons

PlanKinds == {"create", "delete", "upgrade", "install", "upgradeAddon", "remove"}

Plans == [create : SUBSET Hosts, delete : SUBSET Hosts, upgrade : SUBSET Hosts,
          install : SUBSET AddonNames, upgradeAddon : SUBSET AddonNames,
          remove : SUBSET AddonNames]

Reconcile(d, s) ==
  [create       |-> MissingHosts(d, s),
   delete       |-> ExtraHosts(d, s),
   upgrade      |-> reconcileVersion(d, s),
   install      |-> AddonsToInstall(d, s),
   upgradeAddon |-> AddonsToUpgrade(d, s),
   remove       |-> AddonsToRemove(d, s)]

EmptyPlan == [create |-> {}, delete |-> {}, upgrade |-> {},
              install |-> {}, upgradeAddon |-> {}, remove |-> {}]

InSync(plan) == plan = EmptyPlan

\* The section of the action list a kind belongs to; the install and upgrade
\* actions of addons come from one loop and interleave.
Stage == [create |-> 1, delete |-> 2, upgrade |-> 3,
          install |-> 4, upgradeAddon |-> 4, remove |-> 5]

\* Every action of an earlier section has been executed.
ReachedStage(plan, k) ==
  \A j \in PlanKinds : Stage[j] < Stage[k] => plan[j] = {}

-----------------------------------------------------------------------------
(* pkg/state/types.go and the switch of apply.go: what one executed action *)
(* does to the in-memory ClusterState s.                                   *)

SetEntry(f, x, v) == [y \in DOMAIN f \cup {x} |-> IF y = x THEN v ELSE f[y]]
DropEntry(f, x)   == [y \in DOMAIN f \ {x} |-> f[y]]

\* Mutant: the version of a new machine is not recorded.
SetMachineNoVersion(s, d, h) ==
  [s EXCEPT !.machines = SetEntry(@, h, [role |-> d.machines[h], version |-> NoVersion])]

SetMachine(s, d, h) ==
  [s EXCEPT !.machines = SetEntry(@, h, [role |-> d.machines[h], version |-> d.version])]

DeleteMachine(s, h) == [s EXCEPT !.machines = DropEntry(@, h)]

\* Mutant: the machine is put back if it is no longer there.
UpgradeMachineUnguarded(s, d, h) ==
  [s EXCEPT !.machines = SetEntry(@, h, [role |-> "control-plane", version |-> d.version])]

UpgradeMachine(s, d, h) ==
  IF h \in DOMAIN s.machines
    THEN [s EXCEPT !.machines[h].version = d.version]
    ELSE s

\* Mutant: an addon keeps the version it was installed with.
SetAddonKeepsVersion(s, d, a) ==
  [s EXCEPT !.addons = SetEntry(@, a,
     [version |-> IF a \in DOMAIN s.addons THEN s.addons[a].version ELSE d.addons[a],
      installed |-> TRUE])]

SetAddon(s, d, a) ==
  [s EXCEPT !.addons = SetEntry(@, a, [version |-> d.addons[a], installed |-> TRUE])]

RemoveAddon(s, a) == [s EXCEPT !.addons = DropEntry(@, a)]

\* Mutant: LastOperation is not updated.
RecordOperationHistoryOnly(s, v) ==
  [s EXCEPT !.version = v, !.history = Append(@, v)]

\* The metadata version and the operation record written after the loop.
RecordOperation(s, v) ==
  [s EXCEPT !.version = v, !.last = v, !.history = Append(@, v)]

-----------------------------------------------------------------------------
(* What an apply should lead to, and what a state should look like, for    *)
(* the properties.                                                         *)

\* The state configuration c leads to from state s, in closed form: the hosts
\* of the configuration and only these, all at its version; a machine that
\* was there keeps the role it was created with; the enabled addons at the
\* version asked for; one operation more in the history.
Goal(c, s) ==
  LET d == configToDesired(c) IN
  [machines |-> [h \in DOMAIN d.machines |->
                   [role    |-> IF h \in DOMAIN s.machines
                                  THEN s.machines[h].role ELSE d.machines[h],
                    version |-> c.version]],
   addons   |-> [a \in DOMAIN d.addons |->
                   [version |-> d.addons[a], installed |-> TRUE]],
   version  |-> c.version,
   last     |-> c.version,
   history  |-> Append(s.history, c.version)]

SameResources(s, t) == s.machines = t.machines /\ s.addons = t.addons

\* All the machines are at the version of the metadata.
SameVersion(s) == \A h \in DOMAIN s.machines : s.machines[h].version = s.version

\* The last operation is the last of the history, and set the version.
LastAgrees(s) ==
  /\ s.history # << >>
  /\ s.last = s.history[Len(s.history)]
  /\ s.version = s.last

\* The plan q holds exactly the differences between d and s.
Covers(d, s, q) ==
  /\ q.create = MissingHosts(d, s)
  /\ q.delete = ExtraHosts(d, s)
  /\ q.install = AddonsToInstall(d, s)
  /\ q.upgradeAddon = AddonsToUpgrade(d, s)
  /\ q.remove = AddonsToRemove(d, s)
  /\ \A h \in DOMAIN s.machines :
       s.machines[h].version = d.version \/ h \in q.upgrade
=============================================================================

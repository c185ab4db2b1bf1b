-------------------------------- MODULE Fleet --------------------------------
(***************************************************************************)
(* The fleet commands (pkg/fleet, cmd/ironkube/cli/fleet.go): status, diff *)
(* and upgrade go through the clusters of a fleet file one after the other *)
(* and read the configuration and the state of each, while the clusters    *)
(* are applied, deleted and edited by others.                              *)
(*                                                                         *)
(* An apply is one step here, to the goal of its configuration; ApplyState *)
(* has its parts.  A cluster has two names: status and upgrade take that   *)
(* of its configuration file, diff and the other commands that in its      *)
(* metadata.                                                               *)
(***************************************************************************)
EXTENDS Reconciler, FiniteSets, Sequences

CONSTANTS Fleets,      \* fleet files: sequences of paths of configurations
          BaseName,    \* the file name of each path, without its extension
          MetaName,    \* the name in the metadata of each configuration
          Unreadable,  \* a configuration that does not load
          MaxChanges,  \* bound: changes of configurations and states
          CanCancel    \* the caller's context may be cancelled

Paths == DOMAIN BaseName
Loads(s) == s \notin {Absent, Garbage}

ASSUME FleetsAssumption == Fleets \subseteq Seq(Paths) /\ << >> \notin Fleets
ASSUME MetaNameAssumption == DOMAIN MetaName = Paths
ASSUME ChangesAssumption == MaxChanges \in Nat /\ CanCancel \in BOOLEAN
\* Configurations are finite, and a plan or a configuration is not an error.
ASSUME FilesAssumption ==
  /\ \A c \in Configs : IsFiniteSet(c.cp) /\ IsFiniteSet(c.workers)
  /\ Unreadable \notin Configs \cup {EmptyPlan}

VARIABLES
  fleet,      \* the fleet file
  config,     \* the configuration file at each path
  files,      \* the state file of each name
  cmd,        \* the fleet command: what it is, where, and its result so far
  cancelled,  \* its context is done
  changes,
  changed     \* observes: something has changed since the command began

fleetVars == <<fleet, config, files, cmd, cancelled, changes, changed>>

Refs == {fleet[j] : j \in DOMAIN fleet}
Names == {BaseName[r] : r \in Refs} \cup {MetaName[r] : r \in Refs}

\* v1alpha2.Load reads and parses the file, and what it says is valid.
Readable(c) == c # Unreadable

\* cfgToDesired and stToActual, the fleet's own copies of configToDesired and
\* stateToActual of the apply command.
cfgToDesired(c) ==
  [machines |-> [h \in c.cp \cup c.workers |->
                   IF h \in c.cp \ c.workers THEN "control-plane" ELSE "worker"],
   addons   |-> [a \in {b \in DOMAIN c.addons : c.addons[b].enabled} |->
                   c.addons[a].version],
   version  |-> c.version]
stToActual(s) == [machines |-> s.machines, addons |-> s.addons, version |-> s.version]

\* The state an apply of the configuration c leads to, and where it starts.
BaseState(n) == IF Loads(files[n]) THEN files[n] ELSE FreshState
Applied(c, n) == [Goal(c, BaseState(n)) EXCEPT !.history = <<c.version>>]

Idle == [op |-> "none", i |-> 1, cfg |-> Unreadable, to |-> NoVersion, dryRun |-> FALSE,
         list |-> << >>, results |-> EmptyFcn, outcome |-> "none"]

FleetInit ==
  /\ fleet \in Fleets
  /\ config \in [Refs -> Configs]
  /\ files = [n \in Names |-> Absent]
  /\ cmd = Idle
  /\ cancelled = FALSE
  /\ changes = 0 /\ changed = FALSE

\* The reference the command is at.
ref == fleet[cmd.i]
AtRef(op) == cmd.op = op /\ cmd.i <= Len(fleet) /\ ~cancelled

World == <<fleet, config, files, cancelled, changes, changed>>

-----------------------------------------------------------------------------
(* The commands.                                                           *)

Begin(command) ==
  /\ cmd.op = "none"
  /\ cmd.outcome = "none"
  /\ cmd' = command
  /\ changed' = FALSE
  /\ UNCHANGED <<fleet, config, files, cancelled, changes>>

CallStatus == Begin([Idle EXCEPT !.op = "status"])
CallDiff == Begin([Idle EXCEPT !.op = "diff"])
CallUpgrade ==
  \E v \in ClusterVersions, dry \in BOOLEAN :
    Begin([Idle EXCEPT !.op = "upgrade", !.to = v, !.dryRun = dry])

\* The head of the three loops: a context that is done ends the command with
\* what it has.
ContextDone ==
  /\ cmd.op \in {"status", "diff", "upgrade"}
  /\ cmd.i <= Len(fleet)
  /\ cancelled
  /\ cmd' = [cmd EXCEPT !.op = "none", !.outcome = "cancelled"]
  /\ UNCHANGED World

\* Inventory.Collect: one summary.  A state that does not load is noted.
CollectOne ==
  /\ AtRef("status")
  /\ cmd' = [cmd EXCEPT !.i = @ + 1,
       !.list = Append(@, [name |-> BaseName[ref], state |-> files[BaseName[ref]]])]
  /\ UNCHANGED World

\* DiffAll loads the configuration, then the state.
DiffConfig ==
  /\ AtRef("diff")
  /\ cmd' = IF Readable(config[ref])
              THEN [cmd EXCEPT !.op = "diffState", !.cfg = config[ref]]
              ELSE [cmd EXCEPT !.i = @ + 1,
                               !.results = SetEntry(@, BaseName[ref], Unreadable)]
  /\ UNCHANGED World

\* Mutant: the state is looked up by the name of the file, as elsewhere.
DiffStateByFileName ==
  /\ cmd.op = "diffState"
  /\ cmd' = [cmd EXCEPT !.op = "diff", !.i = @ + 1, !.cfg = Unreadable,
       !.results = SetEntry(@, BaseName[ref],
          Reconcile(cfgToDesired(cmd.cfg), stToActual(BaseState(BaseName[ref]))))]
  /\ UNCHANGED World

\* The result is filed under the name of the file; a second cluster of that
\* name takes the place of the first.
DiffState ==
  /\ cmd.op = "diffState"
  /\ cmd' = [cmd EXCEPT !.op = "diff", !.i = @ + 1, !.cfg = Unreadable,
       !.results = SetEntry(@, BaseName[ref],
          Reconcile(cfgToDesired(cmd.cfg), stToActual(BaseState(MetaName[ref]))))]
  /\ UNCHANGED World

\* The machines an upgrade of the fleet plans to upgrade.
OtherVersion(s, v) == {h \in DOMAIN s.machines : s.machines[h].version # v}

\* UpgradeAll plans the upgrade of one cluster, and reports success with or
\* without DryRun: it executes nothing.
UpgradeOne ==
  /\ AtRef("upgrade")
  /\ LET s == files[BaseName[ref]] IN
       cmd' = [cmd EXCEPT !.i = @ + 1, !.list =
                 Append(@, [name |-> BaseName[ref], success |-> Loads(s),
                            actions |-> IF Loads(s) THEN OtherVersion(s, cmd.to) ELSE {}])]
  /\ UNCHANGED World

EndCommand ==
  /\ cmd.op \in {"status", "diff", "upgrade"}
  /\ cmd.i > Len(fleet)
  /\ cmd' = [cmd EXCEPT !.outcome = cmd.op, !.op = "none"]
  /\ UNCHANGED World

\* The result has been printed.
Printed ==
  /\ cmd.op = "none" /\ cmd.outcome # "none"
  /\ cmd' = Idle
  /\ cancelled' = FALSE
  /\ UNCHANGED <<fleet, config, files, changes, changed>>

-----------------------------------------------------------------------------
(* What is printed.                                                        *)

\* One for each machine of each of the summaries at the places js.
MachineCount(summaries, js) ==
  Cardinality(UNION {{j} \X DOMAIN summaries[j].state.machines : j \in js})

\* Mutant: a cluster whose state does not load counts as available.
SummaryCountsAll(summaries) ==
  LET loaded == {j \in DOMAIN summaries : Loads(summaries[j].state)} IN
  [clusters  |-> Len(summaries),
   available |-> Len(summaries),
   machines  |-> MachineCount(summaries, loaded),
   versions  |-> [v \in ClusterVersions |->
     Cardinality({j \in loaded : summaries[j].state.version = v})]]

Summary(summaries) ==
  LET available == {j \in DOMAIN summaries : Loads(summaries[j].state)} IN
  [clusters  |-> Len(summaries),
   available |-> Cardinality(available),
   machines  |-> MachineCount(summaries, available),
   versions  |-> [v \in ClusterVersions |->
     Cardinality({j \in available : summaries[j].state.version = v})]]

\* `All clusters are in sync.'
AllInSync(results) ==
  \A n \in DOMAIN results : results[n] # Unreadable /\ InSync(results[n])

-----------------------------------------------------------------------------
(* Everybody else.                                                         *)

Change ==
  /\ changes < MaxChanges
  /\ changes' = changes + 1
  /\ changed' = TRUE
  /\ UNCHANGED <<fleet, cmd, cancelled>>

\* `ironkube apply' of a configuration.
Apply(r) ==
  /\ Readable(config[r])
  /\ files' = [files EXCEPT ![MetaName[r]] = Applied(config[r], MetaName[r])]
  /\ UNCHANGED config
  /\ Change

\* `ironkube destroy' or `state delete', and a save that was cut short.
LoseState(n) ==
  /\ files[n] # Absent
  /\ files' \in {[files EXCEPT ![n] = Absent], [files EXCEPT ![n] = Garbage]}
  /\ UNCHANGED config
  /\ Change

EditConfig(r) ==
  /\ \E c \in Configs \cup {Unreadable} : config' = [config EXCEPT ![r] = c]
  /\ UNCHANGED files
  /\ Change

Cancel ==
  /\ CanCancel
  /\ cmd.op # "none"
  /\ cancelled' = TRUE
  /\ UNCHANGED <<fleet, config, files, cmd, changes, changed>>

FleetNext ==
  \/ CallStatus \/ CallDiff \/ CallUpgrade
  \/ ContextDone \/ CollectOne \/ DiffConfig \/ DiffState \/ UpgradeOne \/ EndCommand
  \/ Printed
  \/ \E r \in Refs : Apply(r) \/ EditConfig(r)
  \/ \E n \in Names : LoseState(n)
  \/ Cancel

FleetSpec == FleetInit /\ [][FleetNext]_fleetVars

-----------------------------------------------------------------------------
(* Properties.                                                             *)

\* No two references have the same file name.
Distinct == \A j, k \in DOMAIN fleet : BaseName[fleet[j]] = BaseName[fleet[k]] => j = k
\* The files are named for the clusters.
NamesAgree == \A r \in Refs : BaseName[r] = MetaName[r]

\* A fleet diff says that all is in sync exactly if no apply of the fleet's
\* configurations would change a machine or an addon; for references with
\* different file names, and when nothing changed while it ran.
DiffAgreesWithApply ==
  cmd.outcome = "diff" /\ Distinct /\ ~changed =>
    (AllInSync(cmd.results) <=>
       \A r \in Refs :
         /\ Readable(config[r])
         /\ SameResources(Applied(config[r], MetaName[r]), BaseState(MetaName[r])))

\* Fleet status and fleet diff look at the same clusters when the files are
\* named for them: the totals are those of the states that applies left, and
\* a cluster is counted at the version that all its machines have.
StatusTotalsTrue ==
  cmd.outcome = "status" /\ Distinct /\ NamesAgree /\ ~changed =>
    LET sum == Summary(cmd.list)
        states == {n \in {MetaName[r] : r \in Refs} : Loads(files[n])}
    IN
    /\ sum.clusters = Cardinality(Refs) /\ sum.available = Cardinality(states)
    /\ sum.machines = Cardinality(UNION {{n} \X DOMAIN files[n].machines : n \in states})
    /\ \A v \in ClusterVersions :
         sum.versions[v] =
           Cardinality({n \in states : files[n].version = v
                          /\ \A h \in DOMAIN files[n].machines : files[n].machines[h].version = v})
=============================================================================

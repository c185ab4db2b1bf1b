----------------------------- MODULE ApplyState -----------------------------
(***************************************************************************)
(* The commands that share a cluster's state file: apply, apply --dry-run  *)
(* and diff, destroy and state delete (cmd/ironkube/cli), over the local   *)
(* backend (pkg/state/local).  Each element of Procs is a terminal from    *)
(* which commands are run one after the other; two terminals run commands  *)
(* at the same time, for no command takes the backend's lock.              *)
(*                                                                         *)
(* Save is os.WriteFile: it truncates (or creates) the file and then       *)
(* writes it, so that a crash, a failed write, or another command can come *)
(* in between.  A process may also lose the inode it has open when another *)
(* removes the file.                                                       *)
(***************************************************************************)
EXTENDS Reconciler, FiniteSets

CONSTANTS Procs,      \* terminals
          Kinds,      \* the commands that are run
          MaxRuns,    \* bound: commands started in a behaviour
          MaxFaults,  \* bound: crashes and failed saves in a behaviour
          Empty,      \* the state file was truncated
          NoConfig    \* not running

ASSUME KindsAssumption == Kinds \subseteq {"apply", "diff", "destroy", "delete"}
ASSUME BoundsAssumption == MaxRuns \in Nat /\ MaxFaults \in Nat
ASSUME MarkersAssumption ==
  /\ Empty \notin ClusterStates \cup {Absent, Garbage}
  /\ NoConfig \notin ClusterConfigs

VARIABLES
  file,     \* the state file <cluster>.json
  pc,       \* where each process is
  kind,     \* the command it runs
  cfg,      \* its configuration
  mem,      \* the ClusterState it has in memory
  plan,     \* the actions it has still to execute
  fdLive,   \* it has the file open, and the file has not been removed since
  runs,     \* commands started so far
  faults,   \* faults so far
  \* The next two only observe.
  saves,    \* saves that reported success since the file was last removed
  saved     \* configuration whose state the file holds when it holds one

vars == <<file, pc, kind, cfg, mem, plan, fdLive, runs, faults, saves, saved>>

FileValues == ClusterStates \cup {Absent, Empty, Garbage}
HoldsState(f) == f \notin {Absent, Empty, Garbage}

Desired(p) == configToDesired(cfg[p])

TypeOK ==
  /\ file \in FileValues
  /\ pc \in [Procs -> {"idle", "start", "planned", "exec", "save", "write", "remove"}]
  /\ kind \in [Procs -> {"apply", "diff", "destroy", "delete"}]
  /\ cfg \in [Procs -> Configs \cup {NoConfig}]
  /\ mem \in [Procs -> ClusterStates]
  /\ plan \in [Procs -> Plans]
  /\ fdLive \in [Procs -> BOOLEAN]
  /\ runs \in 0 .. MaxRuns
  /\ faults \in 0 .. MaxFaults
  /\ saves \in Nat
  /\ saved \in Configs \cup {NoConfig}
  /\ \A p \in Procs : pc[p] # "idle" => cfg[p] \in Configs

Init ==
  /\ file = Absent
  /\ pc = [p \in Procs |-> "idle"]
  /\ kind = [p \in Procs |-> "diff"]
  /\ cfg = [p \in Procs |-> NoConfig]
  /\ mem = [p \in Procs |-> FreshState]
  /\ plan = [p \in Procs |-> EmptyPlan]
  /\ fdLive = [p \in Procs |-> FALSE]
  /\ runs = 0
  /\ faults = 0
  /\ saves = 0
  /\ saved = NoConfig

\* The command of p ends: its memory is gone.
Exit(p) ==
  /\ pc' = [pc EXCEPT ![p] = "idle"]
  /\ kind' = [kind EXCEPT ![p] = "diff"]
  /\ cfg' = [cfg EXCEPT ![p] = NoConfig]
  /\ mem' = [mem EXCEPT ![p] = FreshState]
  /\ plan' = [plan EXCEPT ![p] = EmptyPlan]

Goto(p, label) == pc' = [pc EXCEPT ![p] = label]

-----------------------------------------------------------------------------
(* Starting a command, and what it reads.                                  *)

Start(p, k, c) ==
  /\ pc[p] = "idle"
  /\ runs < MaxRuns
  /\ runs' = runs + 1
  /\ Goto(p, "start")
  /\ kind' = [kind EXCEPT ![p] = k]
  /\ cfg' = [cfg EXCEPT ![p] = c]
  /\ UNCHANGED <<file, mem, plan, fdLive, faults, saves, saved>>

\* Mutant: the state that was loaded is thrown away.
LoadOrFreshAlwaysFresh(f) == FreshState

\* LocalBackend.Load, and the fallback of apply and diff: any error, a file
\* that does not parse included, stands for "no cluster yet".
LoadOrFresh(f) == IF HoldsState(f) THEN f ELSE FreshState

\* apply and diff: load the state and reconcile it with the configuration.
LoadAndPlan(p) ==
  /\ pc[p] = "start"
  /\ kind[p] \in {"apply", "diff"}
  /\ mem' = [mem EXCEPT ![p] = LoadOrFresh(file)]
  /\ plan' = [plan EXCEPT ![p] = Reconcile(Desired(p), LoadOrFresh(file))]
  /\ Goto(p, "planned")
  /\ UNCHANGED <<file, kind, cfg, fdLive, runs, faults, saves, saved>>

\* Nothing to do, or only asked to show the plan.
ReportAndExit(p) ==
  /\ pc[p] = "planned"
  /\ InSync(plan[p]) \/ kind[p] = "diff"
  /\ Exit(p)
  /\ UNCHANGED <<file, fdLive, runs, faults, saves, saved>>

BeginExecution(p) ==
  /\ pc[p] = "planned"
  /\ ~InSync(plan[p])
  /\ kind[p] = "apply"
  /\ Goto(p, "exec")
  /\ UNCHANGED <<file, kind, cfg, mem, plan, fdLive, runs, faults, saves, saved>>

-----------------------------------------------------------------------------
(* The loop over the actions of the plan: one action of kind k is taken    *)
(* off the plan, leaving rest, and turns the in-memory state into s.       *)

Execute(p, k, rest, s) ==
  /\ pc[p] = "exec"
  /\ ReachedStage(plan[p], k)
  /\ mem' = [mem EXCEPT ![p] = s]
  /\ plan' = [plan EXCEPT ![p] = rest]
  /\ UNCHANGED <<file, pc, kind, cfg, fdLive, runs, faults, saves, saved>>

ExecCreate(p) ==
  \E h \in plan[p].create :
    Execute(p, "create", [plan[p] EXCEPT !.create = @ \ {h}],
            SetMachine(mem[p], Desired(p), h))

ExecDelete(p) ==
  \E h \in plan[p].delete :
    Execute(p, "delete", [plan[p] EXCEPT !.delete = @ \ {h}],
            DeleteMachine(mem[p], h))

\* Mutant: the upgrade of a machine that is not there is tried again.
ExecUpgradeWaits(p) ==
  \E h \in plan[p].upgrade :
    Execute(p, "upgrade",
            [plan[p] EXCEPT !.upgrade = IF h \in DOMAIN mem[p].machines THEN @ \ {h} ELSE @],
            UpgradeMachine(mem[p], Desired(p), h))

ExecUpgrade(p) ==
  \E h \in plan[p].upgrade :
    Execute(p, "upgrade", [plan[p] EXCEPT !.upgrade = @ \ {h}],
            UpgradeMachine(mem[p], Desired(p), h))

ExecInstall(p) ==
  \E a \in plan[p].install :
    Execute(p, "install", [plan[p] EXCEPT !.install = @ \ {a}],
            SetAddon(mem[p], Desired(p), a))

ExecUpgradeAddon(p) ==
  \E a \in plan[p].upgradeAddon :
    Execute(p, "upgradeAddon", [plan[p] EXCEPT !.upgradeAddon = @ \ {a}],
            SetAddon(mem[p], Desired(p), a))

ExecRemove(p) ==
  \E a \in plan[p].remove :
    Execute(p, "remove", [plan[p] EXCEPT !.remove = @ \ {a}],
            RemoveAddon(mem[p], a))

EndExecution(p) ==
  /\ pc[p] = "exec"
  /\ InSync(plan[p])
  /\ mem' = [mem EXCEPT ![p] = RecordOperation(@, cfg[p].version)]
  /\ Goto(p, "save")
  /\ UNCHANGED <<file, kind, cfg, plan, fdLive, runs, faults, saves, saved>>

-----------------------------------------------------------------------------
(* LocalBackend.Save: os.WriteFile opens the file with O_TRUNC, then       *)
(* writes at offset 0 of the file it opened.                               *)

SaveOpen(p) ==
  /\ pc[p] = "save"
  /\ file' = Empty
  /\ saved' = NoConfig
  /\ fdLive' = [fdLive EXCEPT ![p] = TRUE]
  /\ Goto(p, "write")
  /\ UNCHANGED <<kind, cfg, mem, plan, runs, faults, saves>>

\* Writing s over the content f: whole if nothing was written there since the
\* file was truncated; otherwise the end of a longer f may stay after s, and
\* what the file holds does not parse.
Overwrite(f, s) == IF f = Empty THEN {s} ELSE {s, Garbage}

SaveWrite(p) ==
  /\ pc[p] = "write"
  /\ \/ /\ fdLive[p]
        /\ file' \in Overwrite(file, mem[p])
        /\ saved' = IF file' = mem[p] THEN cfg[p] ELSE NoConfig
     \/ /\ ~fdLive[p]
        /\ UNCHANGED <<file, saved>>
  /\ saves' = saves + 1
  /\ fdLive' = [fdLive EXCEPT ![p] = FALSE]
  /\ Exit(p)
  /\ UNCHANGED <<runs, faults>>

\* MkdirAll or the opening of the file fails; apply returns the error.
SaveOpenFails(p) ==
  /\ pc[p] = "save"
  /\ faults < MaxFaults
  /\ faults' = faults + 1
  /\ Exit(p)
  /\ UNCHANGED <<file, fdLive, runs, saves, saved>>

\* The write fails, or the process dies, with some of the bytes written.
SaveWriteFails(p) ==
  /\ pc[p] = "write"
  /\ faults < MaxFaults
  /\ faults' = faults + 1
  /\ \/ UNCHANGED <<file, saved>>
     \/ fdLive[p] /\ file' = Garbage /\ saved' = NoConfig
  /\ fdLive' = [fdLive EXCEPT ![p] = FALSE]
  /\ Exit(p)
  /\ UNCHANGED <<runs, saves>>

\* The process dies anywhere else.
Crash(p) ==
  /\ pc[p] \notin {"idle", "write"}
  /\ faults < MaxFaults
  /\ faults' = faults + 1
  /\ Exit(p)
  /\ UNCHANGED <<file, fdLive, runs, saves, saved>>

-----------------------------------------------------------------------------
(* destroy and state delete.                                               *)

\* destroy loads the state to show it, and stops if it cannot.
LoadForDestroy(p) ==
  /\ pc[p] = "start"
  /\ kind[p] = "destroy"
  /\ IF HoldsState(file)
       THEN /\ mem' = [mem EXCEPT ![p] = file]
            /\ Goto(p, "remove")
            /\ UNCHANGED <<kind, cfg, plan>>
       ELSE Exit(p)
  /\ UNCHANGED <<file, fdLive, runs, faults, saves, saved>>

\* Without --yes destroy returns here.
DestroyNotConfirmed(p) ==
  /\ pc[p] = "remove"
  /\ Exit(p)
  /\ UNCHANGED <<file, fdLive, runs, faults, saves, saved>>

\* state delete does not look at the file.
BeginStateDelete(p) ==
  /\ pc[p] = "start"
  /\ kind[p] = "delete"
  /\ Goto(p, "remove")
  /\ UNCHANGED <<file, kind, cfg, mem, plan, fdLive, runs, faults, saves, saved>>

\* Mutant: the removal empties the state's machines and leaves the history.
DeleteEmptiesMachines(p) ==
  /\ pc[p] = "remove"
  /\ file' = IF HoldsState(file) THEN [file EXCEPT !.machines = EmptyFcn] ELSE file
  /\ saves' = 0
  /\ Exit(p)
  /\ UNCHANGED <<runs, faults, fdLive, saved>>

\* LocalBackend.Delete: the processes that had the file open keep an inode
\* nobody can reach.  Removing a file that does not exist is an error.
Delete(p) ==
  /\ pc[p] = "remove"
  /\ file' = Absent
  /\ fdLive' = [q \in Procs |-> FALSE]
  /\ saves' = 0
  /\ saved' = NoConfig
  /\ Exit(p)
  /\ UNCHANGED <<runs, faults>>

Step(p) ==
  \/ LoadAndPlan(p) \/ ReportAndExit(p) \/ BeginExecution(p)
  \/ ExecCreate(p) \/ ExecDelete(p) \/ ExecUpgrade(p)
  \/ ExecInstall(p) \/ ExecUpgradeAddon(p) \/ ExecRemove(p)
  \/ EndExecution(p) \/ SaveOpen(p) \/ SaveWrite(p)
  \/ LoadForDestroy(p) \/ DestroyNotConfirmed(p) \/ BeginStateDelete(p) \/ Delete(p)

Fault(p) == SaveOpenFails(p) \/ SaveWriteFails(p) \/ Crash(p)

Next ==
  \E p \in Procs :
    \/ \E k \in Kinds, c \in Configs : Start(p, k, c)
    \/ Step(p)
    \/ Fault(p)

\* A command that runs goes on running; nobody has to start one.
Fairness == \A p \in Procs : WF_vars(Step(p))

Spec == Init /\ [][Next]_vars
FairSpec == Spec /\ Fairness
-----------------------------------------------------------------------------
(* Properties.                                                             *)

\* Whatever commands ran together and whatever failed, a state file that
\* loads is in sync with the configuration of the apply that wrote it: the
\* next apply of that configuration does nothing.  (apply.go: the loop over
\* the actions leaves no difference, in whatever order maps were iterated.)
FileConverged ==
  HoldsState(file) =>
    /\ saved \in Configs
    /\ InSync(Reconcile(configToDesired(saved), file))

\* The versions of the machines agree with the version of the metadata, which
\* is the only one Reconcile looks at to decide whether machines are upgraded.
UniformVersion == HoldsState(file) => SameVersion(file)

\* The last operation is the last one of the history, and it is the one that
\* brought the cluster to the version it is at.
HistoryAgrees == HoldsState(file) => LastAgrees(file)

\* While a plan is being executed, what is left of it is all that is still
\* different between the state in memory and the configuration: nothing the
\* loop has done is undone by a later action, whatever the order.
PlanCoversDifferences ==
  \A p \in Procs : pc[p] \in {"planned", "exec"} => Covers(Desired(p), mem[p], plan[p])

\* The history of the state file counts every apply that reported success
\* since the cluster's state was last removed: no record is ever lost.
HistoryComplete == HoldsState(file) => Len(file.history) = saves

\* Every command that is started ends, whatever the others do.
Terminates == \A p \in Procs : pc[p] # "idle" ~> pc[p] = "idle"

-----------------------------------------------------------------------------
(* The abstract store.                                                     *)

\* While a process writes the file, the abstract store already has its state.
Writers == {p \in Procs : pc[p] = "write" /\ fdLive[p]}

StoreOf ==
  IF Writers # {} THEN mem[CHOOSE p \in Writers : TRUE]
  ELSE IF HoldsState(file) THEN file
  ELSE Absent

Store == INSTANCE ClusterStore WITH store <- StoreOf

\* Run one at a time, the commands do what the abstract store does: the plan,
\* executed in any order the maps are iterated in, always leads to the one state
\* the configuration and the old state fix.  A save that fails may lose the
\* state, as a destroy does; nothing else happens to it.
Refines == Store!Spec
=============================================================================

----------------------------- MODULE StateProofs -----------------------------
(***************************************************************************)
(* Proofs about the two modules that work on cluster states, with the      *)
(* lemmas about Reconciler that they share.                                *)
(*                                                                         *)
(* ApplyState, for every number of terminals, every set of configurations, *)
(* and every number of commands, crashes and failed saves: a state file    *)
(* that loads is one that an apply completed.  With one terminal, the      *)
(* commands implement the atomic store of ClusterStore.                    *)
(*                                                                         *)
(* Fleet, for every fleet file and any number of changes: what diff and    *)
(* status report agrees with what the applies would do and have done.      *)
(***************************************************************************)
EXTENDS ApplyState, Fleet, FiniteSetTheorems, TLAPS

-----------------------------------------------------------------------------
(* Facts about the operators of Reconciler.                                *)

\* What the configurations ask for always names a version.
Asked == {d \in DesiredStates : d.version \in ClusterVersions}

\* A partial function is a function from its domain.
LEMMA PartialFcnsType ==
  ASSUME NEW D, NEW R, NEW f
  PROVE  f \in PartialFcns(D, R) <=> DOMAIN f \subseteq D /\ f \in [DOMAIN f -> R]
BY DEF PartialFcns

\* SetEntry and DropEntry stay among the partial functions (a map of the Go
\* code after an assignment and after a delete).
LEMMA SetEntryType ==
  ASSUME NEW D, NEW R, NEW f \in PartialFcns(D, R), NEW x \in D, NEW v \in R
  PROVE  SetEntry(f, x, v) \in PartialFcns(D, R)
<1>1. DOMAIN f \subseteq D /\ f \in [DOMAIN f -> R]
  BY PartialFcnsType
<1>2. SetEntry(f, x, v) \in [DOMAIN f \cup {x} -> R]
  BY <1>1 DEF SetEntry
<1> QED
  BY <1>1, <1>2 DEF PartialFcns

LEMMA DropEntryType ==
  ASSUME NEW D, NEW R, NEW f \in PartialFcns(D, R), NEW x
  PROVE  DropEntry(f, x) \in PartialFcns(D, R)
<1>1. DOMAIN f \subseteq D /\ f \in [DOMAIN f -> R]
  BY PartialFcnsType
<1>2. DropEntry(f, x) \in [DOMAIN f \ {x} -> R]
  BY <1>1 DEF DropEntry
<1> QED
  BY <1>1, <1>2 DEF PartialFcns

\* configToDesired yields a desired state with a version.
LEMMA ConfigToDesiredType ==
  ASSUME NEW c \in ClusterConfigs
  PROVE  configToDesired(c) \in Asked /\ configToDesired(c).version = c.version
<1>1. c.addons \in PartialFcns(AddonNames, [enabled : BOOLEAN, version : AddonVersions])
  BY DEF ClusterConfigs
<1> DEFINE as == [a \in EnabledAddons(c) |-> c.addons[a].version]
           ms == [h \in c.cp \cup c.workers |->
                    IF h \in c.workers THEN "worker" ELSE "control-plane"]
<1>2. as \in PartialFcns(AddonNames, AddonVersions)
  <2>1. /\ DOMAIN c.addons \subseteq AddonNames
        /\ c.addons \in [DOMAIN c.addons -> [enabled : BOOLEAN, version : AddonVersions]]
    BY <1>1, PartialFcnsType
  <2>2. as \in [EnabledAddons(c) -> AddonVersions] /\ EnabledAddons(c) \subseteq AddonNames
    BY <2>1 DEF EnabledAddons
  <2> QED
    BY <2>2 DEF PartialFcns
<1>3. ms \in PartialFcns(Hosts, Roles)
  <2>1. c.cp \cup c.workers \subseteq Hosts
    BY DEF ClusterConfigs
  <2>2. ms \in [c.cp \cup c.workers -> Roles]
    BY DEF Roles
  <2> QED
    BY <2>1, <2>2 DEF PartialFcns
<1>4. c.version \in ClusterVersions
  BY DEF ClusterConfigs
<1>5. configToDesired(c) = [machines |-> ms, addons |-> as, version |-> c.version]
  BY DEF configToDesired
<1> QED
  BY <1>2, <1>3, <1>4, <1>5 DEF Asked, DesiredStates

LEMMA FreshStateType == FreshState \in ClusterStates /\ SameVersion(FreshState)
<1>1. DOMAIN EmptyFcn = {}
  BY DEF EmptyFcn
<1>2. ASSUME NEW D, NEW R
      PROVE  EmptyFcn \in PartialFcns(D, R)
  <2>1. EmptyFcn \in [{} -> R]
    BY DEF EmptyFcn
  <2>2. {} \in SUBSET D
    OBVIOUS
  <2> QED
    BY <2>1, <2>2 DEF PartialFcns
<1>3. << >> \in Seq(ClusterVersions)
  OBVIOUS
<1> QED
  BY <1>1, <1>2, <1>3 DEF FreshState, ClusterStates, SameVersion

\* The plan Reconcile makes for a state whose machines are at one version
\* holds all the differences.
LEMMA ReconcileCovers ==
  ASSUME NEW d \in Asked, NEW s \in ClusterStates, SameVersion(s)
  PROVE  Reconcile(d, s) \in Plans /\ Covers(d, s, Reconcile(d, s))
<1>1. /\ d.machines \in PartialFcns(Hosts, Roles)
      /\ s.machines \in PartialFcns(Hosts, MachineStates)
      /\ d.addons \in PartialFcns(AddonNames, AddonVersions)
      /\ s.addons \in PartialFcns(AddonNames, AddonStates)
      /\ d.version \in ClusterVersions
  BY DEF Asked, DesiredStates, ClusterStates
<1>2. /\ DOMAIN d.machines \subseteq Hosts /\ DOMAIN s.machines \subseteq Hosts
      /\ DOMAIN d.addons \subseteq AddonNames /\ DOMAIN s.addons \subseteq AddonNames
  BY <1>1, PartialFcnsType
<1>3. Reconcile(d, s) \in Plans
  BY <1>2 DEF Reconcile, Plans, MissingHosts, ExtraHosts, reconcileVersion,
              AddonsToInstall, AddonsToUpgrade, AddonsToRemove
<1>4. d.version # NoVersion
  BY <1>1, NoVersionAssumption
<1>5. Covers(d, s, Reconcile(d, s))
  BY <1>4 DEF Covers, Reconcile, reconcileVersion, SameVersion
<1> QED
  BY <1>3, <1>5

-----------------------------------------------------------------------------
(* The actions of a plan: each takes away one difference and makes none.   *)

LEMMA CreateCovers ==
  ASSUME NEW d \in Asked, NEW s \in ClusterStates, NEW q \in Plans,
         Covers(d, s, q), NEW h \in q.create
  PROVE  /\ SetMachine(s, d, h) \in ClusterStates
         /\ [q EXCEPT !.create = @ \ {h}] \in Plans
         /\ Covers(d, SetMachine(s, d, h), [q EXCEPT !.create = @ \ {h}])
<1> DEFINE v == [role |-> d.machines[h], version |-> d.version]
           m == SetEntry(s.machines, h, v)
<1>1. /\ d.machines \in PartialFcns(Hosts, Roles) /\ d.version \in ClusterVersions
      /\ s.machines \in PartialFcns(Hosts, MachineStates)
  BY DEF Asked, DesiredStates, ClusterStates
<1>2. h \in Hosts /\ h \in DOMAIN d.machines /\ h \notin DOMAIN s.machines
  BY DEF Plans, Covers, MissingHosts
<1>3. v \in MachineStates
  BY <1>1, <1>2, PartialFcnsType DEF MachineStates
<1>4. m \in PartialFcns(Hosts, MachineStates)
  BY <1>1, <1>2, <1>3, SetEntryType
<1>5. /\ DOMAIN m = DOMAIN s.machines \cup {h}
      /\ m[h].version = d.version
      /\ \A y \in DOMAIN s.machines \ {h} : m[y] = s.machines[y]
  <2>1. v.version = d.version
    OBVIOUS
  <2> HIDE DEF v
  <2>2. m[h] = v
    BY DEF SetEntry
  <2>3. DOMAIN m = DOMAIN s.machines \cup {h}
    BY DEF SetEntry
  <2>4. \A y \in DOMAIN s.machines \ {h} : m[y] = s.machines[y]
    BY DEF SetEntry
  <2> HIDE DEF m
  <2> QED
    BY <2>1, <2>2, <2>3, <2>4
<1>6. SetMachine(s, d, h) = [s EXCEPT !.machines = m]
  BY DEF SetMachine
<1> HIDE DEF m
<1>7. SetMachine(s, d, h) \in ClusterStates
  BY <1>4, <1>6 DEF ClusterStates
<1>8. [q EXCEPT !.create = @ \ {h}] \in Plans
  BY DEF Plans
<1>9. Covers(d, SetMachine(s, d, h), [q EXCEPT !.create = @ \ {h}])
  BY <1>2, <1>5, <1>6 DEF Covers, Plans, ClusterStates, MissingHosts, ExtraHosts,
     AddonsToInstall, AddonsToUpgrade, AddonsToRemove
<1> QED
  BY <1>7, <1>8, <1>9

LEMMA DeleteCovers ==
  ASSUME NEW d \in Asked, NEW s \in ClusterStates, NEW q \in Plans,
         Covers(d, s, q), NEW h \in q.delete
  PROVE  /\ DeleteMachine(s, h) \in ClusterStates
         /\ [q EXCEPT !.delete = @ \ {h}] \in Plans
         /\ Covers(d, DeleteMachine(s, h), [q EXCEPT !.delete = @ \ {h}])
<1> DEFINE m == DropEntry(s.machines, h)
<1>1. s.machines \in PartialFcns(Hosts, MachineStates)
  BY DEF ClusterStates
<1>2. h \notin DOMAIN d.machines
  BY DEF Plans, Covers, ExtraHosts
<1>3. m \in PartialFcns(Hosts, MachineStates)
  BY <1>1, DropEntryType
<1>4. /\ DOMAIN m = DOMAIN s.machines \ {h}
      /\ \A y \in DOMAIN s.machines \ {h} : m[y] = s.machines[y]
  BY DEF DropEntry
<1>5. DeleteMachine(s, h) = [s EXCEPT !.machines = m]
  BY DEF DeleteMachine
<1> HIDE DEF m
<1>6. DeleteMachine(s, h) \in ClusterStates
  BY <1>3, <1>5 DEF ClusterStates
<1>7. [q EXCEPT !.delete = @ \ {h}] \in Plans
  BY DEF Plans
<1>8. Covers(d, DeleteMachine(s, h), [q EXCEPT !.delete = @ \ {h}])
  BY <1>2, <1>4, <1>5 DEF Covers, Plans, ClusterStates, MissingHosts, ExtraHosts,
     AddonsToInstall, AddonsToUpgrade, AddonsToRemove
<1> QED
  BY <1>6, <1>7, <1>8

LEMMA UpgradeCovers ==
  ASSUME NEW d \in Asked, NEW s \in ClusterStates, NEW q \in Plans,
         Covers(d, s, q), NEW h \in q.upgrade
  PROVE  /\ UpgradeMachine(s, d, h) \in ClusterStates
         /\ [q EXCEPT !.upgrade = @ \ {h}] \in Plans
         /\ Covers(d, UpgradeMachine(s, d, h), [q EXCEPT !.upgrade = @ \ {h}])
<1>1. [q EXCEPT !.upgrade = @ \ {h}] \in Plans
  BY DEF Plans
<1>2. CASE h \notin DOMAIN s.machines
  BY <1>1, <1>2 DEF UpgradeMachine, Covers, Plans
<1>3. CASE h \in DOMAIN s.machines
  <2> DEFINE m == [s.machines EXCEPT ![h].version = d.version]
  <2>1. /\ DOMAIN s.machines \subseteq Hosts
        /\ s.machines \in [DOMAIN s.machines -> MachineStates]
        /\ d.version \in ClusterVersions
    BY PartialFcnsType DEF ClusterStates, Asked
  <2>2. m \in [DOMAIN s.machines -> MachineStates]
    BY <1>3, <2>1 DEF MachineStates
  <2>3. m \in PartialFcns(Hosts, MachineStates)
    BY <2>1, <2>2 DEF PartialFcns
  <2>4. /\ DOMAIN m = DOMAIN s.machines
        /\ m[h].version = d.version
        /\ \A y \in DOMAIN s.machines \ {h} : m[y] = s.machines[y]
    BY <1>3, <2>1 DEF MachineStates
  <2>5. UpgradeMachine(s, d, h) = [s EXCEPT !.machines = m]
    BY <1>3 DEF UpgradeMachine, ClusterStates
  <2> HIDE DEF m
  <2>6. UpgradeMachine(s, d, h) \in ClusterStates
    BY <2>3, <2>5 DEF ClusterStates
  <2>7. Covers(d, UpgradeMachine(s, d, h), [q EXCEPT !.upgrade = @ \ {h}])
    BY <2>4, <2>5 DEF Covers, Plans, ClusterStates, MissingHosts, ExtraHosts,
       AddonsToInstall, AddonsToUpgrade, AddonsToRemove
  <2> QED
    BY <1>1, <2>6, <2>7
<1> QED
  BY <1>2, <1>3

\* Installing and upgrading an addon do the same to the state: SetAddon.
LEMMA SetAddonCovers ==
  ASSUME NEW d \in Asked, NEW s \in ClusterStates, NEW q \in Plans, NEW r \in Plans,
         Covers(d, s, q), NEW a \in q.install \cup q.upgradeAddon,
         r.create = q.create, r.delete = q.delete, r.upgrade = q.upgrade,
         r.remove = q.remove,
         r.install = q.install \ {a}, r.upgradeAddon = q.upgradeAddon \ {a}
  PROVE  SetAddon(s, d, a) \in ClusterStates /\ Covers(d, SetAddon(s, d, a), r)
<1> DEFINE v == [version |-> d.addons[a], installed |-> TRUE]
           m == SetEntry(s.addons, a, v)
<1>1. /\ d.addons \in PartialFcns(AddonNames, AddonVersions)
      /\ s.addons \in PartialFcns(AddonNames, AddonStates)
  BY DEF Asked, DesiredStates, ClusterStates
<1>2. a \in AddonNames /\ a \in DOMAIN d.addons
  BY DEF Plans, Covers, AddonsToInstall, AddonsToUpgrade
<1>3. v \in AddonStates
  BY <1>1, <1>2, PartialFcnsType DEF AddonStates
<1>4. m \in PartialFcns(AddonNames, AddonStates)
  BY <1>1, <1>2, <1>3, SetEntryType
<1>5. /\ DOMAIN m = DOMAIN s.addons \cup {a}
      /\ m[a].version = d.addons[a] /\ m[a].installed
      /\ \A y \in DOMAIN s.addons \ {a} : m[y] = s.addons[y]
  <2>1. v.version = d.addons[a] /\ v.installed
    OBVIOUS
  <2> HIDE DEF v
  <2>2. m[a] = v
    BY DEF SetEntry
  <2>3. DOMAIN m = DOMAIN s.addons \cup {a}
    BY DEF SetEntry
  <2>4. \A y \in DOMAIN s.addons \ {a} : m[y] = s.addons[y]
    BY DEF SetEntry
  <2> HIDE DEF m
  <2> QED
    BY <2>1, <2>2, <2>3, <2>4
<1>6. SetAddon(s, d, a) = [s EXCEPT !.addons = m]
  BY DEF SetAddon
<1> HIDE DEF m
<1>7. SetAddon(s, d, a) \in ClusterStates
  BY <1>4, <1>6 DEF ClusterStates
<1> DEFINE t == SetAddon(s, d, a)
<1>8. t.addons = m /\ t.machines = s.machines
  BY <1>6 DEF ClusterStates
<1>9. /\ AddonsToInstall(d, t) = AddonsToInstall(d, s) \ {a}
      /\ AddonsToUpgrade(d, t) = AddonsToUpgrade(d, s) \ {a}
  BY <1>2, <1>5, <1>8 DEF AddonsToInstall, AddonsToUpgrade
<1>10. AddonsToRemove(d, t) = AddonsToRemove(d, s)
  BY <1>2, <1>5, <1>8 DEF AddonsToRemove
<1> HIDE DEF t
<1>11. Covers(d, t, r)
  BY <1>8, <1>9, <1>10 DEF Covers, MissingHosts, ExtraHosts
<1> QED
  BY <1>7, <1>11 DEF t

LEMMA RemoveAddonCovers ==
  ASSUME NEW d \in Asked, NEW s \in ClusterStates, NEW q \in Plans,
         Covers(d, s, q), NEW a \in q.remove
  PROVE  /\ RemoveAddon(s, a) \in ClusterStates
         /\ [q EXCEPT !.remove = @ \ {a}] \in Plans
         /\ Covers(d, RemoveAddon(s, a), [q EXCEPT !.remove = @ \ {a}])
<1> DEFINE m == DropEntry(s.addons, a)
<1>1. s.addons \in PartialFcns(AddonNames, AddonStates)
  BY DEF ClusterStates
<1>2. a \notin DOMAIN d.addons
  BY DEF Covers, AddonsToRemove
<1>3. m \in PartialFcns(AddonNames, AddonStates)
  BY <1>1, DropEntryType
<1>4. /\ DOMAIN m = DOMAIN s.addons \ {a}
      /\ \A y \in DOMAIN s.addons \ {a} : m[y] = s.addons[y]
  BY DEF DropEntry
<1>5. RemoveAddon(s, a) = [s EXCEPT !.addons = m]
  BY DEF RemoveAddon
<1> HIDE DEF m
<1>6. RemoveAddon(s, a) \in ClusterStates
  BY <1>3, <1>5 DEF ClusterStates
<1>7. [q EXCEPT !.remove = @ \ {a}] \in Plans
  BY DEF Plans
<1> DEFINE t == RemoveAddon(s, a)
<1>8. t.addons = m /\ t.machines = s.machines
  BY <1>5 DEF ClusterStates
<1>9. /\ AddonsToInstall(d, t) = AddonsToInstall(d, s)
      /\ AddonsToUpgrade(d, t) = AddonsToUpgrade(d, s)
  BY <1>2, <1>4, <1>8 DEF AddonsToInstall, AddonsToUpgrade
<1>10. AddonsToRemove(d, t) = AddonsToRemove(d, s) \ {a}
  BY <1>4, <1>8 DEF AddonsToRemove
<1> HIDE DEF t
<1>11. Covers(d, t, [q EXCEPT !.remove = @ \ {a}])
  BY <1>8, <1>9, <1>10 DEF Covers, MissingHosts, ExtraHosts, Plans
<1> QED
  BY <1>6, <1>7, <1>11 DEF t

\* A state with no difference left, once the operation is recorded, is in sync
\* with the desired state, at one version, with its history in order.
LEMMA FinishedInSync ==
  ASSUME NEW d \in Asked, NEW s \in ClusterStates, Covers(d, s, EmptyPlan)
  PROVE  /\ RecordOperation(s, d.version) \in ClusterStates
         /\ InSync(Reconcile(d, RecordOperation(s, d.version)))
         /\ SameVersion(RecordOperation(s, d.version))
         /\ LastAgrees(RecordOperation(s, d.version))
<1> DEFINE hist == Append(s.history, d.version)
           t == RecordOperation(s, d.version)
<1>1. d.version \in ClusterVersions /\ s.history \in Seq(ClusterVersions)
  BY DEF Asked, ClusterStates
<1>2. hist \in Seq(ClusterVersions) /\ hist # << >> /\ hist[Len(hist)] = d.version
  BY <1>1
<1>3. t = [s EXCEPT !.version = d.version, !.last = d.version, !.history = hist]
  BY DEF RecordOperation
<1> HIDE DEF hist
<1>4. t \in ClusterStates
  BY <1>1, <1>2, <1>3 DEF ClusterStates
<1>5. /\ t.machines = s.machines /\ t.addons = s.addons /\ t.version = d.version
      /\ t.last = d.version /\ t.history = hist
  BY <1>3 DEF ClusterStates
<1> HIDE DEF t
<1>6. LastAgrees(t)
  BY <1>2, <1>5 DEF LastAgrees
<1>7. SameVersion(t)
  BY <1>5 DEF SameVersion, Covers, EmptyPlan
<1>8. InSync(Reconcile(d, t))
  BY <1>5 DEF Covers, EmptyPlan, InSync, Reconcile, reconcileVersion, MissingHosts,
     ExtraHosts, AddonsToInstall, AddonsToUpgrade, AddonsToRemove
<1> QED
  BY <1>4, <1>6, <1>7, <1>8 DEF t

-----------------------------------------------------------------------------
(* The state commands.                                                     *)

Commands == {"apply", "diff", "destroy", "delete"}
Labels   == {"idle", "start", "planned", "exec", "save", "write", "remove"}

\* What a completed apply of c leaves.
Complete(c, s) ==
  /\ InSync(Reconcile(configToDesired(c), s))
  /\ SameVersion(s)
  /\ LastAgrees(s)

FileComplete == HoldsState(file) => saved \in Configs /\ Complete(saved, file)

MemoryComplete ==
  \A p \in Procs : pc[p] \in {"save", "write"} => Complete(cfg[p], mem[p])

\* The inductive invariant: the state is complete from the moment the loop
\* over the actions ends (MemoryComplete), because the plan was complete all
\* along (PlanCoversDifferences), because the file it was loaded from was at
\* one version (FileComplete).
IInv == TypeOK /\ PlanCoversDifferences /\ MemoryComplete /\ FileComplete

\* FileComplete is what the runs check of the file.
LEMMA FileCompleteProperties ==
  IInv => FileConverged /\ UniformVersion /\ HistoryAgrees
BY DEF IInv, FileComplete, Complete, FileConverged, UniformVersion, HistoryAgrees

LEMMA EmptyPlanType == EmptyPlan \in Plans
BY DEF EmptyPlan, Plans

LEMMA InitIInv == Init => IInv
<1> SUFFICES ASSUME Init PROVE IInv
  OBVIOUS
<1>1. TypeOK
  BY FreshStateType, EmptyPlanType, BoundsAssumption
  DEF Init, TypeOK, FileValues
<1>2. PlanCoversDifferences /\ MemoryComplete
  BY DEF Init, PlanCoversDifferences, MemoryComplete
<1>3. FileComplete
  BY DEF Init, FileComplete, HoldsState
<1> QED
  BY <1>1, <1>2, <1>3 DEF IInv

\* A step of p to label l, with command k, configuration c, memory m and plan
\* q, keeps the invariant if the new place of p and the new file are as it
\* says.
LEMMA ProcessMoves ==
  ASSUME IInv, NEW p \in Procs, NEW l \in Labels, NEW k \in Commands,
         NEW c \in Configs \cup {NoConfig}, NEW m \in ClusterStates, NEW q \in Plans,
         pc' = [pc EXCEPT ![p] = l],
         kind' = [kind EXCEPT ![p] = k],
         cfg' = [cfg EXCEPT ![p] = c],
         mem' = [mem EXCEPT ![p] = m],
         plan' = [plan EXCEPT ![p] = q],
         l # "idle" => c \in Configs,
         l \in {"planned", "exec"} => Covers(configToDesired(c), m, q),
         l \in {"save", "write"} => Complete(c, m),
         fdLive' \in [Procs -> BOOLEAN],
         runs' \in 0 .. MaxRuns, faults' \in 0 .. MaxFaults, saves' \in Nat,
         file' \in FileValues, saved' \in Configs \cup {NoConfig},
         FileComplete'
  PROVE  IInv'
<1>1. TypeOK'
  BY DEF IInv, TypeOK, Commands, Labels
<1>2. PlanCoversDifferences'
  <2> SUFFICES ASSUME NEW r \in Procs, pc'[r] \in {"planned", "exec"}
               PROVE  Covers(configToDesired(cfg'[r]), mem'[r], plan'[r])
    BY DEF PlanCoversDifferences, Desired
  <2>1. CASE r = p
    BY <2>1 DEF IInv, TypeOK
  <2>2. CASE r # p
    BY <2>2 DEF IInv, TypeOK, PlanCoversDifferences, Desired
  <2> QED
    BY <2>1, <2>2
<1>3. MemoryComplete'
  <2> SUFFICES ASSUME NEW r \in Procs, pc'[r] \in {"save", "write"}
               PROVE  Complete(cfg'[r], mem'[r])
    BY DEF MemoryComplete
  <2>1. CASE r = p
    BY <2>1 DEF IInv, TypeOK
  <2>2. CASE r # p
    BY <2>2 DEF IInv, TypeOK, MemoryComplete
  <2> QED
    BY <2>1, <2>2
<1> QED
  BY <1>1, <1>2, <1>3 DEF IInv

\* When p's command ends and the file stays as the invariant says.
LEMMA ProcessExits ==
  ASSUME IInv, NEW p \in Procs, Exit(p),
         fdLive' \in [Procs -> BOOLEAN],
         runs' \in 0 .. MaxRuns, faults' \in 0 .. MaxFaults, saves' \in Nat,
         file' \in FileValues, saved' \in Configs \cup {NoConfig},
         FileComplete'
  PROVE  IInv'
<1>1. "idle" \in Labels /\ "diff" \in Commands
  BY DEF Labels, Commands
<1> QED
  BY <1>1, ProcessMoves, FreshStateType, EmptyPlanType DEF Exit

\* A step of p that leaves the file and the bounds alone.
LEMMA ProcessMovesQuietly ==
  ASSUME IInv, NEW p \in Procs, NEW l \in Labels,
         NEW m \in ClusterStates, NEW q \in Plans,
         pc' = [pc EXCEPT ![p] = l],
         mem' = [mem EXCEPT ![p] = m],
         plan' = [plan EXCEPT ![p] = q],
         pc[p] # "idle",
         l \in {"planned", "exec"} => Covers(Desired(p), m, q),
         l \in {"save", "write"} => Complete(cfg[p], m),
         UNCHANGED <<file, kind, cfg, fdLive, runs, faults, saves, saved>>
  PROVE  IInv'
<1>1. /\ kind' = [kind EXCEPT ![p] = kind[p]] /\ kind[p] \in Commands
      /\ cfg' = [cfg EXCEPT ![p] = cfg[p]] /\ cfg[p] \in Configs
  BY DEF IInv, TypeOK, Commands
<1>2. /\ fdLive' \in [Procs -> BOOLEAN]
      /\ runs' \in 0 .. MaxRuns /\ faults' \in 0 .. MaxFaults /\ saves' \in Nat
      /\ file' \in FileValues /\ saved' \in Configs \cup {NoConfig}
  BY DEF IInv, TypeOK
<1>3. FileComplete'
  BY DEF IInv, FileComplete
<1> QED
  BY <1>1, <1>2, <1>3, ProcessMoves DEF Desired

\* One executed action of p's plan.
LEMMA ProcessExecutes ==
  ASSUME IInv, NEW p \in Procs, NEW k, NEW q \in Plans, NEW s \in ClusterStates,
         Execute(p, k, q, s), Covers(Desired(p), s, q)
  PROVE  IInv'
<1>1. pc' = [pc EXCEPT ![p] = "exec"] /\ pc[p] # "idle"
  BY DEF Execute, IInv, TypeOK
<1>2. "exec" \in Labels
  BY DEF Labels
<1> QED
  BY <1>1, <1>2, ProcessMovesQuietly DEF Execute

\* What the actions of a running process may assume.
LEMMA RunningProcess ==
  ASSUME IInv, NEW p \in Procs, pc[p] # "idle"
  PROVE  /\ cfg[p] \in Configs /\ cfg[p] \in ClusterConfigs
         /\ Desired(p) \in Asked /\ Desired(p).version = cfg[p].version
         /\ mem[p] \in ClusterStates /\ plan[p] \in Plans
         /\ pc[p] \in {"planned", "exec"} => Covers(Desired(p), mem[p], plan[p])
<1>1. /\ cfg[p] \in Configs /\ cfg[p] \in ClusterConfigs
      /\ mem[p] \in ClusterStates /\ plan[p] \in Plans
  BY ConfigsAssumption DEF IInv, TypeOK
<1>2. Desired(p) \in Asked /\ Desired(p).version = cfg[p].version
  BY <1>1, ConfigToDesiredType DEF Desired
<1> QED
  BY <1>1, <1>2 DEF IInv, PlanCoversDifferences

\* What load returns is a state at one version.
LEMMA LoadedState ==
  ASSUME IInv
  PROVE  LoadOrFresh(file) \in ClusterStates /\ SameVersion(LoadOrFresh(file))
<1>1. CASE HoldsState(file)
  BY <1>1 DEF LoadOrFresh, HoldsState, IInv, TypeOK, FileValues, FileComplete, Complete
<1>2. CASE ~HoldsState(file)
  BY <1>2, FreshStateType DEF LoadOrFresh
<1> QED
  BY <1>1, <1>2

LEMMA StartIInv ==
  ASSUME IInv, NEW p \in Procs, NEW k \in Kinds, NEW c \in Configs, Start(p, k, c)
  PROVE  IInv'
<1>1. k \in Commands /\ "start" \in Labels
  BY KindsAssumption DEF Commands, Labels
<1>2. /\ mem' = [mem EXCEPT ![p] = mem[p]] /\ mem[p] \in ClusterStates
      /\ plan' = [plan EXCEPT ![p] = plan[p]] /\ plan[p] \in Plans
  BY DEF Start, IInv, TypeOK
<1>3. /\ fdLive' \in [Procs -> BOOLEAN]
      /\ runs' \in 0 .. MaxRuns /\ faults' \in 0 .. MaxFaults /\ saves' \in Nat
      /\ file' \in FileValues /\ saved' \in Configs \cup {NoConfig}
  BY BoundsAssumption DEF Start, IInv, TypeOK
<1>4. FileComplete'
  BY DEF Start, IInv, FileComplete
<1>5. /\ pc' = [pc EXCEPT ![p] = "start"]
      /\ kind' = [kind EXCEPT ![p] = k] /\ cfg' = [cfg EXCEPT ![p] = c]
  BY DEF Start, Goto
<1>6. "start" \notin {"idle", "planned", "exec", "save", "write"}
  OBVIOUS
<1> QED
  BY <1>1, <1>2, <1>3, <1>4, <1>5, <1>6, ProcessMoves

LEMMA LoadIInv ==
  ASSUME IInv, NEW p \in Procs,
         LoadAndPlan(p) \/ BeginExecution(p) \/ BeginStateDelete(p)
  PROVE  IInv'
<1>1. CASE LoadAndPlan(p)
  <2>1. pc[p] # "idle" /\ "planned" \in Labels
    BY <1>1 DEF LoadAndPlan, Labels
  <2>2. /\ Reconcile(Desired(p), LoadOrFresh(file)) \in Plans
        /\ Covers(Desired(p), LoadOrFresh(file), Reconcile(Desired(p), LoadOrFresh(file)))
    BY <2>1, RunningProcess, LoadedState, ReconcileCovers
  <2> QED
    BY <1>1, <2>1, <2>2, LoadedState, ProcessMovesQuietly DEF LoadAndPlan, Goto
<1>2. CASE BeginExecution(p)
  <2>1. pc[p] = "planned" /\ "exec" \in Labels
    BY <1>2 DEF BeginExecution, Labels
  <2>2. /\ mem' = [mem EXCEPT ![p] = mem[p]]
        /\ plan' = [plan EXCEPT ![p] = plan[p]]
    BY <1>2 DEF BeginExecution, IInv, TypeOK
  <2> QED
    BY <1>2, <2>1, <2>2, RunningProcess, ProcessMovesQuietly DEF BeginExecution, Goto
<1>3. CASE BeginStateDelete(p)
  <2>1. pc[p] = "start" /\ "remove" \in Labels
    BY <1>3 DEF BeginStateDelete, Labels
  <2>2. /\ mem' = [mem EXCEPT ![p] = mem[p]]
        /\ plan' = [plan EXCEPT ![p] = plan[p]]
    BY <1>3 DEF BeginStateDelete, IInv, TypeOK
  <2>3. /\ pc' = [pc EXCEPT ![p] = "remove"] /\ pc[p] # "idle"
        /\ "remove" \notin {"planned", "exec", "save", "write"}
        /\ UNCHANGED <<file, kind, cfg, fdLive, runs, faults, saves, saved>>
    BY <1>3 DEF BeginStateDelete, Goto
  <2>4. mem[p] \in ClusterStates /\ plan[p] \in Plans
    BY <2>3, RunningProcess
  <2> QED
    BY <2>1, <2>2, <2>3, <2>4, ProcessMovesQuietly
<1> QED
  BY <1>1, <1>2, <1>3

LEMMA ExecutionIInv ==
  ASSUME IInv, NEW p \in Procs,
         \/ ExecCreate(p) \/ ExecDelete(p) \/ ExecUpgrade(p)
         \/ ExecInstall(p) \/ ExecUpgradeAddon(p) \/ ExecRemove(p)
  PROVE  IInv'
<1>1. pc[p] = "exec"
  BY DEF ExecCreate, ExecDelete, ExecUpgrade, ExecInstall, ExecUpgradeAddon,
         ExecRemove, Execute
<1>2. /\ Desired(p) \in Asked /\ mem[p] \in ClusterStates /\ plan[p] \in Plans
      /\ Covers(Desired(p), mem[p], plan[p])
  BY <1>1, RunningProcess
<1>3. plan[p].install \cap plan[p].upgradeAddon = {}
  BY <1>2 DEF Covers, AddonsToUpgrade
<1>4. CASE ExecCreate(p)
  BY <1>2, <1>4, CreateCovers, ProcessExecutes DEF ExecCreate
<1>5. CASE ExecDelete(p)
  BY <1>2, <1>5, DeleteCovers, ProcessExecutes DEF ExecDelete
<1>6. CASE ExecUpgrade(p)
  BY <1>2, <1>6, UpgradeCovers, ProcessExecutes DEF ExecUpgrade
<1>7. CASE ExecInstall(p)
  <2>1. PICK a \in plan[p].install :
          Execute(p, "install", [plan[p] EXCEPT !.install = @ \ {a}],
                  SetAddon(mem[p], Desired(p), a))
    BY <1>7 DEF ExecInstall
  <2> DEFINE r == [plan[p] EXCEPT !.install = @ \ {a}]
  <2>2. /\ r \in Plans
        /\ r.create = plan[p].create /\ r.delete = plan[p].delete
        /\ r.upgrade = plan[p].upgrade /\ r.remove = plan[p].remove
        /\ r.install = plan[p].install \ {a}
        /\ r.upgradeAddon = plan[p].upgradeAddon \ {a}
    BY <1>2, <1>3 DEF Plans
  <2>3. Execute(p, "install", r, SetAddon(mem[p], Desired(p), a))
    BY <2>1
  <2> HIDE DEF r
  <2>4. SetAddon(mem[p], Desired(p), a) \in ClusterStates
        /\ Covers(Desired(p), SetAddon(mem[p], Desired(p), a), r)
    BY <1>2, <2>2, SetAddonCovers
  <2> QED
    BY <2>2, <2>3, <2>4, ProcessExecutes
<1>8. CASE ExecUpgradeAddon(p)
  <2>1. PICK a \in plan[p].upgradeAddon :
          Execute(p, "upgradeAddon", [plan[p] EXCEPT !.upgradeAddon = @ \ {a}],
                  SetAddon(mem[p], Desired(p), a))
    BY <1>8 DEF ExecUpgradeAddon
  <2> DEFINE r == [plan[p] EXCEPT !.upgradeAddon = @ \ {a}]
  <2>2. /\ r \in Plans
        /\ r.create = plan[p].create /\ r.delete = plan[p].delete
        /\ r.upgrade = plan[p].upgrade /\ r.remove = plan[p].remove
        /\ r.install = plan[p].install \ {a}
        /\ r.upgradeAddon = plan[p].upgradeAddon \ {a}
    BY <1>2, <1>3 DEF Plans
  <2>3. Execute(p, "upgradeAddon", r, SetAddon(mem[p], Desired(p), a))
    BY <2>1
  <2> HIDE DEF r
  <2>4. SetAddon(mem[p], Desired(p), a) \in ClusterStates
        /\ Covers(Desired(p), SetAddon(mem[p], Desired(p), a), r)
    BY <1>2, <2>2, SetAddonCovers
  <2> QED
    BY <2>2, <2>3, <2>4, ProcessExecutes
<1>9. CASE ExecRemove(p)
  BY <1>2, <1>9, RemoveAddonCovers, ProcessExecutes DEF ExecRemove
<1> QED
  BY <1>4, <1>5, <1>6, <1>7, <1>8, <1>9

LEMMA EndExecutionIInv ==
  ASSUME IInv, NEW p \in Procs, EndExecution(p)
  PROVE  IInv'
<1> DEFINE s == RecordOperation(mem[p], cfg[p].version)
<1>1. pc[p] = "exec" /\ plan[p] = EmptyPlan /\ "save" \in Labels
  BY DEF EndExecution, InSync, Labels
<1>2. /\ Desired(p) \in Asked /\ Desired(p).version = cfg[p].version
      /\ mem[p] \in ClusterStates /\ plan[p] \in Plans
      /\ Covers(Desired(p), mem[p], EmptyPlan)
  BY <1>1, RunningProcess
<1>3. s \in ClusterStates /\ Complete(cfg[p], s)
  BY <1>2, FinishedInSync DEF Complete, Desired
<1>4. /\ pc' = [pc EXCEPT ![p] = "save"]
      /\ mem' = [mem EXCEPT ![p] = s]
      /\ plan' = [plan EXCEPT ![p] = plan[p]]
      /\ UNCHANGED <<file, kind, cfg, fdLive, runs, faults, saves, saved>>
  BY DEF EndExecution, Goto, IInv, TypeOK
<1> HIDE DEF s
<1>5. pc[p] # "idle" /\ "save" \notin {"planned", "exec"}
  BY <1>1
<1> QED
  BY <1>1, <1>2, <1>3, <1>4, <1>5, ProcessMovesQuietly

LEMMA SaveOpenIInv ==
  ASSUME IInv, NEW p \in Procs, SaveOpen(p)
  PROVE  IInv'
<1>1. pc[p] = "save" /\ "write" \in Labels
  BY DEF SaveOpen, Labels
<1>2. /\ cfg[p] \in Configs /\ kind[p] \in Commands
      /\ mem[p] \in ClusterStates /\ plan[p] \in Plans
  BY <1>1 DEF IInv, TypeOK, Commands
<1>3. Complete(cfg[p], mem[p])
  BY <1>1 DEF IInv, MemoryComplete
<1>4. /\ pc' = [pc EXCEPT ![p] = "write"]
      /\ kind' = [kind EXCEPT ![p] = kind[p]] /\ cfg' = [cfg EXCEPT ![p] = cfg[p]]
      /\ mem' = [mem EXCEPT ![p] = mem[p]] /\ plan' = [plan EXCEPT ![p] = plan[p]]
  BY DEF SaveOpen, Goto, IInv, TypeOK
<1>5. /\ fdLive' \in [Procs -> BOOLEAN]
      /\ runs' \in 0 .. MaxRuns /\ faults' \in 0 .. MaxFaults /\ saves' \in Nat
      /\ file' \in FileValues /\ saved' \in Configs \cup {NoConfig}
  BY DEF SaveOpen, IInv, TypeOK, FileValues
<1>6. FileComplete'
  BY DEF SaveOpen, FileComplete, HoldsState
<1>7. "write" \notin {"idle", "planned", "exec"}
  OBVIOUS
<1> QED
  BY <1>1, <1>2, <1>3, <1>4, <1>5, <1>6, <1>7, ProcessMoves

LEMMA SaveWriteIInv ==
  ASSUME IInv, NEW p \in Procs, SaveWrite(p)
  PROVE  IInv'
<1>1. pc[p] = "write" /\ Exit(p)
  BY DEF SaveWrite
<1>2. cfg[p] \in Configs /\ mem[p] \in ClusterStates /\ Complete(cfg[p], mem[p])
  BY <1>1 DEF IInv, TypeOK, MemoryComplete
<1>3. /\ fdLive' \in [Procs -> BOOLEAN]
      /\ runs' \in 0 .. MaxRuns /\ faults' \in 0 .. MaxFaults /\ saves' \in Nat
  BY DEF SaveWrite, IInv, TypeOK
<1>4. /\ file' \in FileValues /\ saved' \in Configs \cup {NoConfig}
      /\ FileComplete'
  <2>1. CASE ~fdLive[p]
    BY <2>1 DEF SaveWrite, IInv, TypeOK, FileComplete
  <2>2. CASE fdLive[p]
    <3>1. file' \in {mem[p], Garbage}
      BY <2>2 DEF SaveWrite, Overwrite
    <3>2. saved' = IF file' = mem[p] THEN cfg[p] ELSE NoConfig
      BY <2>2 DEF SaveWrite
    <3>3. CASE file' = mem[p]
      BY <1>2, <3>2, <3>3 DEF FileValues, FileComplete
    <3>4. CASE file' # mem[p]
      BY <3>1, <3>2, <3>4 DEF FileValues, FileComplete, HoldsState
    <3> QED
      BY <3>3, <3>4
  <2> QED
    BY <2>1, <2>2
<1> QED
  BY <1>1, <1>3, <1>4, ProcessExits

\* Steps that end a command and leave the file alone, or remove it.
LEMMA EndingIInv ==
  ASSUME IInv, NEW p \in Procs,
         \/ ReportAndExit(p) \/ DestroyNotConfirmed(p) \/ Delete(p)
         \/ SaveOpenFails(p) \/ SaveWriteFails(p) \/ Crash(p)
  PROVE  IInv'
<1>1. Exit(p)
  BY DEF ReportAndExit, DestroyNotConfirmed, Delete, SaveOpenFails, SaveWriteFails, Crash
<1>2. /\ fdLive' \in [Procs -> BOOLEAN]
      /\ runs' \in 0 .. MaxRuns /\ faults' \in 0 .. MaxFaults /\ saves' \in Nat
  <2>1. fdLive' \in [Procs -> BOOLEAN]
    BY DEF ReportAndExit, DestroyNotConfirmed, Delete, SaveOpenFails, SaveWriteFails,
       Crash, IInv, TypeOK
  <2>2. runs' = runs /\ (saves' = saves \/ saves' = 0)
    BY DEF ReportAndExit, DestroyNotConfirmed, Delete, SaveOpenFails, SaveWriteFails, Crash
  <2>3. faults' = faults \/ (faults < MaxFaults /\ faults' = faults + 1)
    BY DEF ReportAndExit, DestroyNotConfirmed, Delete, SaveOpenFails, SaveWriteFails, Crash
  <2>4. runs \in 0 .. MaxRuns /\ faults \in 0 .. MaxFaults /\ saves \in Nat
    BY DEF IInv, TypeOK
  <2> QED
    BY <2>1, <2>2, <2>3, <2>4, BoundsAssumption
<1>3. \/ file' = file /\ saved' = saved
      \/ file' \in {Absent, Garbage} /\ saved' = NoConfig
  BY DEF ReportAndExit, DestroyNotConfirmed, Delete, SaveOpenFails, SaveWriteFails, Crash
<1>4. /\ file' \in FileValues /\ saved' \in Configs \cup {NoConfig}
      /\ FileComplete'
  <2>1. CASE file' = file /\ saved' = saved
    BY <2>1 DEF IInv, TypeOK, FileComplete
  <2>2. CASE file' \in {Absent, Garbage} /\ saved' = NoConfig
    BY <2>2 DEF FileValues, FileComplete, HoldsState
  <2> QED
    BY <1>3, <2>1, <2>2
<1> QED
  BY <1>1, <1>2, <1>4, ProcessExits

LEMMA LoadForDestroyIInv ==
  ASSUME IInv, NEW p \in Procs, LoadForDestroy(p)
  PROVE  IInv'
<1>1. CASE HoldsState(file)
  <2>1. /\ pc[p] = "start" /\ "remove" \in Labels
        /\ pc' = [pc EXCEPT ![p] = "remove"]
        /\ mem' = [mem EXCEPT ![p] = file]
        /\ UNCHANGED <<file, kind, cfg, fdLive, runs, faults, saves, saved>>
    BY <1>1 DEF LoadForDestroy, Goto, Labels
  <2>2. plan' = [plan EXCEPT ![p] = plan[p]] /\ plan[p] \in Plans
    BY <1>1 DEF LoadForDestroy, IInv, TypeOK
  <2>3. file \in ClusterStates
    BY <1>1 DEF HoldsState, IInv, TypeOK, FileValues
  <2>4. pc[p] # "idle" /\ "remove" \notin {"planned", "exec", "save", "write"}
    BY <2>1
  <2> QED
    BY <2>1, <2>2, <2>3, <2>4, ProcessMovesQuietly
<1>2. CASE ~HoldsState(file)
  <2>1. Exit(p) /\ UNCHANGED <<file, fdLive, runs, faults, saves, saved>>
    BY <1>2 DEF LoadForDestroy
  <2>2. /\ fdLive' \in [Procs -> BOOLEAN]
        /\ runs' \in 0 .. MaxRuns /\ faults' \in 0 .. MaxFaults /\ saves' \in Nat
        /\ file' \in FileValues /\ saved' \in Configs \cup {NoConfig}
        /\ FileComplete'
    BY <2>1 DEF IInv, TypeOK, FileComplete
  <2> QED
    BY <2>1, <2>2, ProcessExits
<1> QED
  BY <1>1, <1>2

LEMMA StutterIInv == IInv /\ UNCHANGED vars => IInv'
BY DEF IInv, vars, TypeOK, PlanCoversDifferences, MemoryComplete, FileComplete, Desired

LEMMA NextIInv == IInv /\ [Next]_vars => IInv'
<1> SUFFICES ASSUME IInv, Next PROVE IInv'
  BY StutterIInv
<1>1. PICK p \in Procs :
        \/ \E k \in Kinds, c \in Configs : Start(p, k, c)
        \/ Step(p)
        \/ Fault(p)
  BY DEF Next
<1>2. CASE \E k \in Kinds, c \in Configs : Start(p, k, c)
  BY <1>2, StartIInv
<1>3. CASE Step(p)
  BY <1>3, LoadIInv, ExecutionIInv, EndExecutionIInv, SaveOpenIInv, SaveWriteIInv,
     EndingIInv, LoadForDestroyIInv DEF Step
<1>4. CASE Fault(p)
  BY <1>4, EndingIInv DEF Fault
<1> QED
  BY <1>1, <1>2, <1>3, <1>4

-----------------------------------------------------------------------------
\* The invariant holds in every behaviour of the commands.
THEOREM Invariant == Spec => []IInv
BY InitIInv, NextIInv, PTL DEF Spec

\* Type correctness.
THEOREM TypeCorrect == Spec => []TypeOK
<1>1. IInv => TypeOK
  BY DEF IInv
<1> QED
  BY <1>1, Invariant, PTL

\* A state file that loads is in sync with the configuration of the apply that
\* wrote it, whatever ran at the same time, crashed or failed.
THEOREM Converges == Spec => []FileConverged
<1>1. IInv => FileConverged
  BY FileCompleteProperties
<1> QED
  BY <1>1, Invariant, PTL

\* The machines of a state file that loads are at the version of its metadata.
THEOREM StaysUniform == Spec => []UniformVersion
<1>1. IInv => UniformVersion
  BY FileCompleteProperties
<1> QED
  BY <1>1, Invariant, PTL

\* The last operation of a state file that loads ends its history and made its
\* version.
THEOREM HistoryStaysInOrder == Spec => []HistoryAgrees
<1>1. IInv => HistoryAgrees
  BY FileCompleteProperties
<1> QED
  BY <1>1, Invariant, PTL

\* What is left of a plan is all that is left to do.
THEOREM PlansCover == Spec => []PlanCoversDifferences
<1>1. IInv => PlanCoversDifferences
  BY DEF IInv
<1> QED
  BY <1>1, Invariant, PTL

-----------------------------------------------------------------------------
(* Commands run one at a time: there is one terminal.                      *)

Alone == \A p, q \in Procs : p = q

\* What a command that loads the file now starts from.
Loaded == LoadOrFresh(file)

\* m is on the way from s to what the configuration asks for: no machine that
\* stays was dropped, and each has the role it was created with.
OnTheWay(d, s, m) ==
  /\ m.history = s.history
  /\ DOMAIN s.machines \cap DOMAIN d.machines \subseteq DOMAIN m.machines
  /\ \A h \in DOMAIN m.machines :
       m.machines[h].role = IF h \in DOMAIN s.machines
                              THEN s.machines[h].role ELSE d.machines[h]

Changes(c, s) == ~SameResources(Goal(c, s), s)

\* Nobody else touches the file between the load of a command and its save.
AloneInv ==
  \A p \in Procs :
    /\ pc[p] = "planned" => mem[p] = Loaded /\ plan[p] = Reconcile(Desired(p), Loaded)
    /\ pc[p] = "exec" => OnTheWay(Desired(p), Loaded, mem[p])
    /\ pc[p] = "save" => mem[p] = Goal(cfg[p], Loaded)
    /\ pc[p] \in {"exec", "save"} => Changes(cfg[p], Loaded)
    /\ pc[p] = "write" => fdLive[p] /\ file = Empty

\* Until the first fault the history counts the saves.
Counted ==
  faults = 0 =>
    /\ (\A p \in Procs : pc[p] # "write") => Len(Loaded.history) = saves
    /\ \A p \in Procs : pc[p] = "write" => Len(mem[p].history) = saves + 1

LEMMA SameRecord ==
  ASSUME NEW s \in ClusterStates, NEW t,
         t = [machines |-> t.machines, addons |-> t.addons, version |-> t.version,
              last |-> t.last, history |-> t.history],
         s.machines = t.machines, s.addons = t.addons, s.version = t.version,
         s.last = t.last, s.history = t.history
  PROVE  s = t
BY DEF ClusterStates

\* The fields of the state a configuration asks for.
LEMMA GoalFields ==
  ASSUME NEW c, NEW s
  PROVE  /\ Goal(c, s).machines =
              [h \in DOMAIN configToDesired(c).machines |->
                 [role |-> IF h \in DOMAIN s.machines
                             THEN s.machines[h].role ELSE configToDesired(c).machines[h],
                  version |-> c.version]]
         /\ Goal(c, s).addons =
              [a \in DOMAIN configToDesired(c).addons |->
                 [version |-> configToDesired(c).addons[a], installed |-> TRUE]]
         /\ Goal(c, s).version = c.version
         /\ Goal(c, s).last = c.version
         /\ Goal(c, s).history = Append(s.history, c.version)
         /\ Goal(c, s) =
              [machines |-> Goal(c, s).machines, addons |-> Goal(c, s).addons,
               version |-> Goal(c, s).version, last |-> Goal(c, s).last,
               history |-> Goal(c, s).history]
<1> HIDE DEF configToDesired
<1> QED
  BY DEF Goal

\* The abstract store speaks of the same states.
LEMMA StoreGoal ==
  ASSUME NEW c, NEW s
  PROVE  /\ Store!Goal(c, s) = Goal(c, s)
         /\ \A t : Store!SameResources(t, s) <=> SameResources(t, s)
<1>1. Store!configToDesired(c) = configToDesired(c)
  BY DEF Store!configToDesired, configToDesired, Store!EnabledAddons, EnabledAddons
<1> HIDE DEF configToDesired
<1>2. Store!Goal(c, s) = Goal(c, s)
  BY <1>1 DEF Store!Goal, Goal
<1> QED
  BY <1>2 DEF Store!SameResources, SameResources

\* A plan with something to do changes a machine or an addon.
LEMMA PlansChange ==
  ASSUME NEW c \in ClusterConfigs, NEW s \in ClusterStates, SameVersion(s),
         ~InSync(Reconcile(configToDesired(c), s))
  PROVE  Changes(c, s)
<1> DEFINE d == configToDesired(c)
           g == Goal(c, s)
<1> SUFFICES ASSUME g.machines = s.machines, g.addons = s.addons
             PROVE  FALSE
  BY DEF Changes, SameResources
<1>1. d \in Asked /\ d.version = c.version
  BY ConfigToDesiredType
<1>2. /\ DOMAIN g.machines = DOMAIN d.machines
      /\ \A h \in DOMAIN d.machines : g.machines[h].version = c.version
      /\ DOMAIN g.addons = DOMAIN d.addons
      /\ \A a \in DOMAIN d.addons :
           g.addons[a].version = d.addons[a] /\ g.addons[a].installed = TRUE
  <2>1. /\ g.machines = [h \in DOMAIN d.machines |->
                           [role |-> IF h \in DOMAIN s.machines
                                       THEN s.machines[h].role ELSE d.machines[h],
                            version |-> c.version]]
        /\ g.addons = [a \in DOMAIN d.addons |->
                         [version |-> d.addons[a], installed |-> TRUE]]
    BY GoalFields
  <2> HIDE DEF d, g
  <2>2. DOMAIN g.machines = DOMAIN d.machines /\ DOMAIN g.addons = DOMAIN d.addons
    BY <2>1
  <2>3. \A h \in DOMAIN d.machines : g.machines[h].version = c.version
    BY <2>1
  <2>4. \A a \in DOMAIN d.addons :
           g.addons[a].version = d.addons[a] /\ g.addons[a].installed = TRUE
    BY <2>1
  <2> QED
    BY <2>2, <2>3, <2>4
<1> HIDE DEF d, g
<1>3. MissingHosts(d, s) = {} /\ ExtraHosts(d, s) = {} /\ AddonsToRemove(d, s) = {}
  BY <1>2 DEF MissingHosts, ExtraHosts, AddonsToRemove
<1>4. AddonsToInstall(d, s) = {} /\ AddonsToUpgrade(d, s) = {}
  BY <1>2 DEF AddonsToInstall, AddonsToUpgrade
<1>5. reconcileVersion(d, s) = {}
  BY <1>1, <1>2 DEF reconcileVersion, SameVersion
<1>6. Reconcile(d, s) = EmptyPlan
  BY <1>3, <1>4, <1>5 DEF Reconcile, EmptyPlan
<1> QED
  BY <1>6 DEF InSync, d

\* The loop starts on the way.
LEMMA WayStarts ==
  ASSUME NEW d, NEW s
  PROVE  OnTheWay(d, s, s)
BY DEF OnTheWay

\* A loop with nothing left to do has led to the state the store promises.
LEMMA WayEnds ==
  ASSUME NEW c \in ClusterConfigs, NEW s \in ClusterStates, NEW m \in ClusterStates,
         OnTheWay(configToDesired(c), s, m), Covers(configToDesired(c), m, EmptyPlan)
  PROVE  RecordOperation(m, c.version) = Goal(c, s)
<1> DEFINE d == configToDesired(c)
           g == Goal(c, s)
           r == RecordOperation(m, c.version)
<1>1. d \in Asked /\ d.version = c.version
  BY ConfigToDesiredType
<1>2. /\ m.machines \in PartialFcns(Hosts, MachineStates)
      /\ m.addons \in PartialFcns(AddonNames, AddonStates)
  BY DEF ClusterStates
<1>3. /\ m.machines \in [DOMAIN m.machines -> MachineStates]
      /\ m.addons \in [DOMAIN m.addons -> AddonStates]
  BY <1>2, PartialFcnsType
<1>4. /\ g.machines = [h \in DOMAIN d.machines |->
                         [role |-> IF h \in DOMAIN s.machines
                                     THEN s.machines[h].role ELSE d.machines[h],
                          version |-> c.version]]
      /\ g.addons = [a \in DOMAIN d.addons |->
                       [version |-> d.addons[a], installed |-> TRUE]]
      /\ g.version = c.version /\ g.last = c.version
      /\ g.history = Append(s.history, c.version)
      /\ g = [machines |-> g.machines, addons |-> g.addons, version |-> g.version,
              last |-> g.last, history |-> g.history]
  BY GoalFields
<1>5. /\ DOMAIN m.machines = DOMAIN d.machines /\ DOMAIN m.addons = DOMAIN d.addons
      /\ \A h \in DOMAIN m.machines : m.machines[h].version = c.version
      /\ \A a \in DOMAIN m.addons :
           m.addons[a].installed /\ m.addons[a].version = d.addons[a]
  BY <1>1 DEF Covers, EmptyPlan, MissingHosts, ExtraHosts, AddonsToInstall,
              AddonsToUpgrade, AddonsToRemove
<1>6. /\ m.history = s.history
      /\ \A h \in DOMAIN m.machines :
           m.machines[h].role = IF h \in DOMAIN s.machines
                                  THEN s.machines[h].role ELSE d.machines[h]
  BY DEF OnTheWay
<1>7. r \in ClusterStates
  BY <1>1, FinishedInSync
<1>8. /\ r.machines = m.machines /\ r.addons = m.addons
      /\ r.version = c.version /\ r.last = c.version
      /\ r.history = Append(s.history, c.version)
  BY <1>6 DEF RecordOperation, ClusterStates
<1> HIDE DEF d, g, r
<1>9. m.machines = g.machines
  <2>1. \A h \in DOMAIN m.machines :
          m.machines[h] = [role |-> m.machines[h].role, version |-> m.machines[h].version]
    BY <1>3 DEF MachineStates
  <2>2. \A h \in DOMAIN m.machines :
          m.machines[h] = [role |-> IF h \in DOMAIN s.machines
                                      THEN s.machines[h].role ELSE d.machines[h],
                           version |-> c.version]
    BY <1>5, <1>6, <2>1
  <2> QED
    BY <1>3, <1>4, <1>5, <2>2
<1>10. m.addons = g.addons
  <2>1. \A a \in DOMAIN m.addons :
          m.addons[a] = [version |-> d.addons[a], installed |-> TRUE]
    BY <1>3, <1>5 DEF AddonStates
  <2> QED
    BY <1>3, <1>4, <1>5, <2>1
<1>11. r = g
  BY <1>4, <1>7, <1>8, <1>9, <1>10, SameRecord
<1> QED
  BY <1>11 DEF r, g

\* Every action of the plan stays on the way.
LEMMA WayCreates ==
  ASSUME NEW d, NEW s, NEW m \in ClusterStates, OnTheWay(d, s, m),
         NEW h \in MissingHosts(d, m)
  PROVE  OnTheWay(d, s, SetMachine(m, d, h))
<1> DEFINE e == SetEntry(m.machines, h, [role |-> d.machines[h], version |-> d.version])
<1>1. h \in DOMAIN d.machines /\ h \notin DOMAIN m.machines /\ h \notin DOMAIN s.machines
  BY DEF MissingHosts, OnTheWay
<1>2. /\ DOMAIN e = DOMAIN m.machines \cup {h}
      /\ e[h].role = d.machines[h]
      /\ \A y \in DOMAIN m.machines : e[y] = m.machines[y]
  BY <1>1 DEF SetEntry
<1>3. SetMachine(m, d, h) = [m EXCEPT !.machines = e]
  BY DEF SetMachine
<1> HIDE DEF e
<1>4. SetMachine(m, d, h).machines = e /\ SetMachine(m, d, h).history = m.history
  BY <1>3 DEF ClusterStates
<1> QED
  BY <1>1, <1>2, <1>4 DEF OnTheWay

LEMMA WayDeletes ==
  ASSUME NEW d, NEW s, NEW m \in ClusterStates, OnTheWay(d, s, m),
         NEW h \in ExtraHosts(d, m)
  PROVE  OnTheWay(d, s, DeleteMachine(m, h))
<1> DEFINE e == DropEntry(m.machines, h)
<1>1. h \notin DOMAIN d.machines
  BY DEF ExtraHosts
<1>2. /\ DOMAIN e = DOMAIN m.machines \ {h}
      /\ \A y \in DOMAIN e : e[y] = m.machines[y]
  BY DEF DropEntry
<1>3. DeleteMachine(m, h) = [m EXCEPT !.machines = e]
  BY DEF DeleteMachine
<1> HIDE DEF e
<1>4. DeleteMachine(m, h).machines = e /\ DeleteMachine(m, h).history = m.history
  BY <1>3 DEF ClusterStates
<1> QED
  BY <1>1, <1>2, <1>4 DEF OnTheWay

LEMMA WayUpgrades ==
  ASSUME NEW d, NEW s, NEW m \in ClusterStates, OnTheWay(d, s, m), NEW h
  PROVE  OnTheWay(d, s, UpgradeMachine(m, d, h))
<1>1. CASE h \notin DOMAIN m.machines
  BY <1>1 DEF UpgradeMachine
<1>2. CASE h \in DOMAIN m.machines
  <2> DEFINE e == [m.machines EXCEPT ![h].version = d.version]
  <2>1. m.machines \in [DOMAIN m.machines -> MachineStates]
    BY PartialFcnsType DEF ClusterStates
  <2>2. DOMAIN e = DOMAIN m.machines
    BY <2>1
  <2>3. \A y \in DOMAIN e : e[y].role = m.machines[y].role
    BY <1>2, <2>1 DEF MachineStates
  <2>4. UpgradeMachine(m, d, h) = [m EXCEPT !.machines = e]
    BY <1>2 DEF UpgradeMachine, ClusterStates
  <2> HIDE DEF e
  <2>5. UpgradeMachine(m, d, h).machines = e /\ UpgradeMachine(m, d, h).history = m.history
    BY <2>4 DEF ClusterStates
  <2> QED
    BY <2>2, <2>3, <2>5 DEF OnTheWay
<1> QED
  BY <1>1, <1>2

LEMMA WayAddons ==
  ASSUME NEW d, NEW s, NEW m \in ClusterStates, OnTheWay(d, s, m), NEW a
  PROVE  OnTheWay(d, s, SetAddon(m, d, a)) /\ OnTheWay(d, s, RemoveAddon(m, a))
<1>1. /\ SetAddon(m, d, a).machines = m.machines /\ SetAddon(m, d, a).history = m.history
      /\ RemoveAddon(m, a).machines = m.machines /\ RemoveAddon(m, a).history = m.history
  BY DEF SetAddon, RemoveAddon, ClusterStates
<1> QED
  BY <1>1 DEF OnTheWay

-----------------------------------------------------------------------------
(* The steps of the one terminal.                                          *)

AloneAt(p) ==
  /\ pc[p] = "planned" => mem[p] = Loaded /\ plan[p] = Reconcile(Desired(p), Loaded)
  /\ pc[p] = "exec" => OnTheWay(Desired(p), Loaded, mem[p])
  /\ pc[p] = "save" => mem[p] = Goal(cfg[p], Loaded)
  /\ pc[p] \in {"exec", "save"} => Changes(cfg[p], Loaded)
  /\ pc[p] = "write" => fdLive[p] /\ file = Empty

StoreStep == [Store!Next]_StoreOf

SeqInv == IInv /\ AloneInv /\ Counted

\* With one terminal what holds of it holds of all.
LEMMA OfAll ==
  ASSUME Alone, NEW p \in Procs
  PROVE  /\ AloneInv <=> AloneAt(p)
         /\ Counted <=>
              (faults = 0 =>
                 IF pc[p] = "write" THEN Len(mem[p].history) = saves + 1
                                    ELSE Len(Loaded.history) = saves)
         /\ pc[p] # "write" => StoreOf = IF HoldsState(file) THEN file ELSE Absent
         /\ pc[p] = "write" /\ fdLive[p] => StoreOf = mem[p]
<1>1. \A q \in Procs : q = p
  BY DEF Alone
<1>2. AloneInv <=> AloneAt(p)
  BY <1>1 DEF AloneInv, AloneAt
<1>3. Counted <=>
        (faults = 0 =>
           IF pc[p] = "write" THEN Len(mem[p].history) = saves + 1
                              ELSE Len(Loaded.history) = saves)
  BY <1>1 DEF Counted
<1>4. pc[p] # "write" => StoreOf = IF HoldsState(file) THEN file ELSE Absent
  BY <1>1 DEF StoreOf, Writers
<1>5. ASSUME pc[p] = "write", fdLive[p]
      PROVE  StoreOf = mem[p]
  <2>1. Writers = {p}
    BY <1>1, <1>5 DEF Writers
  <2> QED
    BY <2>1 DEF StoreOf
<1> QED
  BY <1>2, <1>3, <1>4, <1>5

LEMMA OfAllNext ==
  ASSUME Alone, NEW p \in Procs
  PROVE  /\ AloneInv' <=> AloneAt(p)'
         /\ Counted' <=>
              (faults' = 0 =>
                 IF pc'[p] = "write" THEN Len(mem'[p].history) = saves' + 1
                                     ELSE Len(Loaded'.history) = saves')
         /\ pc'[p] # "write" => StoreOf' = IF HoldsState(file') THEN file' ELSE Absent
         /\ pc'[p] = "write" /\ fdLive'[p] => StoreOf' = mem'[p]
<1>1. \A q \in Procs : q = p
  BY DEF Alone
<1>2. AloneInv' <=> AloneAt(p)'
  BY <1>1 DEF AloneInv, AloneAt
<1>3. Counted' <=>
        (faults' = 0 =>
           IF pc'[p] = "write" THEN Len(mem'[p].history) = saves' + 1
                               ELSE Len(Loaded'.history) = saves')
  BY <1>1 DEF Counted
<1>4. pc'[p] # "write" => StoreOf' = IF HoldsState(file') THEN file' ELSE Absent
  BY <1>1 DEF StoreOf, Writers
<1>5. ASSUME pc'[p] = "write", fdLive'[p]
      PROVE  StoreOf' = mem'[p]
  <2>1. Writers' = {p}
    BY <1>1, <1>5 DEF Writers
  <2> QED
    BY <2>1 DEF StoreOf
<1> QED
  BY <1>2, <1>3, <1>4, <1>5

\* A step that leaves the file alone, and is not part of writing it.
LEMMA FileUntouched ==
  ASSUME Alone, SeqInv, NEW p \in Procs, pc[p] # "write", pc'[p] # "write",
         file' = file, saves' = saves, faults' = 0 => faults = 0, AloneAt(p)'
  PROVE  AloneInv' /\ Counted' /\ StoreStep
<1>1. AloneInv'
  BY OfAllNext
<1>2. Loaded' = Loaded
  BY DEF Loaded
<1>3. Counted'
  BY <1>2, OfAll, OfAllNext DEF SeqInv
<1>4. StoreOf' = StoreOf
  BY OfAll, OfAllNext
<1> QED
  BY <1>1, <1>3, <1>4 DEF StoreStep

\* An executed action: the file is the one that was loaded.
LEMMA ExecutedAlone ==
  ASSUME Alone, SeqInv, NEW p \in Procs, NEW k, NEW q, NEW m,
         Execute(p, k, q, m), OnTheWay(Desired(p), Loaded, m)
  PROVE  AloneInv' /\ Counted' /\ StoreStep
<1>1. /\ pc[p] = "exec" /\ pc' = pc /\ cfg' = cfg /\ file' = file
      /\ saves' = saves /\ faults' = faults /\ mem'[p] = m
  BY DEF Execute, SeqInv, IInv, TypeOK
<1>2. Changes(cfg[p], Loaded)
  BY <1>1 DEF SeqInv, AloneInv
<1>3. Loaded' = Loaded /\ Desired(p)' = Desired(p)
  BY <1>1 DEF Loaded, Desired
<1>4. AloneAt(p)'
  BY <1>1, <1>2, <1>3 DEF AloneAt
<1> QED
  BY <1>1, <1>4, FileUntouched

LEMMA ExecutionAlone ==
  ASSUME Alone, SeqInv, NEW p \in Procs,
         \/ ExecCreate(p) \/ ExecDelete(p) \/ ExecUpgrade(p)
         \/ ExecInstall(p) \/ ExecUpgradeAddon(p) \/ ExecRemove(p)
  PROVE  AloneInv' /\ Counted' /\ StoreStep
<1>1. pc[p] = "exec"
  BY DEF ExecCreate, ExecDelete, ExecUpgrade, ExecInstall, ExecUpgradeAddon,
         ExecRemove, Execute
<1>2. mem[p] \in ClusterStates /\ Covers(Desired(p), mem[p], plan[p])
  BY <1>1, RunningProcess DEF SeqInv
<1>3. OnTheWay(Desired(p), Loaded, mem[p])
  BY <1>1 DEF SeqInv, AloneInv
<1>4. CASE ExecCreate(p)
  <2>1. PICK h \in plan[p].create :
          Execute(p, "create", [plan[p] EXCEPT !.create = @ \ {h}],
                  SetMachine(mem[p], Desired(p), h))
    BY <1>4 DEF ExecCreate
  <2>2. h \in MissingHosts(Desired(p), mem[p])
    BY <1>2 DEF Covers
  <2> QED
    BY <1>2, <1>3, <2>1, <2>2, WayCreates, ExecutedAlone
<1>5. CASE ExecDelete(p)
  <2>1. PICK h \in plan[p].delete :
          Execute(p, "delete", [plan[p] EXCEPT !.delete = @ \ {h}],
                  DeleteMachine(mem[p], h))
    BY <1>5 DEF ExecDelete
  <2>2. h \in ExtraHosts(Desired(p), mem[p])
    BY <1>2 DEF Covers
  <2> QED
    BY <1>2, <1>3, <2>1, <2>2, WayDeletes, ExecutedAlone
<1>6. CASE ExecUpgrade(p)
  BY <1>2, <1>3, <1>6, WayUpgrades, ExecutedAlone DEF ExecUpgrade
<1>7. CASE ExecInstall(p)
  BY <1>2, <1>3, <1>7, WayAddons, ExecutedAlone DEF ExecInstall
<1>8. CASE ExecUpgradeAddon(p)
  BY <1>2, <1>3, <1>8, WayAddons, ExecutedAlone DEF ExecUpgradeAddon
<1>9. CASE ExecRemove(p)
  BY <1>2, <1>3, <1>9, WayAddons, ExecutedAlone DEF ExecRemove
<1> QED
  BY <1>4, <1>5, <1>6, <1>7, <1>8, <1>9

\* Starting, loading, planning, and the end of the loop.
LEMMA ProgressAlone ==
  ASSUME Alone, SeqInv, NEW p \in Procs,
         \/ \E k \in Kinds, c \in Configs : Start(p, k, c)
         \/ LoadAndPlan(p) \/ BeginExecution(p) \/ EndExecution(p)
         \/ LoadForDestroy(p) \/ BeginStateDelete(p)
  PROVE  AloneInv' /\ Counted' /\ StoreStep
<1>1. /\ DOMAIN pc = Procs /\ DOMAIN mem = Procs /\ DOMAIN plan = Procs
      /\ file' = file /\ saves' = saves /\ faults' = faults
  <2>1. file' = file /\ saves' = saves /\ faults' = faults
    BY DEF Start, LoadAndPlan, BeginExecution, EndExecution, LoadForDestroy,
           BeginStateDelete
  <2>2. DOMAIN pc = Procs /\ DOMAIN mem = Procs /\ DOMAIN plan = Procs
    BY DEF SeqInv, IInv, TypeOK
  <2> QED
    BY <2>1, <2>2
<1>2. Loaded' = Loaded
  BY <1>1 DEF Loaded
<1>3. CASE \E k \in Kinds, c \in Configs : Start(p, k, c)
  <2>1. pc[p] = "idle" /\ pc'[p] = "start"
    BY <1>1, <1>3 DEF Start, Goto
  <2> QED
    BY <1>1, <2>1, FileUntouched DEF AloneAt
<1>4. CASE LoadAndPlan(p)
  <2>1. /\ pc[p] = "start" /\ pc'[p] = "planned" /\ cfg' = cfg
        /\ mem'[p] = Loaded /\ plan'[p] = Reconcile(Desired(p), Loaded)
    BY <1>1, <1>4 DEF LoadAndPlan, Goto, Loaded
  <2>2. Desired(p)' = Desired(p)
    BY <2>1 DEF Desired
  <2>3. AloneAt(p)'
    BY <1>2, <2>1, <2>2 DEF AloneAt
  <2> QED
    BY <1>1, <2>1, <2>3, FileUntouched
<1>5. CASE BeginExecution(p)
  <2>1. /\ pc[p] = "planned" /\ pc'[p] = "exec" /\ cfg' = cfg /\ mem' = mem
        /\ ~InSync(plan[p])
    BY <1>1, <1>5 DEF BeginExecution, Goto
  <2>2. mem[p] = Loaded /\ plan[p] = Reconcile(Desired(p), Loaded)
    BY <2>1 DEF SeqInv, AloneInv
  <2>3. Desired(p)' = Desired(p)
    BY <2>1 DEF Desired
  <2>4. Loaded \in ClusterStates /\ SameVersion(Loaded) /\ cfg[p] \in ClusterConfigs
    BY <2>1, LoadedState, RunningProcess DEF SeqInv, Loaded
  <2>5. Changes(cfg[p], Loaded)
    BY <2>1, <2>2, <2>4, PlansChange DEF Desired
  <2>6. AloneAt(p)'
    BY <1>2, <2>1, <2>2, <2>3, <2>5, WayStarts DEF AloneAt
  <2> QED
    BY <1>1, <2>1, <2>6, FileUntouched
<1>6. CASE EndExecution(p)
  <2>1. /\ pc[p] = "exec" /\ pc'[p] = "save" /\ cfg' = cfg
        /\ plan[p] = EmptyPlan
        /\ mem'[p] = RecordOperation(mem[p], cfg[p].version)
    BY <1>1, <1>6 DEF EndExecution, Goto, InSync
  <2>2. /\ cfg[p] \in ClusterConfigs /\ mem[p] \in ClusterStates
        /\ Covers(Desired(p), mem[p], EmptyPlan) /\ Loaded \in ClusterStates
    BY <2>1, LoadedState, RunningProcess DEF SeqInv, Loaded
  <2>3. OnTheWay(Desired(p), Loaded, mem[p]) /\ Changes(cfg[p], Loaded)
    BY <2>1 DEF SeqInv, AloneInv
  <2>4. mem'[p] = Goal(cfg[p], Loaded)
    BY <2>1, <2>2, <2>3, WayEnds DEF Desired
  <2>5. AloneAt(p)'
    BY <1>2, <2>1, <2>3, <2>4 DEF AloneAt
  <2> QED
    BY <1>1, <2>1, <2>5, FileUntouched
<1>7. CASE LoadForDestroy(p)
  <2>1. pc[p] = "start" /\ pc'[p] \in {"remove", "idle"}
    BY <1>1, <1>7 DEF LoadForDestroy, Goto, Exit
  <2> QED
    BY <1>1, <2>1, FileUntouched DEF AloneAt
<1>8. CASE BeginStateDelete(p)
  <2>1. pc[p] = "start" /\ pc'[p] = "remove"
    BY <1>1, <1>8 DEF BeginStateDelete, Goto
  <2> QED
    BY <1>1, <2>1, FileUntouched DEF AloneAt
<1> QED
  BY <1>3, <1>4, <1>5, <1>6, <1>7, <1>8

\* A command that ends without having touched the file.
LEMMA EndingAlone ==
  ASSUME Alone, SeqInv, NEW p \in Procs,
         \/ ReportAndExit(p) \/ DestroyNotConfirmed(p) \/ SaveOpenFails(p) \/ Crash(p)
  PROVE  AloneInv' /\ Counted' /\ StoreStep
<1>1. pc[p] # "write" /\ pc'[p] = "idle" /\ file' = file /\ saves' = saves
  BY DEF ReportAndExit, DestroyNotConfirmed, SaveOpenFails, Crash, Exit, SeqInv, IInv,
         TypeOK
<1>2. faults' = faults \/ faults' = faults + 1
  BY DEF ReportAndExit, DestroyNotConfirmed, SaveOpenFails, Crash
<1>3. faults \in Nat
  BY BoundsAssumption DEF SeqInv, IInv, TypeOK
<1>4. faults' = 0 => faults = 0
  BY <1>2, <1>3
<1> QED
  BY <1>1, <1>4, FileUntouched DEF AloneAt

\* Saving: the store moves when the file is opened.
LEMMA SaveOpenAlone ==
  ASSUME Alone, SeqInv, NEW p \in Procs, SaveOpen(p)
  PROVE  AloneInv' /\ Counted' /\ StoreStep
<1>1. /\ pc[p] = "save" /\ pc'[p] = "write" /\ file' = Empty /\ mem' = mem
      /\ fdLive'[p] = TRUE /\ saves' = saves /\ faults' = faults
  BY DEF SaveOpen, Goto, SeqInv, IInv, TypeOK
<1>2. /\ cfg[p] \in Configs /\ mem[p] = Goal(cfg[p], Loaded)
      /\ Changes(cfg[p], Loaded)
  BY <1>1, RunningProcess DEF SeqInv, AloneInv
<1>3. Loaded \in ClusterStates /\ cfg[p] \in ClusterConfigs
  BY <1>2, ConfigsAssumption, LoadedState DEF SeqInv, Loaded
<1>4. AloneInv'
  BY <1>1, OfAllNext DEF AloneAt
<1>5. Counted'
  <2>1. mem[p].history = Append(Loaded.history, cfg[p].version)
    <3>1. Goal(cfg[p], Loaded).history = Append(Loaded.history, cfg[p].version)
      BY GoalFields
    <3> QED
      BY <1>2, <3>1
  <2>2. Loaded.history \in Seq(ClusterVersions) /\ cfg[p].version \in ClusterVersions
    BY <1>3 DEF ClusterStates, ClusterConfigs
  <2>3. Len(mem[p].history) = Len(Loaded.history) + 1
    BY <2>1, <2>2
  <2>4. faults = 0 => Len(Loaded.history) = saves
    BY <1>1, OfAll DEF SeqInv
  <2> QED
    BY <1>1, <2>3, <2>4, OfAllNext
<1>6. Store!Base = Loaded
  <2>1. StoreOf = IF HoldsState(file) THEN file ELSE Absent
    BY <1>1, OfAll
  <2>2. Store!FreshState = FreshState
    BY DEF Store!FreshState, FreshState, Store!EmptyFcn, EmptyFcn
  <2> QED
    BY <2>1, <2>2 DEF Store!Base, Loaded, LoadOrFresh, HoldsState
<1>7. StoreOf' = Goal(cfg[p], Loaded)
  BY <1>1, <1>2, OfAllNext
<1>8. Store!Apply(cfg[p])
  BY <1>2, <1>6, <1>7, StoreGoal DEF Store!Apply, Changes
<1> QED
  BY <1>2, <1>4, <1>5, <1>8 DEF StoreStep, Store!Next

LEMMA SaveWriteAlone ==
  ASSUME Alone, SeqInv, NEW p \in Procs, SaveWrite(p)
  PROVE  AloneInv' /\ Counted' /\ StoreStep
<1>1. /\ pc[p] = "write" /\ pc'[p] = "idle" /\ saves' = saves + 1 /\ faults' = faults
  BY DEF SaveWrite, Exit, SeqInv, IInv, TypeOK
<1>2. fdLive[p] /\ file = Empty /\ mem[p] \in ClusterStates
  BY <1>1, RunningProcess DEF SeqInv, AloneInv
<1>3. file' = mem[p]
  BY <1>2 DEF SaveWrite, Overwrite
<1>4. HoldsState(file') /\ Loaded' = mem[p]
  BY <1>2, <1>3, NullsAssumption, MarkersAssumption DEF HoldsState, Loaded, LoadOrFresh
<1>5. AloneInv'
  BY <1>1, OfAllNext DEF AloneAt
<1>6. Counted'
  BY <1>1, <1>4, OfAll, OfAllNext DEF SeqInv
<1>7. StoreOf' = StoreOf
  BY <1>1, <1>2, <1>3, <1>4, OfAll, OfAllNext
<1> QED
  BY <1>5, <1>6, <1>7 DEF StoreStep

\* A save that fails loses the state, as a removal does.
LEMMA LosesAlone ==
  ASSUME Alone, SeqInv, NEW p \in Procs, SaveWriteFails(p) \/ Delete(p)
  PROVE  AloneInv' /\ Counted' /\ StoreStep
<1>1. pc'[p] = "idle"
  BY DEF SaveWriteFails, Delete, Exit, SeqInv, IInv, TypeOK
<1>2. AloneInv'
  BY <1>1, OfAllNext DEF AloneAt
<1>3. ~HoldsState(file')
  <2>1. CASE SaveWriteFails(p)
    <3>1. file = Empty
      BY <2>1 DEF SaveWriteFails, SeqInv, AloneInv
    <3> QED
      BY <2>1, <3>1 DEF SaveWriteFails, HoldsState
  <2>2. CASE Delete(p)
    BY <2>2 DEF Delete, HoldsState
  <2> QED
    BY <2>1, <2>2
<1>4. StoreOf' = Absent
  BY <1>1, <1>3, OfAllNext
<1>5. Counted'
  <2>1. CASE SaveWriteFails(p)
    <3>1. faults' = faults + 1 /\ faults \in Nat
      BY <2>1, BoundsAssumption DEF SaveWriteFails, SeqInv, IInv, TypeOK
    <3>2. faults' # 0
      BY <3>1
    <3> QED
      BY <3>2 DEF Counted
  <2>2. CASE Delete(p)
    <3>1. saves' = 0
      BY <2>2 DEF Delete
    <3>2. Loaded' = FreshState
      BY <1>3 DEF Loaded, LoadOrFresh
    <3>3. Len(FreshState.history) = 0
      BY DEF FreshState
    <3> QED
      BY <1>1, <3>1, <3>2, <3>3, OfAllNext
  <2> QED
    BY <2>1, <2>2
<1>6. Store!Destroy
  BY <1>4 DEF Store!Destroy
<1> QED
  BY <1>2, <1>5, <1>6 DEF StoreStep, Store!Next

LEMMA NextAlone ==
  ASSUME Alone, SeqInv, [Next]_vars
  PROVE  SeqInv' /\ StoreStep
<1>1. IInv'
  BY NextIInv DEF SeqInv
<1>2. CASE UNCHANGED vars
  <2>1. AloneInv' /\ Counted'
    BY <1>2 DEF SeqInv, vars, AloneInv, Counted, Loaded, Desired, Changes
  <2>2. StoreOf' = StoreOf
    BY <1>2 DEF vars, StoreOf, Writers
  <2> QED
    BY <1>1, <2>1, <2>2 DEF SeqInv, StoreStep
<1>3. CASE Next
  <2>1. PICK p \in Procs :
          \/ \E k \in Kinds, c \in Configs : Start(p, k, c)
          \/ Step(p)
          \/ Fault(p)
    BY <1>3 DEF Next
  <2>2. CASE \E k \in Kinds, c \in Configs : Start(p, k, c)
    BY <1>1, <2>2, ProgressAlone DEF SeqInv
  <2>3. CASE Step(p)
    BY <1>1, <2>3, ProgressAlone, ExecutionAlone, SaveOpenAlone, SaveWriteAlone,
       EndingAlone, LosesAlone DEF Step, SeqInv
  <2>4. CASE Fault(p)
    BY <1>1, <2>4, EndingAlone, LosesAlone DEF Fault, SeqInv
  <2> QED
    BY <2>1, <2>2, <2>3, <2>4
<1> QED
  BY <1>2, <1>3

LEMMA InitAlone ==
  ASSUME Init
  PROVE  SeqInv /\ Store!Init
<1>1. IInv
  BY InitIInv
<1>2. \A p \in Procs : pc[p] = "idle"
  BY DEF Init
<1>3. AloneInv
  BY <1>2 DEF AloneInv
<1>4. ~HoldsState(file) /\ saves = 0
  BY DEF Init, HoldsState
<1>5. Counted
  <2>1. Len(Loaded.history) = 0
    BY <1>4 DEF Loaded, LoadOrFresh, FreshState
  <2> QED
    BY <1>2, <1>4, <2>1 DEF Counted
<1>6. StoreOf = Absent
  BY <1>2, <1>4 DEF StoreOf, Writers
<1> QED
  BY <1>1, <1>3, <1>5, <1>6 DEF SeqInv, Store!Init

LEMMA AloneAlways ==
  ASSUME Alone
  PROVE  Spec => []SeqInv
<1>1. SeqInv /\ [Next]_vars => SeqInv'
  BY NextAlone
<1>2. Init => SeqInv
  BY InitAlone
<1> QED
  BY <1>1, <1>2, PTL DEF Spec

\* Run one at a time, the commands implement the atomic store: an apply takes
\* it in one step to the state its configuration fixes, whatever the order of
\* its actions; a destroy or a save that fails empties it; nothing else moves it.
THEOREM AloneRefines ==
  ASSUME Alone
  PROVE  Spec => Refines
<1>1. Init => Store!Init
  BY InitAlone
<1>2. SeqInv /\ [Next]_vars => [Store!Next]_StoreOf
  BY NextAlone DEF StoreStep
<1> QED
  BY <1>1, <1>2, AloneAlways, PTL DEF Spec, Refines, Store!Spec

\* Run one at a time, the commands lose no record of an apply until a save fails
\* or a command crashes.
THEOREM AloneKeepsHistory ==
  ASSUME Alone
  PROVE  Spec => [](faults = 0 => HistoryComplete)
<1>1. ASSUME SeqInv, faults = 0
      PROVE  HistoryComplete
  <2>1. SUFFICES ASSUME HoldsState(file)
                 PROVE  Len(file.history) = saves
    BY DEF HistoryComplete
  <2>2. \A p \in Procs : pc[p] # "write"
    <3>1. file # Empty
      BY <2>1 DEF HoldsState
    <3> QED
      BY <1>1, <3>1 DEF SeqInv, AloneInv
  <2>3. Loaded = file
    BY <2>1 DEF Loaded, LoadOrFresh
  <2> QED
    BY <1>1, <2>2, <2>3 DEF SeqInv, Counted
<1>2. SeqInv => (faults = 0 => HistoryComplete)
  BY <1>1
<1> QED
  BY <1>2, AloneAlways, PTL

-----------------------------------------------------------------------------
(* The fleet commands.                                                     *)

\* A plan with nothing to do is one whose execution would change nothing.
LEMMA SyncedIsUnchanged ==
  ASSUME NEW c \in ClusterConfigs, NEW s \in ClusterStates, SameVersion(s)
  PROVE  InSync(Reconcile(configToDesired(c), s)) <=> SameResources(Goal(c, s), s)
<1> DEFINE d == configToDesired(c)
           g == Goal(c, s)
<1>1. d \in Asked /\ d.version = c.version
  BY ConfigToDesiredType
<1>2. ASSUME InSync(Reconcile(d, s))
      PROVE  SameResources(g, s)
  <2>1. /\ s.machines \in [DOMAIN s.machines -> MachineStates]
        /\ s.addons \in [DOMAIN s.addons -> AddonStates]
    BY PartialFcnsType DEF ClusterStates
  <2>2. Covers(d, s, EmptyPlan)
    <3>1. Covers(d, s, Reconcile(d, s))
      BY <1>1, ReconcileCovers
    <3> QED
      BY <1>2, <3>1 DEF InSync
  <2>3. /\ DOMAIN s.machines = DOMAIN d.machines /\ DOMAIN s.addons = DOMAIN d.addons
        /\ \A h \in DOMAIN s.machines : s.machines[h].version = c.version
        /\ \A a \in DOMAIN s.addons :
             s.addons[a].installed /\ s.addons[a].version = d.addons[a]
    BY <1>1, <2>2 DEF Covers, EmptyPlan, MissingHosts, ExtraHosts, AddonsToInstall,
                AddonsToUpgrade, AddonsToRemove
  <2>4. /\ g.machines = [h \in DOMAIN d.machines |->
                          [role |-> IF h \in DOMAIN s.machines
                                      THEN s.machines[h].role ELSE d.machines[h],
                           version |-> c.version]]
        /\ g.addons = [a \in DOMAIN d.addons |->
                        [version |-> d.addons[a], installed |-> TRUE]]
    BY GoalFields
  <2> HIDE DEF d, g
  <2>5. \A h \in DOMAIN s.machines :
          s.machines[h] = [role |-> s.machines[h].role, version |-> c.version]
    BY <2>1, <2>3 DEF MachineStates
  <2>6. g.machines = s.machines
    BY <2>1, <2>3, <2>4, <2>5
  <2>7. \A a \in DOMAIN s.addons :
          s.addons[a] = [version |-> d.addons[a], installed |-> TRUE]
    BY <2>1, <2>3 DEF AddonStates
  <2>8. g.addons = s.addons
    BY <2>1, <2>3, <2>4, <2>7
  <2> QED
    BY <2>6, <2>8 DEF SameResources
<1> QED
  BY <1>2, PlansChange DEF Changes

\* The fleet's copies of the conversions are those of the state commands.
LEMMA SameConversions ==
  ASSUME NEW c \in ClusterConfigs, NEW d, NEW s
  PROVE  /\ cfgToDesired(c) = configToDesired(c)
         /\ Reconcile(d, stToActual(s)) = Reconcile(d, s)
<1>1. [h \in c.cp \cup c.workers |->
          IF h \in c.cp \ c.workers THEN "control-plane" ELSE "worker"]
        = [h \in c.cp \cup c.workers |->
             IF h \in c.workers THEN "worker" ELSE "control-plane"]
  OBVIOUS
<1>2. [a \in {b \in DOMAIN c.addons : c.addons[b].enabled} |-> c.addons[a].version]
        = [a \in EnabledAddons(c) |-> c.addons[a].version]
  BY DEF EnabledAddons
<1>3. cfgToDesired(c) = configToDesired(c)
  BY <1>1, <1>2 DEF cfgToDesired, configToDesired
<1>4. /\ stToActual(s).machines = s.machines /\ stToActual(s).addons = s.addons
      /\ stToActual(s).version = s.version
  BY DEF stToActual
<1> HIDE DEF stToActual
<1>5. Reconcile(d, stToActual(s)) = Reconcile(d, s)
  BY <1>4 DEF Reconcile, MissingHosts, ExtraHosts, reconcileVersion, AddonsToInstall,
              AddonsToUpgrade, AddonsToRemove
<1> QED
  BY <1>3, <1>5

\* What an apply leaves: a state at one version, with the resources of the goal.
LEMMA AppliedFacts ==
  ASSUME NEW c \in Configs, NEW n, BaseState(n) \in ClusterStates
  PROVE  /\ Applied(c, n) \in ClusterStates /\ SameVersion(Applied(c, n))
         /\ IsFiniteSet(DOMAIN Applied(c, n).machines)
         /\ \A s : SameResources(Applied(c, n), s)
                     <=> SameResources(Goal(c, BaseState(n)), s)
<1> DEFINE d == configToDesired(c)
           b == BaseState(n)
           g == Goal(c, b)
           t == Applied(c, n)
<1>1. c \in ClusterConfigs
  BY ConfigsAssumption
<1>2. d \in Asked /\ d.version = c.version /\ c.version \in ClusterVersions
  BY <1>1, ConfigToDesiredType DEF Asked
<1>3. /\ g.machines = [h \in DOMAIN d.machines |->
                        [role |-> IF h \in DOMAIN b.machines
                                    THEN b.machines[h].role ELSE d.machines[h],
                         version |-> c.version]]
      /\ g.addons = [a \in DOMAIN d.addons |->
                      [version |-> d.addons[a], installed |-> TRUE]]
      /\ g.version = c.version /\ g.last = c.version
      /\ g = [machines |-> g.machines, addons |-> g.addons, version |-> g.version,
              last |-> g.last, history |-> g.history]
  BY GoalFields
<1>4. DOMAIN d.machines = c.cp \cup c.workers
  BY DEF configToDesired
<1>5. t = [g EXCEPT !.history = <<c.version>>]
  BY DEF Applied
<1>6. /\ d.machines \in [DOMAIN d.machines -> Roles] /\ DOMAIN d.machines \subseteq Hosts
      /\ d.addons \in [DOMAIN d.addons -> AddonVersions] /\ DOMAIN d.addons \subseteq AddonNames
      /\ b.machines \in [DOMAIN b.machines -> MachineStates]
  BY <1>2, PartialFcnsType DEF Asked, DesiredStates, ClusterStates
<1> HIDE DEF d, b, g, t
<1>7. /\ t.machines = g.machines /\ t.addons = g.addons /\ t.version = g.version
      /\ t = [machines |-> g.machines, addons |-> g.addons, version |-> g.version,
              last |-> g.last, history |-> <<c.version>>]
  BY <1>3, <1>5
<1>8. g.machines \in PartialFcns(Hosts, MachineStates)
  <2>1. \A h \in DOMAIN d.machines :
          (IF h \in DOMAIN b.machines THEN b.machines[h].role ELSE d.machines[h]) \in Roles
    BY <1>6 DEF MachineStates
  <2>2. g.machines \in [DOMAIN d.machines -> MachineStates]
    BY <1>2, <1>3, <2>1 DEF MachineStates
  <2> QED
    BY <1>6, <2>2 DEF PartialFcns
<1>9. g.addons \in PartialFcns(AddonNames, AddonStates)
  <2>1. \A a \in DOMAIN d.addons :
          [version |-> d.addons[a], installed |-> TRUE] \in AddonStates
    BY <1>6 DEF AddonStates
  <2>2. g.addons \in [DOMAIN d.addons -> AddonStates]
    BY <1>3, <2>1
  <2> QED
    BY <1>6, <2>2 DEF PartialFcns
<1>10. <<c.version>> \in Seq(ClusterVersions)
  BY <1>2
<1>11. t \in ClusterStates
  BY <1>2, <1>3, <1>7, <1>8, <1>9, <1>10 DEF ClusterStates
<1>12. DOMAIN t.machines = DOMAIN d.machines
  BY <1>3, <1>7
<1>13. SameVersion(t)
  <2>1. \A h \in DOMAIN t.machines : t.machines[h].version = c.version
    BY <1>3, <1>7, <1>12
  <2> QED
    BY <1>3, <1>7, <2>1 DEF SameVersion
<1>14. IsFiniteSet(DOMAIN t.machines)
  BY <1>4, <1>12, FilesAssumption, FS_Union
<1> QED
  BY <1>7, <1>11, <1>13, <1>14 DEF SameResources, t, g, b

-----------------------------------------------------------------------------
(* The invariant of the fleet commands.                                    *)

FileNames == {BaseName[r] : r \in Paths}
FileStates == ClusterStates \cup {Absent, Garbage}
Summaries == [name : FileNames, state : FileStates]
Upgrades == [name : FileNames, success : BOOLEAN, actions : SUBSET Hosts]

FleetCommands ==
  [op      : {"none", "status", "diff", "diffState", "upgrade"},
   i       : Nat,
   cfg     : Configs \cup {Unreadable},
   to      : ClusterVersions \cup {NoVersion},
   dryRun  : BOOLEAN,
   list    : Seq(Summaries \cup Upgrades),
   results : PartialFcns(FileNames, Plans \cup {Unreadable}),
   outcome : {"none", "cancelled", "status", "diff", "upgrade"}]

FleetTyped ==
  /\ fleet \in Fleets
  /\ config \in [Refs -> Configs \cup {Unreadable}]
  /\ files \in [Names -> FileStates]
  /\ cmd \in FleetCommands

\* Every state file that loads is one that an apply has left.
StatesWhole ==
  \A n \in Names :
    Loads(files[n]) => SameVersion(files[n]) /\ IsFiniteSet(DOMAIN files[n].machines)

Placed ==
  /\ cmd.i \in 1 .. Len(fleet) + 1
  /\ cmd.op = "diffState" => cmd.i # Len(fleet) + 1 /\ cmd.cfg \in Configs
  /\ cmd.outcome # "none" => cmd.op = "none"
  /\ cmd.outcome \in {"status", "diff"} => cmd.i = Len(fleet) + 1

\* The result of the diff of the reference r.
DiffOf(r) ==
  IF Readable(config[r])
    THEN Reconcile(cfgToDesired(config[r]), stToActual(BaseState(MetaName[r])))
    ELSE Unreadable

Diffing == cmd.op \in {"diff", "diffState"} \/ cmd.outcome = "diff"
Collecting == cmd.op = "status" \/ cmd.outcome = "status"

\* The results so far are those of the references before the current one.
DiffFits ==
  Diffing /\ ~changed =>
    /\ DOMAIN cmd.results = {BaseName[fleet[j]] : j \in 1 .. cmd.i - 1}
    /\ Distinct =>
         \A j \in 1 .. cmd.i - 1 : cmd.results[BaseName[fleet[j]]] = DiffOf(fleet[j])
    /\ cmd.op = "diffState" => cmd.cfg = config[ref] /\ Readable(config[ref])

StatusFits ==
  Collecting /\ ~changed =>
    /\ Len(cmd.list) = cmd.i - 1
    /\ \A j \in 1 .. cmd.i - 1 :
         cmd.list[j] = [name |-> BaseName[fleet[j]], state |-> files[BaseName[fleet[j]]]]

FleetInv == FleetTyped /\ StatesWhole /\ Placed /\ DiffFits /\ StatusFits

\* Every reference has its two names.
LEMMA FleetFacts ==
  ASSUME FleetInv
  PROVE  /\ Len(fleet) \in Nat \ {0} /\ DOMAIN fleet = 1 .. Len(fleet)
         /\ \A j \in 1 .. Len(fleet) : fleet[j] \in Refs
         /\ Refs \subseteq Paths
         /\ \A r \in Refs : /\ BaseName[r] \in Names /\ MetaName[r] \in Names
                            /\ BaseName[r] \in FileNames
                            /\ config[r] \in Configs \cup {Unreadable}
         /\ \A n \in Names : /\ files[n] \in FileStates
                             /\ BaseState(n) \in ClusterStates /\ SameVersion(BaseState(n))
<1>1. fleet \in Seq(Paths) /\ fleet # << >>
  BY FleetsAssumption DEF FleetInv, FleetTyped
<1>2. Len(fleet) \in Nat \ {0} /\ DOMAIN fleet = 1 .. Len(fleet)
  BY <1>1
<1>3. \A j \in 1 .. Len(fleet) : fleet[j] \in Refs /\ fleet[j] \in Paths
  BY <1>1, <1>2 DEF Refs
<1>4. Refs \subseteq Paths
  BY <1>2, <1>3 DEF Refs
<1>5. \A r \in Refs : /\ BaseName[r] \in Names /\ MetaName[r] \in Names
                      /\ BaseName[r] \in FileNames
                      /\ config[r] \in Configs \cup {Unreadable}
  BY <1>4 DEF Names, FileNames, FleetInv, FleetTyped
<1>6. ASSUME NEW n \in Names
      PROVE  /\ files[n] \in FileStates
             /\ BaseState(n) \in ClusterStates /\ SameVersion(BaseState(n))
  <2>1. files[n] \in FileStates
    BY DEF FleetInv, FleetTyped
  <2>2. CASE Loads(files[n])
    BY <2>1, <2>2 DEF FileStates, Loads, BaseState, FleetInv, StatesWhole
  <2>3. CASE ~Loads(files[n])
    <3>1. BaseState(n) = FreshState
      BY <2>3 DEF BaseState
    <3> QED
      BY <2>1, <3>1, FreshStateType
  <2> QED
    BY <2>2, <2>3
<1> QED
  BY <1>2, <1>3, <1>4, <1>5, <1>6

LEMMA IdleFacts ==
  /\ Idle \in FleetCommands
  /\ Idle.op = "none" /\ Idle.i = 1 /\ Idle.outcome = "none"
  /\ Idle.results = EmptyFcn /\ Idle.list = << >>
<1>1. EmptyFcn \in PartialFcns(FileNames, Plans \cup {Unreadable})
  <2>1. EmptyFcn \in [{} -> Plans \cup {Unreadable}]
    BY DEF EmptyFcn
  <2>2. {} \in SUBSET FileNames
    OBVIOUS
  <2> QED
    BY <2>1, <2>2 DEF PartialFcns
<1> HIDE DEF EmptyFcn
<1> QED
  BY <1>1 DEF Idle, FleetCommands

LEMMA FleetInitInv == FleetInit => FleetInv
<1> SUFFICES ASSUME FleetInit PROVE FleetInv
  OBVIOUS
<1>1. cmd = Idle /\ cmd.op = "none" /\ cmd.outcome = "none" /\ cmd.i = 1
  BY IdleFacts DEF FleetInit
<1>2. cmd \in FleetCommands
  BY <1>1, IdleFacts
<1>3. FleetTyped
  BY <1>2 DEF FleetInit, FleetTyped, FileStates
<1>4. StatesWhole
  BY DEF FleetInit, StatesWhole, Loads
<1>5. Placed
  <2>1. fleet \in Seq(Paths) /\ fleet # << >>
    BY FleetsAssumption DEF FleetInit
  <2>2. Len(fleet) \in Nat \ {0}
    BY <2>1
  <2> QED
    BY <1>1, <2>2 DEF Placed
<1>6. DiffFits /\ StatusFits
  BY <1>1 DEF DiffFits, StatusFits, Diffing, Collecting
<1> QED
  BY <1>3, <1>4, <1>5, <1>6 DEF FleetInv

\* What a step of the command must establish.
LEMMA CommandMoves ==
  ASSUME FleetInv, UNCHANGED <<fleet, config, files>>,
         cmd' \in FleetCommands, Placed', DiffFits', StatusFits'
  PROVE  FleetInv'
<1>1. FleetTyped' /\ StatesWhole'
  BY DEF FleetInv, FleetTyped, StatesWhole, Names, Refs
<1> QED
  BY <1>1 DEF FleetInv

\* A new command starts with nothing.
LEMMA BeginInv ==
  ASSUME FleetInv, NEW c \in FleetCommands, Begin(c),
         c.i = 1, c.op # "diffState", c.outcome = "none",
         c.results = EmptyFcn, c.list = << >>
  PROVE  FleetInv'
<1>1. cmd' = c /\ changed' = FALSE /\ UNCHANGED <<fleet, config, files>>
  BY DEF Begin
<1>2. Placed'
  BY <1>1, FleetFacts DEF Placed
<1>3. DiffFits'
  <2>1. DOMAIN EmptyFcn = {}
    BY DEF EmptyFcn
  <2>2. 1 .. cmd'.i - 1 = {}
    BY <1>1
  <2> QED
    BY <1>1, <2>1, <2>2 DEF DiffFits
<1>4. StatusFits'
  BY <1>1 DEF StatusFits
<1> QED
  BY <1>1, <1>2, <1>3, <1>4, CommandMoves

LEMMA CallsInv ==
  ASSUME FleetInv, CallStatus \/ CallDiff \/ CallUpgrade
  PROVE  FleetInv'
<1>1. CASE CallStatus
  <2> DEFINE c == [Idle EXCEPT !.op = "status"]
  <2>1. /\ c \in FleetCommands /\ c.op = "status" /\ c.i = 1 /\ c.outcome = "none"
        /\ c.results = EmptyFcn /\ c.list = << >>
    BY IdleFacts DEF FleetCommands
  <2>2. Begin(c)
    BY <1>1 DEF CallStatus
  <2> HIDE DEF c
  <2> QED
    BY <2>1, <2>2, BeginInv
<1>2. CASE CallDiff
  <2> DEFINE c == [Idle EXCEPT !.op = "diff"]
  <2>1. /\ c \in FleetCommands /\ c.op = "diff" /\ c.i = 1 /\ c.outcome = "none"
        /\ c.results = EmptyFcn /\ c.list = << >>
    BY IdleFacts DEF FleetCommands
  <2>2. Begin(c)
    BY <1>2 DEF CallDiff
  <2> HIDE DEF c
  <2> QED
    BY <2>1, <2>2, BeginInv
<1>3. CASE CallUpgrade
  <2> DEFINE c(v, dry) == [Idle EXCEPT !.op = "upgrade", !.to = v, !.dryRun = dry]
  <2>1. PICK v \in ClusterVersions, dry \in BOOLEAN : Begin(c(v, dry))
    BY <1>3 DEF CallUpgrade
  <2>2. /\ c(v, dry) \in FleetCommands /\ c(v, dry).op = "upgrade" /\ c(v, dry).i = 1
        /\ c(v, dry).outcome = "none"
        /\ c(v, dry).results = EmptyFcn /\ c(v, dry).list = << >>
    BY IdleFacts DEF FleetCommands
  <2> HIDE DEF c
  <2> QED
    BY <2>1, <2>2, BeginInv
<1> QED
  BY <1>1, <1>2, <1>3

\* The end of a command, and of the printing of its result.
LEMMA EndsInv ==
  ASSUME FleetInv, ContextDone \/ EndCommand \/ Printed
  PROVE  FleetInv'
<1>1. UNCHANGED <<fleet, config, files, changed>> /\ cmd \in FleetCommands
  BY DEF ContextDone, EndCommand, Printed, World, FleetInv, FleetTyped
<1>2. CASE ContextDone
  <2>1. /\ cmd' \in FleetCommands /\ cmd'.op = "none" /\ cmd'.outcome = "cancelled"
        /\ cmd'.i = cmd.i
    BY <1>1, <1>2 DEF ContextDone, FleetCommands
  <2>2. Placed'
    BY <1>1, <2>1 DEF FleetInv, Placed
  <2>3. DiffFits' /\ StatusFits'
    BY <2>1 DEF DiffFits, StatusFits, Diffing, Collecting
  <2> QED
    BY <1>1, <2>1, <2>2, <2>3, CommandMoves
<1>3. CASE EndCommand
  <2>1. cmd.op \in {"status", "diff", "upgrade"} /\ cmd.i > Len(fleet)
    BY <1>3 DEF EndCommand
  <2>2. /\ cmd' \in FleetCommands /\ cmd'.op = "none" /\ cmd'.outcome = cmd.op
        /\ cmd'.i = cmd.i /\ cmd'.list = cmd.list /\ cmd'.results = cmd.results
    BY <1>1, <1>3, <2>1 DEF EndCommand, FleetCommands
  <2>3. cmd.i = Len(fleet) + 1
    BY <2>1, FleetFacts DEF FleetInv, Placed
  <2>4. Placed'
    BY <1>1, <2>2, <2>3 DEF FleetInv, Placed
  <2>5. Distinct' = Distinct /\ \A r : DiffOf(r)' = DiffOf(r)
    BY <1>1 DEF Distinct, DiffOf, BaseState
  <2>6. Diffing' => Diffing
    BY <2>2 DEF Diffing
  <2>7. DiffFits'
    BY <1>1, <2>2, <2>5, <2>6 DEF FleetInv, DiffFits
  <2>8. Collecting' => Collecting
    BY <2>2 DEF Collecting
  <2>9. StatusFits'
    BY <1>1, <2>2, <2>8 DEF FleetInv, StatusFits
  <2> QED
    BY <1>1, <2>2, <2>4, <2>7, <2>9, CommandMoves
<1>4. CASE Printed
  <2>1. cmd' = Idle
    BY <1>4 DEF Printed
  <2>2. Placed'
    BY <1>1, <2>1, IdleFacts, FleetFacts DEF Placed
  <2>3. DiffFits' /\ StatusFits'
    BY <2>1, IdleFacts DEF DiffFits, StatusFits, Diffing, Collecting
  <2> QED
    BY <1>1, <2>1, <2>2, <2>3, IdleFacts, CommandMoves
<1> QED
  BY <1>2, <1>3, <1>4

\* The command is at one of the references.
LEMMA AtOne ==
  ASSUME FleetInv, cmd.i \in 1 .. Len(fleet)
  PROVE  /\ ref \in Refs /\ ref = fleet[cmd.i]
         /\ BaseName[ref] \in FileNames /\ BaseName[ref] \in Names /\ MetaName[ref] \in Names
         /\ 1 .. cmd.i = 1 .. cmd.i - 1 \cup {cmd.i} /\ cmd.i \notin 1 .. cmd.i - 1
         /\ cmd.i + 1 \in 1 .. Len(fleet) + 1 /\ cmd.i + 1 - 1 = cmd.i
         /\ 1 .. cmd.i \subseteq DOMAIN fleet
<1>1. ref \in Refs /\ ref = fleet[cmd.i]
  BY FleetFacts DEF ref
<1>2. Len(fleet) \in Nat /\ DOMAIN fleet = 1 .. Len(fleet)
  BY FleetFacts
<1>3. /\ 1 .. cmd.i = 1 .. cmd.i - 1 \cup {cmd.i} /\ cmd.i \notin 1 .. cmd.i - 1
      /\ cmd.i + 1 \in 1 .. Len(fleet) + 1 /\ cmd.i + 1 - 1 = cmd.i
      /\ 1 .. cmd.i \subseteq DOMAIN fleet
  BY <1>2
<1> QED
  BY <1>1, <1>3, FleetFacts

\* The updates of the command's record.
Listed(c, d, i, l) ==
  /\ d \in FleetCommands
  /\ d.op = c.op /\ d.i = i /\ d.outcome = c.outcome /\ d.list = l
Filed(c, d, i, r) ==
  /\ d \in FleetCommands
  /\ d.op = "diff" /\ d.i = i /\ d.outcome = c.outcome /\ d.results = r

LEMMA ListedCommand ==
  ASSUME NEW c \in FleetCommands, NEW i \in Nat, NEW l \in Seq(Summaries \cup Upgrades)
  PROVE  Listed(c, [c EXCEPT !.i = i, !.list = l], i, l)
<1> DEFINE L == Seq(Summaries \cup Upgrades)
           R == PartialFcns(FileNames, Plans \cup {Unreadable})
<1> HIDE DEF L, R
<1> QED
  BY DEF FleetCommands, L, R, Listed

LEMMA FiledCommand ==
  ASSUME NEW c \in FleetCommands, NEW i \in Nat,
         NEW r \in PartialFcns(FileNames, Plans \cup {Unreadable})
  PROVE  /\ Filed(c, [c EXCEPT !.op = "diff", !.i = i, !.cfg = Unreadable, !.results = r],
                  i, r)
         /\ c.op = "diff" => Filed(c, [c EXCEPT !.i = i, !.results = r], i, r)
<1> DEFINE L == Seq(Summaries \cup Upgrades)
           R == PartialFcns(FileNames, Plans \cup {Unreadable})
<1> HIDE DEF L, R
<1>1. Filed(c, [c EXCEPT !.op = "diff", !.i = i, !.cfg = Unreadable, !.results = r], i, r)
  BY DEF FleetCommands, L, R, Filed
<1>2. c.op = "diff" => Filed(c, [c EXCEPT !.i = i, !.results = r], i, r)
  BY DEF FleetCommands, L, R, Filed
<1> QED
  BY <1>1, <1>2

\* One entry more in the list of a command.
LEMMA OneListed ==
  ASSUME NEW c \in FleetCommands, NEW e \in Summaries \cup Upgrades,
         NEW d, d = [c EXCEPT !.i = @ + 1, !.list = Append(@, e)]
  PROVE  Listed(c, d, c.i + 1, Append(c.list, e))
<1> DEFINE n == c.i + 1
           l == Append(c.list, e)
<1>1. n \in Nat /\ c.list \in Seq(Summaries \cup Upgrades)
  BY DEF FleetCommands
<1>2. l \in Seq(Summaries \cup Upgrades)
  BY <1>1
<1>3. d = [c EXCEPT !.i = n, !.list = l]
  BY DEF FleetCommands
<1> HIDE DEF n, l
<1>4. Listed(c, [c EXCEPT !.i = n, !.list = l], n, l)
  BY <1>1, <1>2, ListedCommand, Zenon
<1>5. Listed(c, d, n, l)
  BY <1>3, <1>4, Zenon
<1> QED
  BY <1>5 DEF n, l

LEMMA CollectInv ==
  ASSUME FleetInv, CollectOne
  PROVE  FleetInv'
<1> DEFINE one == [name |-> BaseName[ref], state |-> files[BaseName[ref]]]
<1>1. /\ cmd.op = "status" /\ cmd \in FleetCommands
      /\ UNCHANGED <<fleet, config, files, changed>>
      /\ cmd' = [cmd EXCEPT !.i = @ + 1, !.list = Append(@, one)]
  BY DEF CollectOne, AtRef, World, FleetInv, FleetTyped
<1>2. cmd.i \in 1 .. Len(fleet)
  BY FleetFacts DEF CollectOne, AtRef, FleetInv, Placed
<1>3. one \in Summaries
  BY <1>2, AtOne, FleetFacts DEF Summaries
<1>4. one = [name |-> BaseName[fleet[cmd.i]], state |-> files[BaseName[fleet[cmd.i]]]]
  BY <1>2, AtOne
<1> HIDE DEF one
<1>5. /\ cmd' \in FleetCommands /\ cmd'.op = "status" /\ cmd'.i = cmd.i + 1
      /\ cmd'.outcome = cmd.outcome /\ cmd'.list = Append(cmd.list, one)
  BY <1>1, <1>3, OneListed DEF Listed
<1>6. cmd.outcome = "none"
  BY <1>1 DEF FleetInv, Placed, FleetCommands
<1>7. Placed'
  BY <1>1, <1>2, <1>5, <1>6, AtOne DEF Placed
<1>8. DiffFits'
  BY <1>5, <1>6 DEF DiffFits, Diffing
<1>9. ASSUME ~changed
      PROVE  /\ Len(cmd'.list) = cmd.i
             /\ \A j \in 1 .. cmd.i :
                  cmd'.list[j] = [name |-> BaseName[fleet[j]],
                                  state |-> files[BaseName[fleet[j]]]]
  <2>1. /\ Len(cmd.list) = cmd.i - 1 /\ cmd.list \in Seq(Summaries \cup Upgrades)
        /\ \A j \in 1 .. cmd.i - 1 :
             cmd.list[j] = [name |-> BaseName[fleet[j]],
                            state |-> files[BaseName[fleet[j]]]]
    BY <1>1, <1>9 DEF FleetInv, StatusFits, Collecting, FleetCommands
  <2>2. /\ Len(cmd'.list) = cmd.i /\ cmd'.list[cmd.i] = one
        /\ \A j \in 1 .. cmd.i - 1 : cmd'.list[j] = cmd.list[j]
    BY <1>2, <1>5, <2>1
  <2> QED
    BY <1>2, <1>4, <2>1, <2>2, AtOne
<1>10. StatusFits'
  <2>1. cmd'.i - 1 = cmd.i
    BY <1>2, <1>5
  <2> QED
    BY <1>1, <1>9, <2>1 DEF StatusFits
<1> QED
  BY <1>1, <1>5, <1>7, <1>8, <1>10, CommandMoves

\* One reference more in the results of a diff.
LEMMA FiledInv ==
  ASSUME FleetInv, cmd.op \in {"diff", "diffState"}, cmd.i \in 1 .. Len(fleet),
         UNCHANGED <<fleet, config, files, changed>>,
         NEW result \in Plans \cup {Unreadable}, ~changed => result = DiffOf(ref),
         Filed(cmd, cmd', cmd.i + 1, SetEntry(cmd.results, BaseName[ref], result))
  PROVE  FleetInv'
<1> DEFINE results == SetEntry(cmd.results, BaseName[ref], result)
<1>1. cmd \in FleetCommands /\ cmd.outcome = "none"
  BY DEF FleetInv, FleetTyped, FleetCommands, Placed
<1>3. /\ DOMAIN results = DOMAIN cmd.results \cup {BaseName[ref]}
      /\ results[BaseName[ref]] = result
      /\ \A n \in DOMAIN cmd.results \ {BaseName[ref]} : results[n] = cmd.results[n]
  BY DEF SetEntry
<1>4. /\ cmd' \in FleetCommands /\ cmd'.op = "diff" /\ cmd'.i = cmd.i + 1
      /\ cmd'.outcome = "none" /\ cmd'.results = results
  BY <1>1 DEF Filed
<1> HIDE DEF results
<1>5. Placed'
  BY <1>1, <1>4, AtOne DEF Placed
<1>6. StatusFits'
  BY <1>4 DEF StatusFits, Collecting
<1>7. Distinct' = Distinct /\ \A r : DiffOf(r)' = DiffOf(r)
  BY DEF Distinct, DiffOf, BaseState
<1>8. ASSUME ~changed
      PROVE  /\ DOMAIN results = {BaseName[fleet[j]] : j \in 1 .. cmd.i}
             /\ Distinct =>
                  \A j \in 1 .. cmd.i : results[BaseName[fleet[j]]] = DiffOf(fleet[j])
  <2>1. /\ DOMAIN cmd.results = {BaseName[fleet[j]] : j \in 1 .. cmd.i - 1}
        /\ Distinct =>
             \A j \in 1 .. cmd.i - 1 : cmd.results[BaseName[fleet[j]]] = DiffOf(fleet[j])
    BY <1>8 DEF FleetInv, DiffFits, Diffing
  <2>2. DOMAIN results = {BaseName[fleet[j]] : j \in 1 .. cmd.i}
    BY <1>3, <2>1, AtOne
  <2>3. ASSUME Distinct, NEW j \in 1 .. cmd.i
        PROVE  results[BaseName[fleet[j]]] = DiffOf(fleet[j])
    <3>1. CASE j = cmd.i
      BY <1>3, <1>8, <3>1, AtOne
    <3>2. CASE j # cmd.i
      <4>1. j \in 1 .. cmd.i - 1 /\ j \in DOMAIN fleet /\ cmd.i \in DOMAIN fleet
        BY <3>2, AtOne
      <4>2. BaseName[fleet[j]] # BaseName[ref]
        BY <2>3, <3>2, <4>1, AtOne DEF Distinct
      <4>3. BaseName[fleet[j]] \in DOMAIN cmd.results
        BY <2>1, <4>1
      <4> QED
        BY <1>3, <2>1, <2>3, <4>1, <4>2, <4>3
    <3> QED
      BY <3>1, <3>2
  <2> QED
    BY <2>2, <2>3
<1>9. DiffFits'
  <2>1. cmd'.i - 1 = cmd.i /\ cmd'.op # "diffState"
    BY <1>4, AtOne
  <2> QED
    BY <1>4, <1>7, <1>8, <2>1 DEF DiffFits
<1> QED
  BY <1>4, <1>5, <1>6, <1>9, CommandMoves

LEMMA DiffConfigInv ==
  ASSUME FleetInv, DiffConfig
  PROVE  FleetInv'
<1>1. /\ cmd.op = "diff" /\ cmd \in FleetCommands /\ cmd.outcome = "none"
      /\ UNCHANGED <<fleet, config, files, changed>>
  BY DEF DiffConfig, AtRef, World, FleetInv, FleetTyped, Placed, FleetCommands
<1>2. cmd.i \in 1 .. Len(fleet)
  BY FleetFacts DEF DiffConfig, AtRef, FleetInv, Placed
<1>3. CASE ~Readable(config[ref])
  <2> DEFINE r == SetEntry(cmd.results, BaseName[ref], Unreadable)
             n == cmd.i + 1
  <2>1. n \in Nat /\ r \in PartialFcns(FileNames, Plans \cup {Unreadable})
    BY <1>1, <1>2, AtOne, SetEntryType DEF FleetCommands
  <2>2. cmd' = [cmd EXCEPT !.i = n, !.results = r]
    BY <1>1, <1>3 DEF DiffConfig, FleetCommands
  <2> HIDE DEF n, r
  <2>3. Filed(cmd, [cmd EXCEPT !.i = n, !.results = r], n, r)
    BY <1>1, <2>1, FiledCommand, Zenon
  <2>4. Filed(cmd, cmd', n, r)
    BY <2>2, <2>3, Zenon
  <2>5. Unreadable = DiffOf(ref)
    BY <1>3 DEF DiffOf
  <2> QED
    BY <1>1, <1>2, <2>4, <2>5, FiledInv DEF n, r
<1>4. CASE Readable(config[ref])
  <2>1. config[ref] \in Configs \cup {Unreadable}
    BY <1>2, AtOne, FleetFacts
  <2>2. cmd' = [cmd EXCEPT !.op = "diffState", !.cfg = config[ref]]
    BY <1>4 DEF DiffConfig
  <2>3. /\ cmd' \in FleetCommands /\ cmd'.op = "diffState" /\ cmd'.cfg = config[ref]
        /\ cmd'.i = cmd.i /\ cmd'.results = cmd.results /\ cmd'.outcome = "none"
    BY <1>1, <2>1, <2>2 DEF FleetCommands
  <2>4. Placed'
    BY <1>1, <1>2, <1>4, <2>1, <2>3, FleetFacts DEF FleetInv, Placed, Readable
  <2>5. Distinct' = Distinct /\ \A r : DiffOf(r)' = DiffOf(r)
    BY <1>1 DEF Distinct, DiffOf, BaseState
  <2>6. ref' = ref
    BY <1>1, <2>3 DEF ref
  <2>7. DiffFits'
    BY <1>1, <1>4, <2>3, <2>5, <2>6 DEF FleetInv, DiffFits, Diffing
  <2>8. StatusFits'
    BY <2>3 DEF StatusFits, Collecting
  <2> QED
    BY <1>1, <2>3, <2>4, <2>7, <2>8, CommandMoves
<1> QED
  BY <1>3, <1>4

LEMMA DiffStateInv ==
  ASSUME FleetInv, DiffState
  PROVE  FleetInv'
<1> DEFINE result == Reconcile(cfgToDesired(cmd.cfg), stToActual(BaseState(MetaName[ref])))
           r == SetEntry(cmd.results, BaseName[ref], result)
           n == cmd.i + 1
<1>1. /\ cmd.op = "diffState" /\ cmd \in FleetCommands
      /\ UNCHANGED <<fleet, config, files, changed>>
      /\ cmd' = [cmd EXCEPT !.op = "diff", !.i = @ + 1, !.cfg = Unreadable,
                            !.results = SetEntry(@, BaseName[ref], result)]
  BY DEF DiffState, World, FleetInv, FleetTyped
<1>2. cmd.i \in 1 .. Len(fleet)
  BY <1>1, FleetFacts DEF FleetInv, Placed
<1>3. result \in Plans
  <2>1. cmd.cfg \in ClusterConfigs
    BY <1>1, ConfigsAssumption DEF FleetInv, Placed
  <2>2. BaseState(MetaName[ref]) \in ClusterStates /\ SameVersion(BaseState(MetaName[ref]))
    BY <1>2, AtOne, FleetFacts
  <2> QED
    BY <2>1, <2>2, SameConversions, ConfigToDesiredType, ReconcileCovers
<1>4. ~changed => result = DiffOf(ref)
  BY <1>1 DEF FleetInv, DiffFits, Diffing, DiffOf
<1> HIDE DEF result
<1>5. n \in Nat /\ r \in PartialFcns(FileNames, Plans \cup {Unreadable})
  BY <1>1, <1>2, <1>3, AtOne, SetEntryType DEF FleetCommands
<1>6. cmd' = [cmd EXCEPT !.op = "diff", !.i = n, !.cfg = Unreadable, !.results = r]
  BY <1>1 DEF FleetCommands
<1> HIDE DEF n, r
<1>7. Filed(cmd, [cmd EXCEPT !.op = "diff", !.i = n, !.cfg = Unreadable, !.results = r], n, r)
  BY <1>1, <1>5, FiledCommand, Zenon
<1>8. Filed(cmd, cmd', n, r)
  BY <1>6, <1>7, Zenon
<1> QED
  BY <1>1, <1>2, <1>3, <1>4, <1>8, FiledInv DEF n, r

LEMMA UpgradeOneInv ==
  ASSUME FleetInv, UpgradeOne
  PROVE  FleetInv'
<1> DEFINE s == files[BaseName[ref]]
           one == [name |-> BaseName[ref], success |-> Loads(s),
                   actions |-> IF Loads(s) THEN OtherVersion(s, cmd.to) ELSE {}]
<1>1. /\ cmd.op = "upgrade" /\ cmd \in FleetCommands /\ cmd.outcome = "none"
      /\ UNCHANGED <<fleet, config, files, changed>>
      /\ cmd' = [cmd EXCEPT !.i = @ + 1, !.list = Append(@, one)]
  BY DEF UpgradeOne, AtRef, World, FleetInv, FleetTyped, Placed, FleetCommands
<1>2. cmd.i \in 1 .. Len(fleet)
  BY FleetFacts DEF UpgradeOne, AtRef, FleetInv, Placed
<1>3. one \in Upgrades
  <2>1. s \in FileStates /\ BaseName[ref] \in FileNames
    BY <1>2, AtOne, FleetFacts
  <2>2. (IF Loads(s) THEN OtherVersion(s, cmd.to) ELSE {}) \in SUBSET Hosts
    BY <2>1, PartialFcnsType DEF FileStates, Loads, OtherVersion, ClusterStates
  <2>3. Loads(s) \in BOOLEAN
    BY DEF Loads
  <2> QED
    BY <2>1, <2>2, <2>3 DEF Upgrades
<1> HIDE DEF one
<1>4. /\ cmd' \in FleetCommands /\ cmd'.op = "upgrade" /\ cmd'.i = cmd.i + 1
      /\ cmd'.outcome = "none"
  BY <1>1, <1>3, OneListed DEF Listed
<1>5. Placed'
  BY <1>1, <1>2, <1>4, AtOne DEF Placed
<1>6. DiffFits' /\ StatusFits'
  BY <1>4 DEF DiffFits, StatusFits, Diffing, Collecting
<1> QED
  BY <1>1, <1>4, <1>5, <1>6, CommandMoves

\* Everybody else: what the command has read may be stale from now on.
LEMMA ChangesInv ==
  ASSUME FleetInv, NEW r \in Refs, NEW n \in Names,
         Apply(r) \/ EditConfig(r) \/ LoseState(n)
  PROVE  FleetInv'
<1>1. changed' = TRUE /\ UNCHANGED <<fleet, cmd>>
  BY DEF Apply, EditConfig, LoseState, Change
<1>2. Refs' = Refs /\ Names' = Names
  BY <1>1 DEF Refs, Names
<1>3. Placed' /\ DiffFits' /\ StatusFits'
  BY <1>1 DEF FleetInv, Placed, DiffFits, StatusFits
<1>4. /\ config \in [Refs -> Configs \cup {Unreadable}]
      /\ files \in [Names -> FileStates]
      /\ r \in Refs /\ MetaName[r] \in Names
  BY FleetFacts DEF FleetInv, FleetTyped
<1>5. /\ config' \in [Refs -> Configs \cup {Unreadable}]
      /\ files' \in [Names -> FileStates]
      /\ \A m \in Names :
           Loads(files'[m]) =>
             SameVersion(files'[m]) /\ IsFiniteSet(DOMAIN files'[m].machines)
  <2>1. CASE Apply(r)
    <3> DEFINE s == Applied(config[r], MetaName[r])
    <3>1. /\ config' = config /\ config[r] \in Configs
          /\ files' = [files EXCEPT ![MetaName[r]] = s]
      BY <1>4, <2>1 DEF Apply, Readable
    <3>2. s \in ClusterStates /\ SameVersion(s) /\ IsFiniteSet(DOMAIN s.machines)
      BY <1>4, <3>1, FleetFacts, AppliedFacts
    <3> HIDE DEF s
    <3>3. files' \in [Names -> FileStates]
      BY <1>4, <3>1, <3>2 DEF FileStates
    <3>4. \A m \in Names :
            Loads(files'[m]) =>
              SameVersion(files'[m]) /\ IsFiniteSet(DOMAIN files'[m].machines)
      BY <1>4, <3>1, <3>2 DEF FleetInv, StatesWhole
    <3> QED
      BY <1>4, <3>1, <3>3, <3>4
  <2>2. CASE EditConfig(r)
    BY <1>4, <2>2 DEF EditConfig, FleetInv, StatesWhole
  <2>3. CASE LoseState(n)
    <3>1. PICK x \in {Absent, Garbage} : files' = [files EXCEPT ![n] = x]
      BY <2>3 DEF LoseState
    <3>2. config' = config
      BY <2>3 DEF LoseState
    <3>3. files' \in [Names -> FileStates]
      BY <1>4, <3>1 DEF FileStates
    <3>4. \A m \in Names :
            Loads(files'[m]) =>
              SameVersion(files'[m]) /\ IsFiniteSet(DOMAIN files'[m].machines)
      BY <1>4, <3>1 DEF FleetInv, StatesWhole, Loads
    <3> QED
      BY <1>4, <3>2, <3>3, <3>4
  <2> QED
    BY <2>1, <2>2, <2>3
<1>6. FleetTyped' /\ StatesWhole'
  BY <1>1, <1>2, <1>5 DEF FleetInv, FleetTyped, StatesWhole
<1> QED
  BY <1>3, <1>6 DEF FleetInv

LEMMA FleetNextInv ==
  ASSUME FleetInv, [FleetNext]_fleetVars
  PROVE  FleetInv'
<1>1. CASE UNCHANGED <<fleet, config, files, cmd, changed>>
  <2>1. Refs' = Refs /\ Names' = Names /\ Distinct' = Distinct /\ ref' = ref
    BY <1>1 DEF Refs, Names, Distinct, ref
  <2>2. \A r : DiffOf(r)' = DiffOf(r)
    BY <1>1 DEF DiffOf, BaseState
  <2> QED
    BY <1>1, <2>1, <2>2 DEF FleetInv, FleetTyped, StatesWhole, Placed, DiffFits, StatusFits,
       Diffing, Collecting
<1>2. CASE FleetNext
  <2>1. ASSUME Cancel PROVE UNCHANGED <<fleet, config, files, cmd, changed>>
    BY <2>1 DEF Cancel
  <2>2. ASSUME NEW r \in Refs, Apply(r) \/ EditConfig(r) PROVE FleetInv'
    <3>1. BaseName[r] \in Names
      BY FleetFacts
    <3> QED
      BY <2>2, <3>1, ChangesInv
  <2>3. ASSUME NEW n \in Names, LoseState(n) PROVE FleetInv'
    <3>1. \E r : r \in Refs
      BY DEF Names
    <3> QED
      BY <2>3, <3>1, ChangesInv
  <2> QED
    BY <1>1, <1>2, <2>1, <2>2, <2>3, CallsInv, EndsInv, CollectInv, DiffConfigInv,
       DiffStateInv, UpgradeOneInv DEF FleetNext
<1>3. CASE UNCHANGED fleetVars
  BY <1>1, <1>3 DEF fleetVars
<1> QED
  BY <1>2, <1>3

THEOREM FleetInvariant == FleetSpec => []FleetInv
<1>1. FleetInv /\ [FleetNext]_fleetVars => FleetInv'
  BY FleetNextInv
<1> QED
  BY <1>1, FleetInitInv, PTL DEF FleetSpec

\* A fleet diff says that all is in sync exactly if no apply would change a
\* machine or an addon.
THEOREM DiffIsTrue == FleetSpec => []DiffAgreesWithApply
<1>1. ASSUME FleetInv, cmd.outcome = "diff", Distinct, ~changed
      PROVE  AllInSync(cmd.results) <=>
               \A r \in Refs :
                 /\ Readable(config[r])
                 /\ SameResources(Applied(config[r], MetaName[r]), BaseState(MetaName[r]))
  <2>1. cmd.i - 1 = Len(fleet) /\ DOMAIN fleet = 1 .. Len(fleet)
    BY <1>1, FleetFacts DEF FleetInv, Placed
  <2>2. /\ DOMAIN cmd.results = {BaseName[fleet[j]] : j \in DOMAIN fleet}
        /\ \A j \in DOMAIN fleet : cmd.results[BaseName[fleet[j]]] = DiffOf(fleet[j])
    BY <1>1, <2>1 DEF FleetInv, DiffFits, Diffing
  <2>3. AllInSync(cmd.results) <=>
          \A r \in Refs : DiffOf(r) # Unreadable /\ InSync(DiffOf(r))
    BY <2>2 DEF AllInSync, Refs
  <2>4. ASSUME NEW r \in Refs
        PROVE  DiffOf(r) # Unreadable /\ InSync(DiffOf(r)) <=>
                 /\ Readable(config[r])
                 /\ SameResources(Applied(config[r], MetaName[r]), BaseState(MetaName[r]))
    <3>1. CASE ~Readable(config[r])
      BY <3>1 DEF DiffOf
    <3>2. CASE Readable(config[r])
      <4> DEFINE c == config[r]
                 b == BaseState(MetaName[r])
      <4>1. c \in Configs /\ c \in ClusterConfigs
        BY <1>1, <3>2, FleetFacts, ConfigsAssumption DEF Readable
      <4>2. b \in ClusterStates /\ SameVersion(b)
        BY <1>1, FleetFacts
      <4>3. DiffOf(r) = Reconcile(configToDesired(c), b)
        BY <3>2, <4>1, SameConversions DEF DiffOf
      <4>4. InSync(DiffOf(r)) => DiffOf(r) # Unreadable
        BY FilesAssumption DEF InSync
      <4>5. SameResources(Applied(c, MetaName[r]), b) <=> SameResources(Goal(c, b), b)
        BY <4>1, <4>2, AppliedFacts
      <4>6. InSync(DiffOf(r)) <=> SameResources(Goal(c, b), b)
        BY <4>1, <4>2, <4>3, SyncedIsUnchanged
      <4> QED
        BY <3>2, <4>4, <4>5, <4>6
    <3> QED
      BY <3>1, <3>2
  <2> QED
    BY <2>3, <2>4
<1>2. FleetInv => DiffAgreesWithApply
  BY <1>1 DEF DiffAgreesWithApply
<1> QED
  BY <1>2, FleetInvariant, PTL

\* What is counted one by one is counted under other names.
LEMMA Renamed ==
  ASSUME NEW S, IsFiniteSet(S), NEW T, NEW f \in [S -> T],
         \A x, y \in S : f[x] = f[y] => x = y,
         \A t \in T : \E x \in S : f[x] = t
  PROVE  Cardinality(T) = Cardinality(S) /\ IsFiniteSet(T)
<1>1. f \in Injection(S, T)
  BY DEF Injection, IsInjective
<1>2. f \in Surjection(S, T)
  BY DEF Surjection
<1>3. ExistsBijection(S, T)
  BY <1>1, <1>2 DEF ExistsBijection, Bijection
<1> QED
  BY <1>3, FS_Bijection

\* Finitely many finite sets have finitely many elements together.
LEMMA PairsFinite ==
  ASSUME NEW A, IsFiniteSet(A), NEW D, \A x \in A : IsFiniteSet(D[x])
  PROVE  IsFiniteSet(UNION {{x} \X D[x] : x \in A})
<1> DEFINE P == {{x} \X D[x] : x \in A}
           f == [x \in A |-> {x} \X D[x]]
<1>1. f \in Surjection(A, P)
  BY DEF Surjection
<1>2. IsFiniteSet(P)
  BY <1>1, FS_Surjection
<1>3. ASSUME NEW x \in A
      PROVE  IsFiniteSet({x} \X D[x])
  <2>1. IsFiniteSet({x})
    BY FS_Singleton
  <2> QED
    BY <2>1, FS_Product
<1>4. \A T \in P : IsFiniteSet(T)
  BY <1>3
<1> QED
  BY <1>2, <1>4, FS_UNION

\* The list of a status names every cluster of the fleet once, with its state.
LEMMA StatusCounts ==
  ASSUME FleetInv, cmd.outcome = "status", Distinct, NamesAgree, ~changed
  PROVE  LET sum == Summary(cmd.list)
             states == {n \in {MetaName[r] : r \in Refs} : Loads(files[n])}
         IN
         /\ sum.clusters = Cardinality(Refs) /\ sum.available = Cardinality(states)
         /\ sum.machines = Cardinality(UNION {{n} \X DOMAIN files[n].machines : n \in states})
         /\ \A v \in ClusterVersions :
              sum.versions[v] =
                Cardinality({n \in states : files[n].version = v
                               /\ \A h \in DOMAIN files[n].machines :
                                    files[n].machines[h].version = v})
<1> DEFINE N == Len(fleet)
           l == cmd.list
           states == {n \in {MetaName[r] : r \in Refs} : Loads(files[n])}
           loaded == {j \in DOMAIN l : Loads(l[j].state)}
           name == [j \in 1 .. N |-> BaseName[fleet[j]]]
<1>1. N \in Nat /\ DOMAIN fleet = 1 .. N /\ cmd.i - 1 = N
  BY FleetFacts DEF FleetInv, Placed
<1>2. /\ Len(l) = N /\ DOMAIN l = 1 .. N
      /\ \A j \in 1 .. N : l[j].state = files[name[j]]
  <2>1. /\ Len(l) = N
        /\ \A j \in 1 .. N :
             l[j] = [name |-> BaseName[fleet[j]], state |-> files[BaseName[fleet[j]]]]
    BY <1>1 DEF FleetInv, StatusFits, Collecting
  <2>2. l \in Seq(Summaries \cup Upgrades)
    BY DEF FleetInv, FleetTyped, FleetCommands
  <2> HIDE DEF N, l
  <2>3. DOMAIN l = 1 .. N
    BY <2>1, <2>2
  <2>4. ASSUME NEW j \in 1 .. N
        PROVE  l[j].state = files[name[j]]
    <3>1. l[j] = [name |-> BaseName[fleet[j]], state |-> files[BaseName[fleet[j]]]]
      BY <2>1
    <3>2. l[j].state = files[BaseName[fleet[j]]]
      BY <3>1
    <3> QED
      BY <3>2
  <2> HIDE DEF name
  <2> QED
    BY <2>1, <2>3, <2>4
<1>3. \A j, k \in 1 .. N : name[j] = name[k] => j = k
  BY <1>1 DEF Distinct
<1>4. {MetaName[r] : r \in Refs} = {name[j] : j \in 1 .. N}
  BY <1>1 DEF NamesAgree, Refs
<1>5. \A j \in 1 .. N : name[j] \in Names
  BY <1>1 DEF Names, Refs
<1>6. IsFiniteSet(1 .. N) /\ Cardinality(1 .. N) = N
  <2> HIDE DEF N
  <2>1. 1 \in Int /\ N \in Int
    BY <1>1
  <2>2. (IF 1 > N THEN 0 ELSE N - 1 + 1) = N
    BY <1>1
  <2> QED
    BY <2>1, <2>2, FS_Interval
<1>7. Cardinality(Refs) = N
  <2>1. fleet \in [1 .. N -> Refs]
    <3>1. fleet \in Seq(Paths)
      BY FleetsAssumption DEF FleetInv, FleetTyped
    <3> QED
      BY <1>1, <3>1, FleetFacts
  <2>2. \A j, k \in 1 .. N : fleet[j] = fleet[k] => j = k
    BY <1>3
  <2>3. \A r \in Refs : \E j \in 1 .. N : fleet[j] = r
    BY <1>1 DEF Refs
  <2> QED
    BY <1>6, <2>1, <2>2, <2>3, Renamed
<1> HIDE DEF N, l, name
<1>8. /\ loaded = {j \in 1 .. N : Loads(files[name[j]])}
      /\ loaded \subseteq 1 .. N /\ IsFiniteSet(loaded)
  BY <1>2, <1>6, FS_Subset
<1>9. states = {name[j] : j \in loaded}
  BY <1>4, <1>8
<1> HIDE DEF states, loaded
<1>10. Cardinality(loaded) = Cardinality(states)
  <2> DEFINE f == [j \in loaded |-> name[j]]
  <2>1. f \in [loaded -> states]
    BY <1>9
  <2>2. \A j, k \in loaded : f[j] = f[k] => j = k
    BY <1>3, <1>8
  <2>3. \A n \in states : \E j \in loaded : f[j] = n
    BY <1>9
  <2> HIDE DEF f
  <2> QED
    BY <1>8, <2>1, <2>2, <2>3, Renamed
<1>11. ASSUME NEW v \in ClusterVersions
       PROVE  Cardinality({j \in loaded : l[j].state.version = v}) =
                Cardinality({n \in states : files[n].version = v
                               /\ \A h \in DOMAIN files[n].machines :
                                    files[n].machines[h].version = v})
  <2> DEFINE S == {j \in loaded : l[j].state.version = v}
             T == {n \in states : files[n].version = v
                     /\ \A h \in DOMAIN files[n].machines : files[n].machines[h].version = v}
             f == [j \in S |-> name[j]]
  <2>1. \A j \in loaded : l[j].state = files[name[j]] /\ SameVersion(files[name[j]])
    BY <1>2, <1>5, <1>8 DEF FleetInv, StatesWhole
  <2>2. f \in [S -> T]
    BY <1>9, <2>1 DEF SameVersion
  <2>3. \A j, k \in S : f[j] = f[k] => j = k
    BY <1>3, <1>8
  <2>4. \A n \in T : \E j \in S : f[j] = n
    BY <1>9, <2>1
  <2>5. IsFiniteSet(S)
    BY <1>8, FS_Subset
  <2> HIDE DEF S, T, f
  <2>6. Cardinality(S) = Cardinality(T)
    BY <2>2, <2>3, <2>4, <2>5, Renamed
  <2> QED
    BY <2>6 DEF S, T
<1>12. MachineCount(l, loaded) =
         Cardinality(UNION {{n} \X DOMAIN files[n].machines : n \in states})
  <2> DEFINE D == [j \in loaded |-> DOMAIN l[j].state.machines]
             S == UNION {{j} \X D[j] : j \in loaded}
             T == UNION {{n} \X DOMAIN files[n].machines : n \in states}
             f == [p \in S |-> <<name[p[1]], p[2]>>]
  <2>1. \A j \in loaded : D[j] = DOMAIN files[name[j]].machines /\ IsFiniteSet(D[j])
    BY <1>2, <1>5, <1>8 DEF FleetInv, StatesWhole
  <2> HIDE DEF D
  <2>2. IsFiniteSet(S)
    <3>1. IsFiniteSet(loaded) /\ \A j \in loaded : IsFiniteSet(D[j])
      BY <1>8, <2>1
    <3> QED
      BY <3>1, PairsFinite
  <2>3. \A p : p \in S <=> \E j \in loaded : \E h \in D[j] : p = <<j, h>>
    OBVIOUS
  <2>4. \A p : p \in T <=> \E n \in states : \E h \in DOMAIN files[n].machines : p = <<n, h>>
    OBVIOUS
  <2>5. MachineCount(l, loaded) = Cardinality(S)
    BY DEF MachineCount, S, D
  <2> HIDE DEF S, T
  <2>6. f \in [S -> T]
    BY <1>9, <2>1, <2>3, <2>4
  <2>7. \A p, q \in S : f[p] = f[q] => p = q
    BY <1>3, <1>8, <2>3
  <2>8. ASSUME NEW t \in T
        PROVE  \E p \in S : f[p] = t
    <3>1. PICK n \in states : \E h \in DOMAIN files[n].machines : t = <<n, h>>
      BY <2>4
    <3>2. PICK h \in DOMAIN files[n].machines : t = <<n, h>>
      BY <3>1
    <3>3. PICK j \in loaded : name[j] = n
      BY <1>9
    <3>4. <<j, h>> \in S
      BY <2>1, <2>3, <3>3
    <3>5. f[<<j, h>>] = t
      BY <3>2, <3>3, <3>4
    <3> QED
      BY <3>4, <3>5
  <2> HIDE DEF f
  <2>9. Cardinality(S) = Cardinality(T)
    BY <2>2, <2>6, <2>7, <2>8, Renamed
  <2> QED
    BY <2>5, <2>9 DEF T
<1>13. /\ Summary(l).clusters = N /\ Summary(l).available = Cardinality(loaded)
       /\ Summary(l).machines = MachineCount(l, loaded)
       /\ \A v \in ClusterVersions :
            Summary(l).versions[v] = Cardinality({j \in loaded : l[j].state.version = v})
  BY <1>2 DEF Summary, loaded
<1> QED
  BY <1>7, <1>10, <1>11, <1>12, <1>13 DEF states, l

\* The totals of a fleet status are those of the states that the applies of its
\* clusters have left.
THEOREM StatusIsTrue == FleetSpec => []StatusTotalsTrue
<1>1. FleetInv => StatusTotalsTrue
  BY StatusCounts DEF StatusTotalsTrue
<1> QED
  BY <1>1, FleetInvariant, PTL
=============================================================================

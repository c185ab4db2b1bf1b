---------------------------- MODULE ClusterContents ---------------------------
(***************************************************************************)
(* What a cluster holds: the addons that the addon providers install       *)
(* (pkg/providers/addon), the backups of etcd and of the state that        *)
(* pkg/lifecycle/backup makes, and the lock of the state backend.          *)
(*                                                                         *)
(* The repository offers these as a library.  Its users are goroutines     *)
(* that hold the cluster's lock from the first call of an operation to the *)
(* record of its success, and release it once.  Between two steps the      *)
(* publisher of an addon may change its manifest or chart.                 *)
(*                                                                         *)
(* An addon is the set of its resources.  A release of helm is kept in the *)
(* cluster beside them, so that a snapshot holds both.                     *)
(***************************************************************************)
EXTENDS Naturals

CONSTANTS Users,     \* the goroutines that use the library
          Manifests, \* the addons installed from a ManifestURL
          Charts,    \* the addons installed by helm
          Resources, \* the resources an addon may have
          Prefixes,  \* the prefixes of backups
          LastSecond, \* bound: the seconds are 0 .. LastSecond
          MaxOps, MaxFaults, MaxPublished \* bounds: operations, failures, publications

Addons == Manifests \cup Charts

ASSUME AddonsAssumption == Manifests \cap Charts = {}
ASSUME ContentsBounds == {LastSecond, MaxOps, MaxFaults, MaxPublished} \subseteq Nat

VARIABLES
  call,       \* where each user is
  locked,     \* LocalBackend.locks of the cluster
  published,  \* what the URL or the chart of each addon serves now
  contents,   \* the resources and the releases of the addons in the cluster
  recorded,   \* the addons in the state
  snapshots,  \* what the snapshot of each name holds: nothing if there is none
  stateFiles, \* what each exported state holds: nothing if there is none, or a torn one
  results,    \* the BackupResults returned, with what they were taken of
  ops, faults, publications,
  \* The others only observe.
  attempts,   \* how often each prefix has been used with each stamp
  dropped     \* the resources an addon had before a publication and not after

cluster == <<contents, recorded>>
files   == <<snapshots, stateFiles, results, attempts>>
source  == <<published, publications, dropped>>
vars == <<call, locked, cluster, files, source, ops, faults>>

Seconds  == 0 .. LastSecond
Contents == [resources : [Addons -> SUBSET Resources], releases : SUBSET Charts]
Outside == [at |-> "outside"]

\* Mutant: the stamp of a name stops at the day.
SnapshotPathByDay(prefix, second) == <<prefix, 0>>

\* The name of a snapshot, whose stamp is the local time to the second; the name of the state
\* that goes with it differs from it in nothing else.
SnapshotPath(prefix, second) == <<prefix, second>>

ContentsTypeOK ==
  /\ \A u \in Users : call[u].at \in {"outside", "fetch", "apply", "helm", "record",
                                      "snapshot", "export", "restore", "unlock"}
  /\ locked \in BOOLEAN
  /\ published \in [Addons -> SUBSET Resources] /\ dropped \in [Addons -> SUBSET Resources]
  /\ contents \in Contents
  /\ recorded \subseteq Addons
  /\ snapshots \in [Prefixes \X Seconds -> SUBSET Contents]
  /\ stateFiles \in [Prefixes \X Seconds -> SUBSET SUBSET Addons]
  /\ ops \in 0 .. MaxOps /\ faults \in 0 .. MaxFaults /\ publications \in 0 .. MaxPublished

Init ==
  /\ call = [u \in Users |-> Outside]
  /\ locked = FALSE
  /\ published \in [Addons -> SUBSET Resources]
  /\ contents = [resources |-> [a \in Addons |-> {}], releases |-> {}]
  /\ recorded = {}
  /\ snapshots = [p \in Prefixes \X Seconds |-> {}]
  /\ stateFiles = [p \in Prefixes \X Seconds |-> {}]
  /\ results = {}
  /\ ops = 0 /\ faults = 0 /\ publications = 0
  /\ attempts = [p \in Prefixes \X Seconds |-> 0]
  /\ dropped = [a \in Addons |-> {}]

-----------------------------------------------------------------------------
(* The lock and the calls.                                                 *)

\* Mutant: a lock that is taken is given again.
LockUnchecked == locked' = TRUE

\* Lock; a call that finds the cluster locked fails and changes nothing.
Lock ==
  /\ ~locked
  /\ locked' = TRUE

\* A user takes the lock and calls an operation.
Begin(u, operation) ==
  /\ call[u] = Outside
  /\ ops < MaxOps
  /\ Lock
  /\ ops' = ops + 1
  /\ call' = [call EXCEPT ![u] = operation]

AddonOps == {"install", "upgrade", "uninstall"}

BeginAddon(u, op, a) ==
  /\ Begin(u, [at |-> IF a \in Charts THEN "helm" ELSE "fetch", op |-> op, addon |-> a])
  /\ UNCHANGED <<cluster, files, source, faults>>

\* Manager.Backup reads the clock.  Its stamp has no zone: an hour comes twice when
\* summer time ends.
BeginBackup(u, prefix, second, includeState) ==
  /\ Begin(u, [at |-> "snapshot", prefix |-> prefix, stamp |-> second, state |-> includeState])
  /\ attempts' = [attempts EXCEPT ![<<prefix, second>>] = @ + 1]
  /\ UNCHANGED <<cluster, snapshots, stateFiles, results, source, faults>>

\* The caller restores a backup it has the result of.
BeginRestore(u, r) ==
  /\ Begin(u, [at |-> "restore", result |-> r])
  /\ UNCHANGED <<cluster, files, source, faults>>

Proceed(u, at) == call' = [call EXCEPT ![u].at = at]
Return(u) == call' = [call EXCEPT ![u] = [at |-> "unlock"]]
Fault == faults < MaxFaults /\ faults' = faults + 1

\* UnlockFunc, when the operation has returned.
Unlock(u) ==
  /\ call[u].at = "unlock"
  /\ locked' = FALSE
  /\ call' = [call EXCEPT ![u] = Outside]
  /\ UNCHANGED <<cluster, files, source, ops, faults>>

-----------------------------------------------------------------------------
(* Addons.                                                                 *)

\* Mutant: a manifest that cannot be fetched is taken for an empty one.
FetchErrorIgnored(u) ==
  /\ call[u].at = "fetch"
  /\ \E rs \in {published[call[u].addon], {}} :
       call' = [call EXCEPT ![u] = [at |-> "apply", op |-> @.op, addon |-> @.addon,
                                    fetched |-> rs]]
  /\ UNCHANGED <<locked, cluster, files, source, ops, faults>>

\* Install and Uninstall of a manifest both begin by fetching it.
Fetch(u) ==
  /\ call[u].at = "fetch"
  /\ \/ /\ call' = [call EXCEPT ![u] = [at |-> "apply", op |-> @.op, addon |-> @.addon,
                                        fetched |-> published[@.addon]]]
        /\ UNCHANGED faults
     \/ Fault /\ Return(u)
  /\ UNCHANGED <<locked, cluster, files, source, ops>>

\* What an addon's resources become when the ones in rs are applied or deleted.
Applied(is, op, rs) == IF op = "uninstall" THEN is \ rs ELSE is \cup rs

\* Apply or Delete; a call that fails has done a part of it.
ApplyManifest(u) ==
  /\ call[u].at = "apply"
  /\ LET c == call[u]
         become(rs) == contents' = [contents EXCEPT !.resources[c.addon] = Applied(@, c.op, rs)]
     IN \/ become(c.fetched) /\ Proceed(u, "record") /\ UNCHANGED faults
        \/ /\ Fault /\ Return(u)
           /\ \E done \in SUBSET c.fetched : become(done)
  /\ UNCHANGED <<locked, recorded, files, source, ops>>

\* A release that exists is not installed again, and only one that exists is
\* upgraded or uninstalled.
HelmAccepts(op, a) == (op = "install") <=> (a \notin contents.releases)

\* The contents when helm has installed, upgraded or uninstalled the chart.
HelmResult(op, a) ==
  IF op = "uninstall"
    THEN [resources |-> [contents.resources EXCEPT ![a] = {}],
          releases  |-> contents.releases \ {a}]
    ELSE [resources |-> [contents.resources EXCEPT ![a] = published[a]],
          releases  |-> contents.releases \cup {a}]

\* Install (with AddRepo), Upgrade and Uninstall of a chart; helm may fail with
\* all done, while it waits for the pods.
HelmCall(u) ==
  /\ call[u].at = "helm"
  /\ LET op == call[u].op
         a  == call[u].addon
     IN \/ /\ HelmAccepts(op, a)
           /\ contents' = HelmResult(op, a)
           /\ Proceed(u, "record")
           /\ UNCHANGED faults
        \/ /\ ~HelmAccepts(op, a)
           /\ Return(u)
           /\ UNCHANGED <<contents, faults>>
        \/ /\ HelmAccepts(op, a)
           /\ Fault
           /\ contents' \in {contents, HelmResult(op, a)}
           /\ Return(u)
  /\ UNCHANGED <<locked, recorded, files, source, ops>>

\* The caller saves the success in the state.
Record(u) ==
  /\ call[u].at = "record"
  /\ recorded' = IF call[u].op = "uninstall" THEN recorded \ {call[u].addon}
                 ELSE recorded \cup {call[u].addon}
  /\ Return(u)
  /\ UNCHANGED <<locked, contents, files, source, ops, faults>>

\* The publisher changes an addon.
Publish(a, rs) ==
  /\ publications < MaxPublished
  /\ publications' = publications + 1
  /\ published' = [published EXCEPT ![a] = rs]
  /\ dropped' = [dropped EXCEPT ![a] = @ \cup (published[a] \ rs)]
  /\ UNCHANGED <<call, locked, cluster, files, ops, faults>>

-----------------------------------------------------------------------------
(* Backups.                                                                *)

Path(c) == SnapshotPath(c.prefix, c.stamp)

\* A BackupResult, and what the cluster and the state were at its snapshot.
Result(c, of, state) ==
  [prefix |-> c.prefix, stamp |-> c.stamp, state |-> c.state, path |-> Path(c),
   contents |-> of, recorded |-> state]

\* The snapshot is saved over whatever has its name.
SaveSnapshot(u) ==
  /\ call[u].at = "snapshot"
  /\ LET c == call[u] IN
       \/ /\ snapshots' = [snapshots EXCEPT ![Path(c)] = {contents}]
          /\ UNCHANGED faults
          /\ IF c.state
               THEN /\ call' = [call EXCEPT ![u] = [at |-> "export",
                                                    result |-> Result(c, contents, recorded)]]
                    /\ UNCHANGED results
               ELSE /\ results' = results \cup {Result(c, contents, recorded)}
                    /\ Return(u)
       \/ Fault /\ Return(u) /\ UNCHANGED <<snapshots, results>>
  /\ UNCHANGED <<locked, cluster, stateFiles, attempts, source, ops>>

\* ExportState and the write of what it returns.  A failure, even in the middle
\* of the file, returns no result and leaves the snapshot.
ExportState(u) ==
  /\ call[u].at = "export"
  /\ LET r == call[u].result IN
       \/ /\ stateFiles' = [stateFiles EXCEPT ![r.path] = {recorded}]
          /\ results' = results \cup {r}
          /\ UNCHANGED faults
       \/ /\ Fault
          /\ stateFiles' \in {stateFiles, [stateFiles EXCEPT ![r.path] = {}]}
          /\ UNCHANGED results
  /\ Return(u)
  /\ UNCHANGED <<locked, cluster, snapshots, attempts, source, ops>>

\* Restore puts the snapshot back, and nothing into the state.
Restore(u) ==
  /\ call[u].at = "restore"
  /\ \/ contents' \in snapshots[call[u].result.path] /\ UNCHANGED faults
     \/ Fault /\ UNCHANGED contents
  /\ Return(u)
  /\ UNCHANGED <<locked, recorded, files, source, ops>>

Next ==
  \/ \E u \in Users :
       \/ \E op \in AddonOps, a \in Addons : BeginAddon(u, op, a)
       \/ \E prefix \in Prefixes, second \in Seconds, s \in BOOLEAN :
            BeginBackup(u, prefix, second, s)
       \/ \E r \in results : BeginRestore(u, r)
       \/ Fetch(u) \/ ApplyManifest(u) \/ HelmCall(u) \/ Record(u)
       \/ SaveSnapshot(u) \/ ExportState(u) \/ Restore(u)
       \/ Unlock(u)
  \/ \E a \in Addons, rs \in SUBSET Resources : Publish(a, rs)

Spec == Init /\ [][Next]_vars

-----------------------------------------------------------------------------
(* Properties.                                                             *)

\* No other backup had the prefix and the stamp of this one.
Alone(r) == attempts[<<r.prefix, r.stamp>>] = 1

\* The snapshot of a result is the cluster as it was when the backup was made,
\* whatever has happened since: later operations, backups that failed half way,
\* backups with other prefixes.  Only a backup with the same prefix in the same
\* second of local time, be it an hour later, may have replaced it.
SnapshotsStay == \A r \in results : Alone(r) => snapshots[r.path] = {r.contents}

\* The state of a result is the state as it was when the snapshot was taken, so
\* that the two can be restored together, although the state is exported after
\* the snapshot: the lock keeps other operations from recording in between.
StateFitsSnapshot ==
  \A r \in results : r.state /\ Alone(r) => stateFiles[r.path] = {r.recorded}

\* When an uninstall has succeeded, what is left of the addon is no more than
\* resources that its publisher has dropped since they may have been installed;
\* nothing is left of a chart, which helm remembers.  A failed install or
\* upgrade before, or a restore, makes no difference.
UninstallLeavesOnlyDropped ==
  \A u \in Users :
    call[u].at = "record" /\ call[u].op = "uninstall" =>
      LET a == call[u].addon IN
      contents.resources[a] \subseteq IF a \in Charts THEN {} ELSE dropped[a]
=============================================================================

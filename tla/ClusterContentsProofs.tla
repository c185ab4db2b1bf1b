------------------------ MODULE ClusterContentsProofs ------------------------
(***************************************************************************)
(* Backups stay what they were, their states fit them, and an uninstall    *)
(* leaves only what the publisher has dropped, for any users, addons and   *)
(* prefixes, and however often anything fails.                             *)
(*                                                                         *)
(* All three rest on the lock: one user at a time is in an operation       *)
(* (LockFits).  Above it are two invariants that do not need each other,   *)
(* BackupsFit and AddonsFit.                                               *)
(***************************************************************************)
EXTENDS ClusterContents, TLAPS

Paths == Prefixes \X Seconds
Results ==
  [prefix : Prefixes, stamp : Seconds, state : BOOLEAN, path : Paths,
   contents : Contents, recorded : SUBSET Addons]

FetchCalls    == [at : {"fetch"}, op : AddonOps, addon : Manifests]
ManifestCalls == [at : {"apply", "record"}, op : AddonOps, addon : Manifests,
                  fetched : SUBSET Resources]
ChartCalls    == [at : {"helm", "record"}, op : AddonOps, addon : Charts]
BackupCalls   == [at : {"snapshot"}, prefix : Prefixes, stamp : Seconds, state : BOOLEAN]
ResultCalls   == [at : {"export", "restore"}, result : Results]
Returned      == [at : {"unlock"}]
Inside ==
  FetchCalls \cup ManifestCalls \cup ChartCalls \cup BackupCalls \cup ResultCalls \cup Returned

Typed ==
  /\ call \in [Users -> Inside \cup {Outside}]
  /\ published \in [Addons -> SUBSET Resources] /\ dropped \in [Addons -> SUBSET Resources]
  /\ contents \in Contents
  /\ recorded \in SUBSET Addons
  /\ snapshots \in [Paths -> SUBSET Contents]
  /\ stateFiles \in [Paths -> SUBSET SUBSET Addons]
  /\ results \in SUBSET Results
  /\ attempts \in [Paths -> Nat]

\* Whoever is in an operation has taken the lock, and nobody else is in one.
LockFits ==
  \A u \in Users : call[u] # Outside => locked /\ \A v \in Users \ {u} : call[v] = Outside

Base == Typed /\ LockFits

Key(r) == <<r.prefix, r.stamp>>

\* A result has the name of its backup, and as long as no other backup had that
\* name its files hold what they did.
ResultsFit ==
  \A r \in results :
    /\ r.path = Key(r)
    /\ attempts[Key(r)] > 0
    /\ attempts[Key(r)] = 1 => snapshots[Key(r)] = {r.contents}
    /\ attempts[Key(r)] = 1 /\ r.state => stateFiles[Key(r)] = {r.recorded}

\* A backup that is going on has been counted, so that an earlier one of its
\* name is no longer alone.
NewName(k) == attempts[k] = 1 => \A r \in results : Key(r) # k

BackupGoesOn ==
  \A u \in Users :
    /\ call[u].at = "snapshot" => attempts[Key(call[u])] > 0 /\ NewName(Key(call[u]))
    /\ call[u].at = "export" =>
         LET r == call[u].result IN
         /\ r.path = Key(r)
         /\ attempts[Key(r)] > 0
         /\ NewName(Key(r))
         /\ attempts[Key(r)] = 1 => snapshots[Key(r)] = {r.contents}
         /\ r.recorded = recorded

BackupsFit == ResultsFit /\ BackupGoesOn

\* Every resource of an addon, in the cluster or in a snapshot, is published or
\* was dropped.
Explained(a) == published[a] \cup dropped[a]

ContentsExplained ==
  /\ \A a \in Addons : contents.resources[a] \subseteq Explained(a)
  /\ \A p \in Paths : \A s \in snapshots[p] : \A a \in Addons :
       s.resources[a] \subseteq Explained(a)

\* What was fetched explains the contents too, although others may have been
\* published since.
UninstallGoesOn ==
  \A u \in Users :
    call[u].at = "apply" =>
      LET a == call[u].addon IN
      /\ contents.resources[a] \subseteq call[u].fetched \cup dropped[a]
      /\ call[u].fetched \subseteq Explained(a)

AddonsFit == ContentsExplained /\ UninstallGoesOn /\ UninstallLeavesOnlyDropped

-----------------------------------------------------------------------------
(* Base: types and the lock.                                               *)

LEMMA PathType ==
  ASSUME NEW p \in Prefixes, NEW s \in Seconds
  PROVE  SnapshotPath(p, s) = <<p, s>> /\ <<p, s>> \in Paths
BY DEF SnapshotPath, Paths

LEMMA NobodyOutsideHolds == Outside \notin Inside
BY DEF Outside, Inside, FetchCalls, ManifestCalls, ChartCalls, BackupCalls, ResultCalls, Returned

\* The fields of a call are those of the place it is at.
LEMMA CallFields ==
  ASSUME NEW c \in Inside \cup {Outside}
  PROVE  /\ c.at = "fetch" => c \in FetchCalls
         /\ c.at = "helm" => c \in ChartCalls
         /\ c.at = "apply" => c \in ManifestCalls
         /\ c.at = "record" => c \in ChartCalls \cup ManifestCalls
         /\ c.at = "snapshot" => c \in BackupCalls
         /\ c.at \in {"export", "restore"} => c \in ResultCalls
         /\ c.at = "unlock" => c \in Returned
         /\ c.at = "outside" <=> c = Outside
BY DEF Outside, Inside, FetchCalls, ManifestCalls, ChartCalls, BackupCalls, ResultCalls, Returned

\* A user who is in an operation moves, and the others are outside.
LEMMA HolderMoves ==
  ASSUME Base, NEW u \in Users, call[u] # Outside, NEW c \in Inside \cup {Outside},
         call' = [call EXCEPT ![u] = c], c # Outside => locked' = locked
  PROVE  /\ call' \in [Users -> Inside \cup {Outside}]
         /\ LockFits'
         /\ call'[u] = c
         /\ \A v \in Users \ {u} : call'[v] = Outside
<1>1. call \in [Users -> Inside \cup {Outside}] /\ locked
  BY DEF Base, Typed, LockFits
<1>2. \A v \in Users \ {u} : call[v] = Outside
  BY DEF Base, LockFits
<1>3. call' \in [Users -> Inside \cup {Outside}] /\ call'[u] = c
  BY <1>1
<1>4. \A v \in Users \ {u} : call'[v] = Outside
  BY <1>1, <1>2
<1> QED
  BY <1>1, <1>3, <1>4 DEF LockFits

\* A user takes the lock.
LEMMA BeginFits ==
  ASSUME Base, NEW u \in Users, NEW c \in Inside, Begin(u, c)
  PROVE  /\ call' \in [Users -> Inside \cup {Outside}]
         /\ LockFits'
         /\ call'[u] = c
         /\ \A v \in Users \ {u} : call'[v] = Outside
<1>1. \A v \in Users : call[v] = Outside
  BY DEF Base, LockFits, Begin, Lock
<1>2. call \in [Users -> Inside \cup {Outside}] /\ locked' /\ call' = [call EXCEPT ![u] = c]
  BY DEF Base, Typed, Begin, Lock
<1>3. call' \in [Users -> Inside \cup {Outside}] /\ call'[u] = c
  BY <1>2
<1>4. \A v \in Users \ {u} : call'[v] = Outside
  BY <1>1, <1>2
<1> QED
  BY <1>2, <1>3, <1>4 DEF LockFits

LEMMA BeginAddonBase ==
  ASSUME Base, NEW u \in Users, NEW op \in AddonOps, NEW a \in Addons, BeginAddon(u, op, a)
  PROVE  Base'
<1> DEFINE c == [at |-> IF a \in Charts THEN "helm" ELSE "fetch", op |-> op, addon |-> a]
<1>1. c \in Inside
  BY DEF Inside, FetchCalls, ChartCalls, Addons
<1>2. Begin(u, c)
  BY DEF BeginAddon
<1> QED
  BY <1>1, <1>2, BeginFits DEF Base, Typed, BeginAddon, cluster, files, source

LEMMA BeginBackupBase ==
  ASSUME Base, NEW u \in Users, NEW prefix \in Prefixes,
         NEW second \in Seconds, NEW s \in BOOLEAN, BeginBackup(u, prefix, second, s)
  PROVE  Base'
<1> DEFINE c == [at |-> "snapshot", prefix |-> prefix, stamp |-> second, state |-> s]
<1>1. c \in Inside /\ <<prefix, second>> \in Paths
  BY DEF Inside, BackupCalls, Base, Typed, Paths
<1>2. Begin(u, c)
  BY DEF BeginBackup
<1>3. attempts' \in [Paths -> Nat]
  BY <1>1 DEF BeginBackup, Base, Typed
<1> QED
  BY <1>1, <1>2, <1>3, BeginFits DEF Base, Typed, BeginBackup, cluster, source

LEMMA BeginRestoreBase ==
  ASSUME Base, NEW u \in Users, NEW r \in results, BeginRestore(u, r)
  PROVE  Base'
<1> DEFINE c == [at |-> "restore", result |-> r]
<1>1. c \in Inside
  BY DEF Inside, ResultCalls, Base, Typed
<1>2. Begin(u, c)
  BY DEF BeginRestore
<1> QED
  BY <1>1, <1>2, BeginFits DEF Base, Typed, BeginRestore, cluster, files, source

LEMMA ReturnType == [at |-> "unlock"] \in Inside
BY DEF Inside, Returned

LEMMA FetchBase ==
  ASSUME Base, NEW u \in Users, Fetch(u)
  PROVE  Base'
<1>1. call[u] # Outside /\ call[u] \in FetchCalls
  BY CallFields DEF Base, Typed, Fetch
<1> DEFINE c == [at |-> "apply", op |-> call[u].op, addon |-> call[u].addon,
                 fetched |-> published[call[u].addon]]
<1>2. c \in Inside
  BY <1>1 DEF FetchCalls, ManifestCalls, Inside, Base, Typed, Addons
<1>3. PICK d \in Inside : call' = [call EXCEPT ![u] = d]
  BY <1>2, ReturnType DEF Fetch, Return, Base, Typed
<1>4. locked' = locked
  BY DEF Fetch
<1>5. call' \in [Users -> Inside \cup {Outside}] /\ LockFits'
  BY <1>1, <1>3, <1>4, HolderMoves
<1> QED
  BY <1>5 DEF Base, Typed, Fetch, cluster, files, source

LEMMA Become ==
  ASSUME Typed, NEW a \in Addons, NEW rs \in SUBSET Resources
  PROVE  [contents EXCEPT !.resources[a] = rs] \in Contents
BY DEF Typed, Contents

LEMMA ApplyManifestBase ==
  ASSUME Base, NEW u \in Users, ApplyManifest(u)
  PROVE  Base'
<1>1. call[u] # Outside /\ call[u] \in ManifestCalls /\ call[u].addon \in Addons
  BY CallFields DEF Base, Typed, ApplyManifest, ManifestCalls, Addons
<1>2. [call[u] EXCEPT !.at = "record"] \in Inside
  BY <1>1 DEF ManifestCalls, Inside
<1>3. PICK d \in Inside : call' = [call EXCEPT ![u] = d]
  BY <1>2, ReturnType DEF ApplyManifest, Return, Proceed, Base, Typed
<1>4. contents' \in Contents
  <2>1. PICK rs \in SUBSET Resources :
          contents' = [contents EXCEPT !.resources[call[u].addon] =
                         Applied(@, call[u].op, rs)]
    BY <1>1 DEF ApplyManifest, ManifestCalls
  <2>2. contents.resources[call[u].addon] \in SUBSET Resources
    BY <1>1 DEF Base, Typed, Contents, ManifestCalls
  <2>3. Applied(contents.resources[call[u].addon], call[u].op, rs) \in SUBSET Resources
    BY <2>2 DEF Applied
  <2> QED
    BY <1>1, <2>1, <2>3, Become DEF Base, ManifestCalls
<1>5. call' \in [Users -> Inside \cup {Outside}] /\ LockFits'
  BY <1>1, <1>3, HolderMoves DEF ApplyManifest
<1> QED
  BY <1>4, <1>5 DEF Base, Typed, ApplyManifest, files, source

LEMMA HelmResultType ==
  ASSUME Typed, NEW op \in AddonOps, NEW a \in Charts
  PROVE  HelmResult(op, a) \in Contents
<1>1. published[a] \in SUBSET Resources /\ a \in Addons
  BY DEF Typed, Addons
<1> QED
  BY <1>1 DEF HelmResult, Typed, Contents

LEMMA HelmCallBase ==
  ASSUME Base, NEW u \in Users, HelmCall(u)
  PROVE  Base'
<1>1. call[u] # Outside /\ call[u] \in ChartCalls
  BY CallFields DEF Base, Typed, HelmCall
<1>2. [call[u] EXCEPT !.at = "record"] \in Inside
  BY <1>1 DEF ChartCalls, Inside
<1>3. PICK d \in Inside : call' = [call EXCEPT ![u] = d]
  BY <1>2, ReturnType DEF HelmCall, Return, Proceed, Base, Typed
<1>4. contents' \in Contents
  BY <1>1, HelmResultType DEF HelmCall, ChartCalls, Base, Typed
<1>5. call' \in [Users -> Inside \cup {Outside}] /\ LockFits'
  BY <1>1, <1>3, HolderMoves DEF HelmCall
<1> QED
  BY <1>4, <1>5 DEF Base, Typed, HelmCall, files, source

LEMMA RecordBase ==
  ASSUME Base, NEW u \in Users, Record(u)
  PROVE  Base'
<1>1. call[u] # Outside /\ call[u] \in ChartCalls \cup ManifestCalls
  BY CallFields DEF Base, Typed, Record
<1>2. call' \in [Users -> Inside \cup {Outside}] /\ LockFits'
  BY <1>1, ReturnType, HolderMoves DEF Record, Return
<1>3. recorded' \in SUBSET Addons
  BY <1>1 DEF Record, ChartCalls, ManifestCalls, Addons, Base, Typed
<1> QED
  BY <1>2, <1>3 DEF Base, Typed, Record, files, source

LEMMA SaveSnapshotBase ==
  ASSUME Base, NEW u \in Users, SaveSnapshot(u)
  PROVE  Base'
<1>1. call[u] # Outside /\ call[u] \in BackupCalls
  BY CallFields DEF Base, Typed, SaveSnapshot
<1>2. Path(call[u]) \in Paths
  BY <1>1, PathType DEF Path, BackupCalls
<1>3. Result(call[u], contents, recorded) \in Results
  BY <1>1, <1>2 DEF Result, Results, BackupCalls, Base, Typed
<1>4. [at |-> "export", result |-> Result(call[u], contents, recorded)] \in Inside
  BY <1>3 DEF Inside, ResultCalls
<1>5. PICK d \in Inside : call' = [call EXCEPT ![u] = d]
  BY <1>4, ReturnType DEF SaveSnapshot, Return
<1>6. call' \in [Users -> Inside \cup {Outside}] /\ LockFits'
  BY <1>1, <1>5, HolderMoves DEF SaveSnapshot
<1>7. snapshots' \in [Paths -> SUBSET Contents] /\ results' \in SUBSET Results
  BY <1>2, <1>3 DEF SaveSnapshot, Base, Typed
<1> QED
  BY <1>6, <1>7 DEF Base, Typed, SaveSnapshot, cluster, source

LEMMA ExportStateBase ==
  ASSUME Base, NEW u \in Users, ExportState(u)
  PROVE  Base'
<1>1. call[u] # Outside /\ call[u] \in ResultCalls
  BY CallFields DEF Base, Typed, ExportState
<1>2. call' \in [Users -> Inside \cup {Outside}] /\ LockFits'
  BY <1>1, ReturnType, HolderMoves DEF ExportState, Return
<1>3. call[u].result \in Results /\ call[u].result.path \in Paths
  BY <1>1 DEF ResultCalls, Results
<1>4. stateFiles' \in [Paths -> SUBSET SUBSET Addons] /\ results' \in SUBSET Results
  BY <1>3 DEF ExportState, Base, Typed
<1> QED
  BY <1>2, <1>4 DEF Base, Typed, ExportState, cluster, source

LEMMA RestoreBase ==
  ASSUME Base, NEW u \in Users, Restore(u)
  PROVE  Base'
<1>1. call[u] # Outside /\ call[u] \in ResultCalls
  BY CallFields DEF Base, Typed, Restore
<1>2. call' \in [Users -> Inside \cup {Outside}] /\ LockFits'
  BY <1>1, ReturnType, HolderMoves DEF Restore, Return
<1>3. call[u].result.path \in Paths
  BY <1>1 DEF ResultCalls, Results
<1>4. contents' \in Contents
  BY <1>3 DEF Restore, Base, Typed
<1> QED
  BY <1>2, <1>4 DEF Base, Typed, Restore, files, source

LEMMA UnlockBase ==
  ASSUME Base, NEW u \in Users, Unlock(u)
  PROVE  Base'
<1>1. call[u] # Outside
  BY CallFields DEF Base, Typed, Unlock, Outside
<1>2. call' \in [Users -> Inside \cup {Outside}] /\ LockFits'
  BY <1>1, HolderMoves DEF Unlock
<1> QED
  BY <1>2 DEF Base, Typed, Unlock, cluster, files, source

LEMMA PublishBase ==
  ASSUME Base, NEW a \in Addons, NEW rs \in SUBSET Resources, Publish(a, rs)
  PROVE  Base'
BY DEF Base, Typed, LockFits, Publish, cluster, files

LEMMA StutterBase == Base /\ UNCHANGED vars => Base'
BY DEF Base, Typed, LockFits, vars, cluster, files, source

LEMMA NextBase == Base /\ [Next]_vars => Base'
BY BeginAddonBase, BeginBackupBase, BeginRestoreBase, FetchBase, ApplyManifestBase,
   HelmCallBase, RecordBase, SaveSnapshotBase, ExportStateBase, RestoreBase, UnlockBase,
   PublishBase, StutterBase
DEF Next

LEMMA InitBase == Init => Base
<1> SUFFICES ASSUME Init PROVE Base
  OBVIOUS
<1>1. contents \in Contents
  BY DEF Init, Contents
<1> QED
  BY <1>1 DEF Init, Base, Typed, LockFits, Paths

\* The state is well-formed, and one user at a time is in an operation.
THEOREM OneAtATime == Spec => []Base
BY InitBase, NextBase, PTL DEF Spec

-----------------------------------------------------------------------------
(* Backups.                                                                *)

\* A step that is none of a backup's own.
NoBackupStep ==
  /\ UNCHANGED files
  /\ \A v \in Users : call'[v].at \in {"snapshot", "export"} =>
       call'[v] = call[v] /\ recorded' = recorded

\* A user moves, or begins, at a place outside of backups.
LEMMA MovesElsewhere ==
  ASSUME Base, NEW u \in Users, call[u] # Outside \/ ~locked, UNCHANGED files,
         NEW c, c.at \notin {"snapshot", "export"}, call' = [call EXCEPT ![u] = c]
  PROVE  NoBackupStep
<1>1. \A v \in Users \ {u} : call[v] = Outside
  BY DEF Base, LockFits
<1>2. call'[u] = c /\ \A v \in Users \ {u} : call'[v] = Outside
  BY <1>1 DEF Base, Typed
<1>3. Outside.at = "outside"
  BY DEF Outside
<1> QED
  BY <1>2, <1>3 DEF NoBackupStep

LEMMA BackupSteps ==
  ASSUME Base, Next
  PROVE  \/ NoBackupStep
         \/ \E u \in Users :
              \/ \E prefix \in Prefixes, second \in Seconds, s \in BOOLEAN :
                   BeginBackup(u, prefix, second, s)
              \/ SaveSnapshot(u)
              \/ ExportState(u)
<1> DEFINE returned == [at |-> "unlock"]
<1>1. ASSUME NEW u \in Users, NEW op \in AddonOps, NEW a \in Addons, BeginAddon(u, op, a)
      PROVE  NoBackupStep
  <2> DEFINE c == [at |-> IF a \in Charts THEN "helm" ELSE "fetch", op |-> op, addon |-> a]
  <2>1. c.at \notin {"snapshot", "export"} /\ UNCHANGED files
    BY <1>1 DEF BeginAddon
  <2>2. ~locked /\ call' = [call EXCEPT ![u] = c]
    BY <1>1 DEF BeginAddon, Begin, Lock
  <2> HIDE DEF c
  <2> QED
    BY <2>1, <2>2, MovesElsewhere
<1>2. ASSUME NEW u \in Users, NEW r \in results, BeginRestore(u, r)
      PROVE  NoBackupStep
  BY <1>2, MovesElsewhere DEF BeginRestore, Begin, Lock
<1>3. ASSUME NEW u \in Users, Fetch(u)
      PROVE  NoBackupStep
  <2> DEFINE c == [at |-> "apply", op |-> call[u].op, addon |-> call[u].addon,
                   fetched |-> published[call[u].addon]]
  <2>1. call[u] # Outside /\ UNCHANGED files /\ returned.at = "unlock" /\ c.at = "apply"
    BY <1>3 DEF Fetch, Outside
  <2>2. call' = [call EXCEPT ![u] = c] \/ call' = [call EXCEPT ![u] = returned]
    BY <1>3 DEF Fetch, Return, Base, Typed
  <2> HIDE DEF c, returned
  <2> QED
    BY <2>1, <2>2, MovesElsewhere
<1>4. ASSUME NEW u \in Users, ApplyManifest(u) \/ HelmCall(u)
      PROVE  NoBackupStep
  <2> DEFINE c == [call[u] EXCEPT !.at = "record"]
  <2>1. call[u] # Outside /\ UNCHANGED files /\ call[u] \in ManifestCalls \cup ChartCalls
    BY <1>4, CallFields DEF ApplyManifest, HelmCall, Outside, Base, Typed
  <2>2. c.at = "record" /\ returned.at = "unlock"
    BY <2>1 DEF ManifestCalls, ChartCalls
  <2>3. call' = [call EXCEPT ![u] = c] \/ call' = [call EXCEPT ![u] = returned]
    BY <1>4 DEF ApplyManifest, HelmCall, Return, Proceed, Base, Typed
  <2> HIDE DEF c, returned
  <2> QED
    BY <2>1, <2>2, <2>3, MovesElsewhere
<1>5. ASSUME NEW u \in Users, Record(u) \/ Restore(u) \/ Unlock(u)
      PROVE  NoBackupStep
  <2>1. call[u] # Outside /\ UNCHANGED files
    BY <1>5 DEF Record, Restore, Unlock, Outside
  <2>2. returned.at = "unlock" /\ Outside.at = "outside"
    BY DEF Outside
  <2>3. call' = [call EXCEPT ![u] = Outside] \/ call' = [call EXCEPT ![u] = returned]
    BY <1>5 DEF Record, Restore, Unlock, Return
  <2> HIDE DEF returned
  <2> QED
    BY <2>1, <2>2, <2>3, MovesElsewhere
<1>6. ASSUME \E a \in Addons, rs \in SUBSET Resources : Publish(a, rs)
      PROVE  NoBackupStep
  BY <1>6 DEF Publish, NoBackupStep, cluster
<1> QED
  BY <1>1, <1>2, <1>3, <1>4, <1>5, <1>6 DEF Next

LEMMA NoBackupStepFits ==
  ASSUME Base, Base', BackupsFit, NoBackupStep
  PROVE  BackupsFit'
BY DEF BackupsFit, ResultsFit, BackupGoesOn, NoBackupStep, files, NewName, Key

LEMMA ResultType ==
  ASSUME Base, NEW r \in results
  PROVE  Key(r) \in Paths /\ attempts[Key(r)] \in Nat
BY DEF Base, Typed, Results, Key, Paths

LEMMA BeginBackupFits ==
  ASSUME Base, Base', BackupsFit, NEW u \in Users, NEW prefix \in Prefixes,
         NEW second \in Seconds, NEW s \in BOOLEAN, BeginBackup(u, prefix, second, s)
  PROVE  BackupsFit'
<1> DEFINE k == <<prefix, second>>
<1> DEFINE c == [at |-> "snapshot", prefix |-> prefix, stamp |-> second, state |-> s]
<1>1. /\ attempts' = [attempts EXCEPT ![k] = @ + 1]
      /\ UNCHANGED <<snapshots, stateFiles, results, recorded>>
      /\ Begin(u, c)
  BY DEF BeginBackup, cluster
<1>2. call'[u] = c /\ \A v \in Users \ {u} : call'[v] = Outside
  <2>1. c \in Inside
    BY DEF Inside, BackupCalls, Base, Typed
  <2> QED
    BY <1>1, <2>1, BeginFits
<1>3. k \in Paths /\ attempts[k] \in Nat
  BY DEF Base, Typed, Paths
<1>4. \A r \in results :
        /\ attempts'[Key(r)] > 0
        /\ attempts'[Key(r)] = 1 => attempts[Key(r)] = 1 /\ Key(r) # k
  <2> SUFFICES ASSUME NEW r \in results
               PROVE  /\ attempts'[Key(r)] > 0
                      /\ attempts'[Key(r)] = 1 => attempts[Key(r)] = 1 /\ Key(r) # k
    OBVIOUS
  <2>1. attempts[Key(r)] > 0
    BY DEF BackupsFit, ResultsFit
  <2>2. attempts'[Key(r)] = IF Key(r) = k THEN attempts[k] + 1 ELSE attempts[Key(r)]
    BY <1>1, ResultType DEF Base, Typed
  <2> QED
    BY <2>1, <2>2, <1>3, ResultType
<1>5. ResultsFit'
  BY <1>1, <1>4 DEF BackupsFit, ResultsFit, Key
<1>6. attempts'[k] = attempts[k] + 1
  BY <1>1, <1>3 DEF Base, Typed
<1>7. attempts'[k] > 0 /\ (attempts'[k] = 1 => \A r \in results' : Key(r) # k)
  BY <1>1, <1>3, <1>4, <1>6
<1>8. BackupGoesOn'
  BY <1>2, <1>7 DEF BackupGoesOn, NewName, Key, Outside
<1> QED
  BY <1>5, <1>8 DEF BackupsFit

LEMMA SaveSnapshotFits ==
  ASSUME Base, Base', BackupsFit, NEW u \in Users, SaveSnapshot(u)
  PROVE  BackupsFit'
<1> DEFINE c == call[u]
<1> DEFINE k == Key(c)
<1> DEFINE new == Result(c, contents, recorded)
<1>1. c \in BackupCalls /\ c.at = "snapshot" /\ c # Outside
  BY CallFields DEF Base, Typed, SaveSnapshot
<1>2. Path(c) = k /\ k \in Paths
  BY <1>1, PathType DEF Path, Key, BackupCalls
<1>3. attempts[k] > 0 /\ (attempts[k] = 1 => \A r \in results : Key(r) # k)
  BY <1>1 DEF BackupsFit, BackupGoesOn, NewName
<1>4. /\ Key(new) = k /\ new.path = k
      /\ new.contents = contents /\ new.recorded = recorded /\ new.state = c.state
  BY <1>2 DEF Result, Key
<1>5. UNCHANGED <<recorded, stateFiles, attempts>>
  BY DEF SaveSnapshot, cluster
<1>6. \A v \in Users \ {u} : call'[v] = Outside
  BY <1>1 DEF SaveSnapshot, Return, Base, Typed, LockFits
<1>7. CASE /\ snapshots' = [snapshots EXCEPT ![k] = {contents}]
           /\ c.state
           /\ call' = [call EXCEPT ![u] = [at |-> "export", result |-> new]]
           /\ results' = results
  <2>1. snapshots'[k] = {contents} /\ \A p \in Paths \ {k} : snapshots'[p] = snapshots[p]
    BY <1>2, <1>7 DEF Base, Typed
  <2>2. ResultsFit'
    BY <1>3, <1>5, <1>7, <2>1, ResultType DEF BackupsFit, ResultsFit, Key
  <2>3. call'[u] = [at |-> "export", result |-> new]
    BY <1>7 DEF Base, Typed
  <2>4. BackupGoesOn'
    BY <1>3, <1>4, <1>5, <1>6, <1>7, <2>1, <2>3 DEF BackupGoesOn, NewName, Key, Outside
  <2> QED
    BY <2>2, <2>4 DEF BackupsFit
<1>8. CASE /\ snapshots' = [snapshots EXCEPT ![k] = {contents}]
           /\ ~c.state
           /\ results' = results \cup {new}
           /\ Return(u)
  <2>1. snapshots'[k] = {contents} /\ \A p \in Paths \ {k} : snapshots'[p] = snapshots[p]
    BY <1>2, <1>8 DEF Base, Typed
  <2>2. \A r \in results :
          /\ r.path = Key(r)
          /\ attempts'[Key(r)] > 0
          /\ attempts'[Key(r)] = 1 => snapshots'[Key(r)] = {r.contents}
          /\ attempts'[Key(r)] = 1 /\ r.state => stateFiles'[Key(r)] = {r.recorded}
    BY <1>3, <1>5, <2>1, ResultType DEF BackupsFit, ResultsFit
  <2>3. ResultsFit'
    BY <1>3, <1>4, <1>5, <1>8, <2>1, <2>2 DEF ResultsFit, Key
  <2>4. call'[u].at = "unlock"
    BY <1>8 DEF Return, Base, Typed
  <2>5. BackupGoesOn'
    BY <1>6, <2>4 DEF BackupGoesOn, Outside
  <2> QED
    BY <2>3, <2>5 DEF BackupsFit
<1>9. CASE Return(u) /\ UNCHANGED <<snapshots, results>>
  <2>1. call'[u].at = "unlock"
    BY <1>9 DEF Return, Base, Typed
  <2>2. ResultsFit'
    BY <1>5, <1>9 DEF BackupsFit, ResultsFit, Key
  <2>3. BackupGoesOn'
    BY <1>6, <2>1 DEF BackupGoesOn, Outside
  <2> QED
    BY <2>2, <2>3 DEF BackupsFit
<1> QED
  BY <1>2, <1>7, <1>8, <1>9 DEF SaveSnapshot

LEMMA ExportStateFits ==
  ASSUME Base, Base', BackupsFit, NEW u \in Users, ExportState(u)
  PROVE  BackupsFit'
<1> DEFINE new == call[u].result
<1> DEFINE k == Key(new)
<1>1. call[u] \in ResultCalls /\ call[u].at = "export" /\ call[u] # Outside
  BY CallFields DEF Base, Typed, ExportState
<1>2. new.path = k /\ k \in Paths
  BY <1>1 DEF BackupsFit, BackupGoesOn, ResultCalls, Results
<1>3. /\ attempts[k] > 0
      /\ attempts[k] = 1 => snapshots[k] = {new.contents} /\ \A r \in results : Key(r) # k
      /\ new.recorded = recorded
  BY <1>1 DEF BackupsFit, BackupGoesOn, NewName
<1>4. /\ UNCHANGED <<recorded, snapshots, attempts>>
      /\ results' \in {results, results \cup {new}}
      /\ stateFiles'[k] = {recorded} \/ results' = results
      /\ \A p \in Paths \ {k} : stateFiles'[p] = stateFiles[p]
  BY <1>2 DEF ExportState, Base, Typed, cluster
<1>5. \A r \in results :
        /\ r.path = Key(r)
        /\ attempts'[Key(r)] > 0
        /\ attempts'[Key(r)] = 1 => snapshots'[Key(r)] = {r.contents}
        /\ attempts'[Key(r)] = 1 /\ r.state => stateFiles'[Key(r)] = {r.recorded}
  BY <1>3, <1>4, ResultType DEF BackupsFit, ResultsFit
<1>6. ResultsFit'
  BY <1>2, <1>3, <1>4, <1>5 DEF ResultsFit, Key
<1>7. call'[u].at = "unlock" /\ \A v \in Users \ {u} : call'[v] = Outside
  BY <1>1 DEF ExportState, Return, Base, Typed, LockFits
<1>8. BackupGoesOn'
  BY <1>7 DEF BackupGoesOn, Outside
<1> QED
  BY <1>6, <1>8 DEF BackupsFit

LEMMA InitBackups == Init => BackupsFit
BY DEF Init, BackupsFit, ResultsFit, BackupGoesOn, Outside

LEMMA NextBackups == Base /\ Base' /\ BackupsFit /\ [Next]_vars => BackupsFit'
<1>1. ASSUME Base, BackupsFit, UNCHANGED vars
      PROVE  BackupsFit'
  BY <1>1 DEF BackupsFit, ResultsFit, BackupGoesOn, NewName, Key, vars, cluster, files
<1> QED
  BY <1>1, BackupSteps, NoBackupStepFits, BeginBackupFits, SaveSnapshotFits, ExportStateFits

LEMMA BackupsAlwaysFit == Spec => []BackupsFit
BY OneAtATime, InitBackups, NextBackups, PTL DEF Spec

LEMMA BackupsFitProperties == BackupsFit => SnapshotsStay /\ StateFitsSnapshot
BY DEF BackupsFit, ResultsFit, SnapshotsStay, StateFitsSnapshot, Alone, Key

\* A snapshot stays what the cluster was when it was reported, whatever else is
\* done, fails or is backed up under another name.
THEOREM SnapshotsKept == Spec => []SnapshotsStay
BY BackupsAlwaysFit, BackupsFitProperties, PTL

\* The state beside a snapshot is the state at the time of the snapshot.
THEOREM StatesFit == Spec => []StateFitsSnapshot
BY BackupsAlwaysFit, BackupsFitProperties, PTL

-----------------------------------------------------------------------------
(* Addons.                                                                 *)

\* A step that changes no addon, or what is known of one.
NoAddonStep ==
  /\ UNCHANGED <<contents, snapshots, published, dropped>>
  /\ \A v \in Users : call'[v].at \in {"apply", "record"} => call'[v] = call[v]

LEMMA NoAddonStepFits ==
  ASSUME AddonsFit, NoAddonStep
  PROVE  AddonsFit'
BY DEF AddonsFit, ContentsExplained, UninstallGoesOn, UninstallLeavesOnlyDropped, Explained,
       NoAddonStep

\* A user moves, or begins, outside of the places where an addon changes.
LEMMA MovesOutsideAddons ==
  ASSUME Base, NEW u \in Users, UNCHANGED <<contents, snapshots, published, dropped>>,
         NEW c, c.at \notin {"apply", "record"}, call' = [call EXCEPT ![u] = c]
  PROVE  NoAddonStep
<1>1. call'[u] = c /\ \A v \in Users \ {u} : call'[v] = call[v]
  BY DEF Base, Typed
<1> QED
  BY <1>1 DEF NoAddonStep

LEMMA AddonSteps ==
  ASSUME Base, Next
  PROVE  \/ NoAddonStep
         \/ \E u \in Users : \/ Fetch(u) \/ ApplyManifest(u) \/ HelmCall(u)
                             \/ SaveSnapshot(u) \/ Restore(u)
         \/ \E a \in Addons, rs \in SUBSET Resources : Publish(a, rs)
<1>1. ASSUME NEW u \in Users, NEW op \in AddonOps, NEW a \in Addons, BeginAddon(u, op, a)
      PROVE  NoAddonStep
  <2> DEFINE c == [at |-> IF a \in Charts THEN "helm" ELSE "fetch", op |-> op, addon |-> a]
  <2>1. c.at \notin {"apply", "record"}
    OBVIOUS
  <2>2. call' = [call EXCEPT ![u] = c] /\ UNCHANGED <<contents, snapshots, published, dropped>>
    BY <1>1 DEF BeginAddon, Begin, cluster, files, source
  <2> HIDE DEF c
  <2> QED
    BY <2>1, <2>2, MovesOutsideAddons
<1>2. ASSUME NEW u \in Users, NEW prefix \in Prefixes, NEW second \in Seconds,
             NEW s \in BOOLEAN, BeginBackup(u, prefix, second, s)
      PROVE  NoAddonStep
  BY <1>2, MovesOutsideAddons DEF BeginBackup, Begin, cluster, source
<1>3. ASSUME NEW u \in Users, NEW r \in results, BeginRestore(u, r)
      PROVE  NoAddonStep
  BY <1>3, MovesOutsideAddons DEF BeginRestore, Begin, cluster, files, source
<1>4. ASSUME NEW u \in Users, Record(u) \/ ExportState(u) \/ Unlock(u)
      PROVE  NoAddonStep
  <2> DEFINE returned == [at |-> "unlock"]
  <2>1. UNCHANGED <<contents, snapshots, published, dropped>>
    BY <1>4 DEF Record, ExportState, Unlock, cluster, files, source
  <2>2. returned.at = "unlock" /\ Outside.at = "outside"
    BY DEF Outside
  <2>3. call' = [call EXCEPT ![u] = Outside] \/ call' = [call EXCEPT ![u] = returned]
    BY <1>4 DEF Record, ExportState, Unlock, Return
  <2> HIDE DEF returned
  <2> QED
    BY <2>1, <2>2, <2>3, MovesOutsideAddons
<1> QED
  BY <1>1, <1>2, <1>3, <1>4 DEF Next

LEMMA FetchFits ==
  ASSUME Base, AddonsFit, NEW u \in Users, Fetch(u)
  PROVE  AddonsFit'
<1> DEFINE a == call[u].addon
<1> DEFINE c == [at |-> "apply", op |-> call[u].op, addon |-> a, fetched |-> published[a]]
<1>1. call[u] \in FetchCalls /\ a \in Addons
  BY CallFields DEF Base, Typed, Fetch, FetchCalls, Addons
<1>2. UNCHANGED <<contents, snapshots, published, dropped>>
  BY DEF Fetch, cluster, files, source
<1>3. CASE Return(u)
  BY <1>2, <1>3, MovesOutsideAddons, NoAddonStepFits DEF Return
<1>4. CASE call' = [call EXCEPT ![u] = c]
  <2>1. call'[u] = c /\ \A v \in Users \ {u} : call'[v] = call[v]
    BY <1>4 DEF Base, Typed
  <2>2. contents.resources[a] \subseteq published[a] \cup dropped[a]
    BY <1>1 DEF AddonsFit, ContentsExplained, Explained
  <2>3. UninstallGoesOn'
    BY <1>2, <2>1, <2>2 DEF AddonsFit, UninstallGoesOn, Explained
  <2>4. UninstallLeavesOnlyDropped'
    BY <1>2, <2>1 DEF AddonsFit, UninstallLeavesOnlyDropped
  <2> QED
    BY <1>2, <2>3, <2>4 DEF AddonsFit, ContentsExplained, Explained
<1> QED
  BY <1>3, <1>4 DEF Fetch, Base, Typed

\* One user changes the resources of one addon to some that are explained.
LEMMA AddonChanges ==
  ASSUME Base, Base', AddonsFit, NEW u \in Users, call[u] # Outside, NEW a \in Addons,
         UNCHANGED <<snapshots, published, dropped>>,
         contents'.resources[a] \subseteq Explained(a),
         \A b \in Addons \ {a} : contents'.resources[b] = contents.resources[b],
         call'[u].at # "apply", \A v \in Users \ {u} : call'[v] = call[v],
         call'[u].at = "record" /\ call'[u].op = "uninstall" =>
           /\ call'[u].addon = a
           /\ contents'.resources[a] \subseteq IF a \in Charts THEN {} ELSE dropped[a]
  PROVE  AddonsFit'
<1>1. \A v \in Users \ {u} : call'[v] = Outside
  BY DEF Base, LockFits
<1>2. ContentsExplained'
  BY DEF AddonsFit, ContentsExplained, Explained
<1>3. UninstallGoesOn'
  BY <1>1 DEF UninstallGoesOn, Outside
<1>4. UninstallLeavesOnlyDropped'
  BY <1>1 DEF UninstallLeavesOnlyDropped, Outside
<1> QED
  BY <1>2, <1>3, <1>4 DEF AddonsFit

LEMMA ApplyManifestFits ==
  ASSUME Base, Base', AddonsFit, NEW u \in Users, ApplyManifest(u)
  PROVE  AddonsFit'
<1> DEFINE c == call[u]
<1> DEFINE a == c.addon
<1>1. c \in ManifestCalls /\ c.at = "apply" /\ c # Outside /\ a \in Addons /\ a \notin Charts
  BY CallFields, AddonsAssumption DEF Base, Typed, ApplyManifest, ManifestCalls, Addons
<1>2. UNCHANGED <<snapshots, published, dropped>>
  BY DEF ApplyManifest, files, source
<1>3. /\ contents.resources[a] \subseteq c.fetched \cup dropped[a]
      /\ contents.resources[a] \subseteq Explained(a)
      /\ c.fetched \subseteq Explained(a)
  BY <1>1 DEF AddonsFit, UninstallGoesOn, ContentsExplained
<1>4. contents.resources \in [Addons -> SUBSET Resources]
  BY DEF Base, Typed, Contents
<1>5. ASSUME NEW rs \in SUBSET c.fetched,
             contents' = [contents EXCEPT !.resources[a] = Applied(@, c.op, rs)]
      PROVE  /\ contents'.resources[a] = Applied(contents.resources[a], c.op, rs)
             /\ contents'.resources[a] \subseteq Explained(a)
             /\ \A b \in Addons \ {a} : contents'.resources[b] = contents.resources[b]
  <2>1. contents'.resources = [contents.resources EXCEPT ![a] = Applied(@, c.op, rs)]
    BY <1>5 DEF Base, Typed, Contents
  <2>2. Applied(contents.resources[a], c.op, rs) \subseteq Explained(a)
    BY <1>3 DEF Applied
  <2> QED
    BY <1>1, <1>4, <2>1, <2>2
<1>6. CASE /\ contents' = [contents EXCEPT !.resources[a] = Applied(@, c.op, c.fetched)]
           /\ Proceed(u, "record")
  <2>1. call'[u] = [c EXCEPT !.at = "record"] /\ \A v \in Users \ {u} : call'[v] = call[v]
    BY <1>6 DEF Proceed, Base, Typed
  <2>2. call'[u].at = "record" /\ call'[u].op = c.op /\ call'[u].addon = a
    BY <1>1, <2>1 DEF ManifestCalls
  <2>3. c.op = "uninstall" => contents'.resources[a] \subseteq dropped[a]
    BY <1>3, <1>5, <1>6 DEF Applied
  <2> QED
    BY <1>1, <1>2, <1>5, <1>6, <2>1, <2>2, <2>3, AddonChanges
<1>7. CASE /\ \E done \in SUBSET c.fetched :
                contents' = [contents EXCEPT !.resources[a] = Applied(@, c.op, done)]
           /\ Return(u)
  <2>1. call'[u].at = "unlock" /\ \A v \in Users \ {u} : call'[v] = call[v]
    BY <1>7 DEF Return, Base, Typed
  <2> QED
    BY <1>1, <1>2, <1>5, <1>7, <2>1, AddonChanges
<1> QED
  BY <1>6, <1>7 DEF ApplyManifest

LEMMA HelmCallFits ==
  ASSUME Base, Base', AddonsFit, NEW u \in Users, HelmCall(u)
  PROVE  AddonsFit'
<1> DEFINE c == call[u]
<1> DEFINE a == c.addon
<1>1. c \in ChartCalls /\ c # Outside /\ a \in Addons /\ a \in Charts
  BY CallFields DEF Base, Typed, HelmCall, ChartCalls, Addons
<1>2. UNCHANGED <<snapshots, published, dropped>>
  BY DEF HelmCall, files, source
<1>3. contents.resources[a] \subseteq Explained(a)
  BY <1>1 DEF AddonsFit, ContentsExplained
<1>4. /\ HelmResult(c.op, a).resources[a] = IF c.op = "uninstall" THEN {} ELSE published[a]
      /\ \A b \in Addons \ {a} : HelmResult(c.op, a).resources[b] = contents.resources[b]
  BY <1>1 DEF HelmResult, Base, Typed, Contents
<1>5. contents' \in {contents, HelmResult(c.op, a)}
  BY DEF HelmCall
<1>6. /\ contents'.resources[a] \subseteq Explained(a)
      /\ \A b \in Addons \ {a} : contents'.resources[b] = contents.resources[b]
  BY <1>3, <1>4, <1>5 DEF Explained
<1>7. CASE contents' = HelmResult(c.op, a) /\ Proceed(u, "record")
  <2>1. call'[u] = [c EXCEPT !.at = "record"] /\ \A v \in Users \ {u} : call'[v] = call[v]
    BY <1>7 DEF Proceed, Base, Typed
  <2>2. call'[u].at = "record" /\ call'[u].op = c.op /\ call'[u].addon = a
    BY <1>1, <2>1 DEF ChartCalls
  <2>3. c.op = "uninstall" => contents'.resources[a] = {}
    BY <1>4, <1>7
  <2> QED
    BY <1>1, <1>2, <1>6, <2>1, <2>2, <2>3, AddonChanges
<1>8. CASE Return(u)
  <2>1. call'[u].at = "unlock" /\ \A v \in Users \ {u} : call'[v] = call[v]
    BY <1>8 DEF Return, Base, Typed
  <2> QED
    BY <1>1, <1>2, <1>6, <2>1, AddonChanges
<1> QED
  BY <1>7, <1>8 DEF HelmCall

LEMMA SaveSnapshotExplained ==
  ASSUME Base, Base', AddonsFit, NEW u \in Users, SaveSnapshot(u)
  PROVE  AddonsFit'
<1>1. call[u] \in BackupCalls /\ call[u] # Outside
  BY CallFields DEF Base, Typed, SaveSnapshot
<1>2. UNCHANGED <<contents, published, dropped>> /\ Path(call[u]) \in Paths
  BY <1>1, PathType DEF SaveSnapshot, cluster, source, Path, BackupCalls
<1>3. \A p \in Paths : snapshots'[p] \subseteq snapshots[p] \cup {contents}
  BY <1>2 DEF SaveSnapshot, Base, Typed
<1>4. ContentsExplained'
  BY <1>2, <1>3 DEF AddonsFit, ContentsExplained, Explained
<1>5. call'[u].at \in {"export", "unlock"} /\ \A v \in Users \ {u} : call'[v] = Outside
  BY <1>1 DEF SaveSnapshot, Return, Base, Typed, LockFits
<1> QED
  BY <1>4, <1>5 DEF AddonsFit, UninstallGoesOn, UninstallLeavesOnlyDropped, Outside

LEMMA RestoreExplained ==
  ASSUME Base, Base', AddonsFit, NEW u \in Users, Restore(u)
  PROVE  AddonsFit'
<1>1. call[u] \in ResultCalls /\ call[u] # Outside
  BY CallFields DEF Base, Typed, Restore
<1>2. UNCHANGED <<snapshots, published, dropped>> /\ call[u].result.path \in Paths
  BY <1>1 DEF Restore, files, source, ResultCalls, Results
<1>3. contents' = contents \/ contents' \in snapshots[call[u].result.path]
  BY DEF Restore
<1>4. ContentsExplained'
  BY <1>2, <1>3 DEF AddonsFit, ContentsExplained, Explained
<1>5. call'[u].at = "unlock" /\ \A v \in Users \ {u} : call'[v] = Outside
  BY <1>1 DEF Restore, Return, Base, Typed, LockFits
<1> QED
  BY <1>4, <1>5 DEF AddonsFit, UninstallGoesOn, UninstallLeavesOnlyDropped, Outside

\* A publication explains what it drops.
LEMMA PublishFits ==
  ASSUME Base, Base', AddonsFit, NEW a \in Addons, NEW rs \in SUBSET Resources, Publish(a, rs)
  PROVE  AddonsFit'
<1>1. UNCHANGED <<call, contents, snapshots>>
  BY DEF Publish, cluster, files
<1>2. \A b \in Addons : Explained(b) \subseteq Explained(b)' /\ dropped[b] \subseteq dropped'[b]
  BY DEF Publish, Explained, Base, Typed
<1>3. ContentsExplained'
  BY <1>1, <1>2 DEF AddonsFit, ContentsExplained
<1>4. ASSUME NEW u \in Users, call[u].at \in {"apply", "record"}
      PROVE  call[u].addon \in Addons
  BY <1>4, CallFields DEF Base, Typed, ManifestCalls, ChartCalls, Addons
<1>5. UninstallGoesOn'
  BY <1>1, <1>2, <1>4 DEF AddonsFit, UninstallGoesOn
<1>6. UninstallLeavesOnlyDropped'
  BY <1>1, <1>2, <1>4 DEF AddonsFit, UninstallLeavesOnlyDropped
<1> QED
  BY <1>3, <1>5, <1>6 DEF AddonsFit

LEMMA InitAddons == Init => AddonsFit
<1> SUFFICES ASSUME Init PROVE AddonsFit
  OBVIOUS
<1>1. \A a \in Addons : contents.resources[a] = {}
  BY DEF Init
<1>2. \A p \in Paths : snapshots[p] = {}
  BY DEF Init, Paths
<1>3. \A u \in Users : call[u].at = "outside"
  BY DEF Init, Outside
<1> QED
  BY <1>1, <1>2, <1>3 DEF AddonsFit, ContentsExplained, UninstallGoesOn,
     UninstallLeavesOnlyDropped

LEMMA NextAddons == Base /\ Base' /\ AddonsFit /\ [Next]_vars => AddonsFit'
<1>1. ASSUME AddonsFit, UNCHANGED vars
      PROVE  AddonsFit'
  <2>1. NoAddonStep
    BY <1>1 DEF NoAddonStep, vars, cluster, files, source
  <2> QED
    BY <1>1, <2>1, NoAddonStepFits
<1> QED
  BY <1>1, AddonSteps, NoAddonStepFits, FetchFits, ApplyManifestFits, HelmCallFits,
     SaveSnapshotExplained, RestoreExplained, PublishFits

\* What a successful uninstall leaves of an addon its publisher has dropped, and
\* of a chart it leaves nothing.
THEOREM UninstallExplained == Spec => []UninstallLeavesOnlyDropped
<1>1. Spec => []AddonsFit
  BY OneAtATime, InitAddons, NextAddons, PTL DEF Spec
<1>2. AddonsFit => UninstallLeavesOnlyDropped
  BY DEF AddonsFit
<1> QED
  BY <1>1, <1>2, PTL
=============================================================================

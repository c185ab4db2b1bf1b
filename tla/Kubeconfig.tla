----------------------------- MODULE Kubeconfig -----------------------------
(***************************************************************************)
(* The last step of `ironkube init': the kubeconfig of the new cluster is  *)
(* rewritten and merged into the user's own kubeconfig file                *)
(* (pkg/kubeconfig, called by pkg/phases/kubeconfig.go).  Several inits    *)
(* may merge into the file at the same time, a write may be cut short, and *)
(* the user edits the file too.                                            *)
(*                                                                         *)
(* A name is a pair of a string and a suffix, "" or "-admin".  An entry    *)
(* may have fields that the structs of the code do not know: extra.        *)
(***************************************************************************)
EXTENDS Naturals, Sequences, FiniteSets

CONSTANTS Procs,      \* inits that merge into the file
          ClusterNames,
          Hosts,      \* the first control-plane nodes
          Addresses,  \* those that clusters name in their own kubeconfigs
          Foreign,    \* a configuration the user has besides those of init
          MaxMerges,  \* bound: merges started
          MaxFaults,  \* bound: writes that are cut short
          Absent, Empty, Garbage  \* no file; nothing in it; not YAML

Local == "127.0.0.1"
NameOf(c, suffix) == <<c, suffix>>
None == NameOf("", "")

Null == {Absent, Empty, Garbage}

ASSUME BoundsAssumption == MaxMerges \in Nat /\ MaxFaults \in Nat
ASSUME HostsAssumption ==
  Hosts \subseteq STRING /\ Addresses \subseteq STRING /\ Local \notin Hosts \cup Addresses
ASSUME NamesAssumption == ClusterNames \subseteq STRING

Names    == STRING \X {"", "-admin"}
Clusters == [name : Names, server : STRING, extra : BOOLEAN]
Contexts == [name : Names, cluster : Names, user : Names, extra : BOOLEAN]
Users    == [name : Names, cred : Nat, extra : BOOLEAN]

\* Files that parse: lists of the three kinds of entries.
Configs ==
  [clusters : Seq(Clusters), contexts : Seq(Contexts), users : Seq(Users),
   current : Names \cup {None}]

Named(list) == {list[j].name : j \in DOMAIN list}

\* Every context has its cluster and its user, and the current one exists.
Resolves(cfg) ==
  /\ \A j \in DOMAIN cfg.contexts :
       /\ cfg.contexts[j].cluster \in Named(cfg.clusters)
       /\ cfg.contexts[j].user \in Named(cfg.users)
  /\ cfg.current \in Named(cfg.contexts) \cup {None}

\* The user's own file is in order.
ASSUME ForeignAssumption == Foreign \in Configs /\ Resolves(Foreign)

VARIABLES
  file,      \* the kubeconfig file
  proc,      \* what each init is doing, and holds
  merges, faults,
  \* The next two only observe.
  promised,  \* <<name, server, credential>> of the merged clusters in the file
  damaged    \* a write was cut short, or two overlapped

vars == <<file, proc, merges, faults, promised, damaged>>

EmptyConfig == [clusters |-> << >>, contexts |-> << >>, users |-> << >>, current |-> None]

-----------------------------------------------------------------------------
(* Pure operators.                                                         *)

\* What the cluster's own kubeconfig looks like, with a credential of its own: its
\* server is the loopback address in that of k3s, the node's in that of kubeadm.
RemoteConfig(server, cred) ==
  LET name == NameOf("default", "") IN
  [clusters |-> <<[name |-> name, server |-> server, extra |-> FALSE]>>,
   contexts |-> <<[name |-> name, cluster |-> name, user |-> name, extra |-> FALSE]>>,
   users    |-> <<[name |-> name, cred |-> cred, extra |-> FALSE]>>,
   current  |-> name]

\* Reading a file drops the fields the structs do not have.
Parse(cfg) ==
  LET known(list) == [j \in DOMAIN list |-> [list[j] EXCEPT !.extra = FALSE]] IN
  [clusters |-> known(cfg.clusters), contexts |-> known(cfg.contexts),
   users |-> known(cfg.users), current |-> cfg.current]

\* Mutant: the context still names the user of the cluster's own file.
RewriteServerKeepsUser(cfg, host, c) ==
  [clusters |-> [j \in DOMAIN cfg.clusters |->
      [cfg.clusters[j] EXCEPT !.name = NameOf(c, ""),
                              !.server = IF @ = Local THEN host ELSE @]],
   contexts |-> [j \in DOMAIN cfg.contexts |->
      [cfg.contexts[j] EXCEPT !.name = NameOf(c, ""), !.cluster = NameOf(c, "")]],
   users    |-> [j \in DOMAIN cfg.users |->
      [cfg.users[j] EXCEPT !.name = NameOf(c, "-admin")]],
   current  |-> NameOf(c, "")]

RewriteServer(cfg, host, c) ==
  [clusters |-> [j \in DOMAIN cfg.clusters |->
      [cfg.clusters[j] EXCEPT !.name = NameOf(c, ""),
                              !.server = IF @ = Local THEN host ELSE @]],
   contexts |-> [j \in DOMAIN cfg.contexts |->
      [cfg.contexts[j] EXCEPT !.name = NameOf(c, ""), !.cluster = NameOf(c, ""),
                              !.user = NameOf(c, "-admin")]],
   users    |-> [j \in DOMAIN cfg.users |->
      [cfg.users[j] EXCEPT !.name = NameOf(c, "-admin")]],
   current  |-> NameOf(c, "")]

Positions(list, name) == {j \in DOMAIN list : list[j].name = name}
FirstAt(list, name) ==
  CHOOSE j \in Positions(list, name) : \A m \in Positions(list, name) : j <= m
First(list, name) == list[FirstAt(list, name)]

\* Mutant: an entry that is there already is kept.
UpsertKeepsOld(list, e) ==
  IF Positions(list, e.name) = {} THEN Append(list, e) ELSE list

\* An entry replaces the first of its name, or is appended.
Upsert(list, e) ==
  IF Positions(list, e.name) = {} THEN Append(list, e)
  ELSE [list EXCEPT ![FirstAt(list, e.name)] = e]

\* Mutant: only the new cluster's entries are written.
MergeConfigsNewOnly(old, new) == new

\* The loop over the entries of one kind.
Upserted(list, entries) ==
  LET f[n \in 0 .. Len(entries)] ==
        IF n = 0 THEN list ELSE Upsert(f[n - 1], entries[n])
  IN f[Len(entries)]

MergeConfigs(old, new) ==
  [clusters |-> Upserted(old.clusters, new.clusters),
   contexts |-> Upserted(old.contexts, new.contexts),
   users    |-> Upserted(old.users, new.users),
   current  |-> new.current]

-----------------------------------------------------------------------------
(* The merges.                                                             *)

Idle == [at |-> "idle", cluster |-> "", server |-> Local, cred |-> 0, new |-> EmptyConfig,
         promised |-> {}, base |-> EmptyConfig]

Init ==
  /\ file \in {Absent, Empty, Foreign}
  /\ proc = [p \in Procs |-> Idle]
  /\ merges = 0 /\ faults = 0
  /\ promised = {}
  /\ damaged = FALSE

\* RunOnHost returned the cluster's kubeconfig: RewriteServer.
Fetch(p) ==
  /\ proc[p].at = "idle"
  /\ merges < MaxMerges
  /\ merges' = merges + 1
  /\ \E c \in ClusterNames, h \in Hosts, own \in {Local} \cup Addresses :
       proc' = [proc EXCEPT ![p] =
         [@ EXCEPT !.at = "read", !.cluster = c, !.cred = merges + 1,
                   !.server = IF own = Local THEN h ELSE own,
                   !.new = RewriteServer(Parse(RemoteConfig(own, merges + 1)), h, c)]]
  /\ UNCHANGED <<file, faults, promised, damaged>>

\* Merge reads the file.  One that is not there is written as it is, an empty
\* one has no entries, and one that does not parse is an error.
Read(p) ==
  /\ proc[p].at = "read"
  /\ IF file = Garbage
       THEN proc' = [proc EXCEPT ![p] = Idle]
       ELSE LET old == IF file \in Null THEN EmptyConfig ELSE Parse(file) IN
            proc' = [proc EXCEPT ![p] =
              [@ EXCEPT !.at = "open", !.base = old,
                        !.promised = IF file \in Null THEN {} ELSE promised,
                        !.new = IF file = Absent THEN proc[p].new
                                ELSE MergeConfigs(old, proc[p].new)]]
  /\ UNCHANGED <<file, merges, faults, promised, damaged>>

\* SaveToFile: os.WriteFile truncates the file, then writes it.
Open(p) ==
  /\ proc[p].at = "open"
  /\ file' = Empty
  /\ promised' = {}
  /\ damaged' = (damaged \/ \E q \in Procs : proc[q].at = "write")
  /\ proc' = [proc EXCEPT ![p].at = "write"]
  /\ UNCHANGED <<merges, faults>>

\* Writing over what another has written since may leave a part of it.
Write(p) ==
  /\ proc[p].at = "write"
  /\ file' \in IF file = Empty THEN {proc[p].new} ELSE {proc[p].new, Garbage}
  /\ promised' =
       IF file' = Garbage THEN {}
       ELSE {m \in proc[p].promised : m[1] # proc[p].cluster}
            \cup {<<proc[p].cluster, proc[p].server, proc[p].cred>>}
  /\ damaged' = (damaged \/ file # Empty)
  /\ proc' = [proc EXCEPT ![p] = Idle]
  /\ UNCHANGED <<merges, faults>>

\* What the file holds when a write is cut short.  The keys of a kubeconfig are
\* written in alphabetical order, and a prefix of YAML may well be YAML.
Torn(cfg) == {Empty, Garbage, [cfg EXCEPT !.users = << >>]}

\* The write fails, or the process dies in it.
WriteCut(p) ==
  /\ proc[p].at = "write"
  /\ faults < MaxFaults
  /\ faults' = faults + 1
  /\ file' \in Torn(proc[p].new)
  /\ promised' = {}
  /\ damaged' = TRUE
  /\ proc' = [proc EXCEPT ![p] = Idle]
  /\ UNCHANGED merges

\* The user chooses another context of the file.
UseContext ==
  /\ file \notin Null
  /\ \E j \in DOMAIN file.contexts : file' = [file EXCEPT !.current = file.contexts[j].name]
  /\ damaged' = (damaged \/ \E q \in Procs : proc[q].at = "write")
  /\ UNCHANGED <<proc, merges, faults, promised>>

Next ==
  \/ \E p \in Procs : Fetch(p) \/ Read(p) \/ Open(p) \/ Write(p) \/ WriteCut(p)
  \/ UseContext

Spec == Init /\ [][Next]_vars

-----------------------------------------------------------------------------
(* Properties.                                                             *)

Servers  == Hosts \cup Addresses
Promises == ClusterNames \X Servers \X Nat

\* The types of the variables.
TypeOK ==
  /\ file \in Null \cup Configs
  /\ proc \in [Procs ->
       [at : {"idle", "read", "open", "write"}, cluster : ClusterNames \cup {""},
        server : Servers \cup {Local}, cred : Nat, new : Configs,
        promised : SUBSET Promises, base : Configs]]
  /\ merges \in Nat /\ faults \in Nat
  /\ promised \in SUBSET Promises
  /\ damaged \in BOOLEAN

\* As long as no write was cut short and no two writers met, every context of
\* the file has its cluster and its user, and the current one exists.
ContextsResolve ==
  file \notin Null /\ ~damaged => Resolves(file)

\* A cluster that was merged, and that every later merge saw, is there with the
\* server and the credential of its last init, whatever else the file holds: the
\* host of the first node for the loopback address, which works only there, and
\* else the address the cluster has given.
MergedClustersWork ==
  file \notin Null =>
    \A m \in promised :
      /\ Positions(file.contexts, NameOf(m[1], "")) # {}
      /\ LET context == First(file.contexts, NameOf(m[1], "")) IN
           /\ context.cluster \in Named(file.clusters)
           /\ context.user \in Named(file.users)
           /\ First(file.clusters, context.cluster).server = m[2]
           /\ First(file.users, context.user).cred = m[3]

\* A merge that is written whole takes nothing away: each entry it read is
\* there, as it was read, but those of the cluster itself; and each name once
\* more at most.
MergeKeepsOthers ==
  [][\A p \in Procs :
       proc[p].at = "write" /\ proc'[p].at = "idle" /\ file' = proc[p].new =>
         \A f \in {"clusters", "contexts", "users"} :
           /\ Len(file'[f]) <= Len(proc[p].base[f]) + 1
           /\ \A j \in DOMAIN proc[p].base[f] :
                proc[p].base[f][j].name[1] # proc[p].cluster =>
                  file'[f][j] = proc[p].base[f][j]]_vars
=============================================================================
